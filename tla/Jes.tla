-------------------------------- MODULE Jes ---------------------------------
(***************************************************************************)
(* src/src/mvs/jes2, jes2ckpt and jes2spool: the handles.                  *)
(*                                                                         *)
(* jesopen() opens the JES2 checkpoint and the spool, from the DDs of the  *)
(* step if it has them, else allocated by name: through the catalog or,    *)
(* when that fails, on the first volume that has the data set.  jesiropn() *)
(* allocates and opens an internal reader.  A file handle is a record of   *)
(* what it holds: its storage, its DD (NULL for a DD of the step, which an *)
(* unallocation leaves to the step), its open DCB and its buffer.          *)
(***************************************************************************)
EXTENDS DynAlloc
LOCAL INSTANCE SequencesExt

VARIABLE jes            \* the handles, the DDs of the step, what JES2 was asked

NoFile == [block |-> NULL, dd |-> NULL, dcb |-> NULL, buf |-> NULL]
NoHandle == [block |-> NULL, cp |-> NoFile, js |-> NoArray, files |-> <<>>]
NoReader == [block |-> NULL, area |-> NULL, acb |-> NULL, dd |-> NULL]

DDName == [txt |-> "DD", len |-> 8, num |-> 0, parts |-> <<>>]
Dsn == [txt |-> "PREFIX.HASPCKPT", len |-> 15, num |-> 0,
        parts |-> <<[txt |-> "PREFIX.HASPCKPT", len |-> 15, num |-> 0, parts |-> <<>>], NoValue>>]
Volser == [txt |-> "VOLUME", len |-> 6, num |-> 0,
           parts |-> <<[txt |-> "VOLUME", len |-> 6, num |-> 0, parts |-> <<>>]>>]
Shared(volser) ==
    [crt |-> TRUE, ddn |-> NoValue, dsn |-> Dsn, hasdisp |-> TRUE, disp |-> <<"SHR">>,
     dcbdsn |-> NoValue, dsorg |-> NoValue, recfm |-> NoValue, lrecl |-> NoValue,
     blksize |-> NoValue, space |-> <<>>, unit |-> NoValue, volser |-> volser,
     mount |-> FALSE, freeclose |-> FALSE]

----------------------------------------------------------------------------
(* The checkpoint and the spool.  c.file is the file being opened.         *)

\* A DD that cannot be unallocated stays until the step ends.
Drop(c, r) == [c EXCEPT !.lost = @ \cup ({r} \cap c.held)]

\* An unallocation of the file's DD, by its name alone.
Unallocate(c, dd) ==
    Drop([__frtx9a(Issued(__txddn(Fresh(c), DDName), "UN", FALSE, dd)) EXCEPT !.array = c.array], dd)
deallocate_checkpoint(c, dd) == Unallocate(c, dd)
deallocate_spool(c, dd) == Unallocate(c, dd)

\* An allocation of units, each built by Unit unless one before it failed.
AllocateBy(c, units, Unit(_, _)) ==
    [__frtx9a(Issued(FoldLeft(LAMBDA t, u : IF t.err # 0 THEN t ELSE Unit(t, u),
                              [Fresh(c) EXCEPT !.err = 0, !.dd = NULL], units), "AL", FALSE, NULL))
        EXCEPT !.array = c.array]

\* An allocation DISP=SHR that returns its DD name.
SharedUnit(c, u) == CASE u = "RTDDN" -> __txrddn(c, NoValue)
                      [] u = "DSNAM" -> __txdsn(c, Dsn)
                      [] u = "STATS" -> __txshr(c, NoValue)
allocate_checkpoint(c) == AllocateBy(c, <<"RTDDN", "DSNAM", "STATS">>, SharedUnit)
allocate_spool(c) == AllocateBy(c, <<"RTDDN", "DSNAM", "STATS">>, SharedUnit)

\* cp may be without DD, DCB or buffer.
__cpclos(c, cp) ==
    [Release(Release(deallocate_checkpoint(Release(c, cp.dcb), cp.dd), cp.buf), cp.block)
        EXCEPT !.file = NoFile]
__jsclos(c, js) ==
    [Release(deallocate_spool(Release(c, js.dcb), js.dd), js.block) EXCEPT !.file = NoFile]

\* by is "DD" for a DD name, dd its DD if it was allocated for this file, or
\* "name" for a data set name.  A POINT and the reads follow the OPEN: their
\* return codes are not looked at.  A handle whose buffer was refused is
\* returned open and without checkpoint blocks.
CpBuffer(c, cp) == [c EXCEPT !.file = [cp EXCEPT !.buf = c.got]]
CpDcb(c, cp) ==
    IF c.got = NULL THEN __cpclos(c, cp) ELSE CpBuffer(Obtain(c, "buf"), [cp EXCEPT !.dcb = c.got])
CpOpen(c, cp) == IF c.err # 0 THEN __cpclos(c, cp) ELSE CpDcb(Obtain(c, "dcb"), cp)
CpAllocated(c, block) == CpOpen(c, [NoFile EXCEPT !.block = block, !.dd = c.dd])
CpHandle(c, by, dd) ==
    IF c.got = NULL THEN [c EXCEPT !.file = NoFile]
    ELSE CpAllocated(IF by = "name" THEN allocate_checkpoint(c) ELSE [c EXCEPT !.err = 0, !.dd = dd], c.got)
__cpopen(c, by, dd) == CpHandle(Obtain(c, "cp"), by, dd)

JsDcb(c, js) == IF c.got = NULL THEN __jsclos(c, js) ELSE [c EXCEPT !.file = [js EXCEPT !.dcb = c.got]]
JsOpen(c, js) == IF c.err # 0 THEN __jsclos(c, js) ELSE JsDcb(Obtain(c, "dcb"), js)
JsAllocated(c, block) == JsOpen(c, [NoFile EXCEPT !.block = block, !.dd = c.dd])
JsHandle(c, by, dd) ==
    IF c.got = NULL THEN [c EXCEPT !.file = NoFile]
    ELSE JsAllocated(IF by = "name" THEN allocate_spool(c) ELSE [c EXCEPT !.err = 0, !.dd = dd], c.got)
__jsopen(c, by, dd) == JsHandle(Obtain(c, "js"), by, dd)

\* The online volumes are listed and searched for the name; the list is
\* freed.  -1 without a list, 1 when no volume has the data set.
SearchVolumes(c, found) ==
    IF c.got = NULL THEN [c EXCEPT !.err = -1]
    ELSE [Release(c, c.got) EXCEPT !.err = IF found THEN 0 ELSE 1]
__jesvol(c, found) == SearchVolumes(Obtain(c, "volumes"), found)

\* 0 and c.dd allocated, 1 found nowhere, -1 the allocation failed.
Failed(c) == IF c.err = 0 THEN c ELSE [c EXCEPT !.err = -1]
OnVolume(c) == IF c.err = 0 THEN Failed(__dsalcf(c, Shared(Volser), TRUE)) ELSE [c EXCEPT !.err = 1]
ElseSearch(c, volser, found) ==
    IF volser # NoValue THEN Failed(c) ELSE IF c.err = 0 THEN c ELSE OnVolume(__jesvol(c, found))
alloc_dd(c, volser, found) ==
    ElseSearch(__dsalcf([c EXCEPT !.dd = NULL], Shared(volser), TRUE), volser, found)

\* A DD of the step is used when no name was given.  The DD allocated here
\* is lost when __cpopen() or __jsopen() gets no storage for its handle.
DropUnopened(c, dd) == IF c.file = NoFile THEN Drop(c, dd) ELSE c
OpenCp(c) == IF c.err # 0 THEN [c EXCEPT !.file = NoFile] ELSE DropUnopened(__cpopen(c, "DD", c.dd), c.dd)
open_checkpoint(c, named, found) ==
    IF ~named /\ "HASPCKPT" \in jes.step THEN __cpopen(c, "DD", NULL)
    ELSE OpenCp(alloc_dd(c, NoValue, found))

\* The spool is on the volume the checkpoint names, if it names one; its
\* name is the checkpoint's with another last qualifier, which a name
\* without qualifiers has not.
OpenJs(c) == IF c.err # 0 THEN [c EXCEPT !.file = NoFile] ELSE DropUnopened(__jsopen(c, "DD", c.dd), c.dd)
open_spool(c, named, found, volser, qualified) ==
    IF ~named /\ "HASPACE1" \in jes.step THEN __jsopen(c, "DD", NULL)
    ELSE IF named /\ ~qualified THEN [c EXCEPT !.file = NoFile]
    ELSE OpenJs(alloc_dd(c, IF volser THEN Volser ELSE NoValue, found))

\* Every file in the array, the array, the checkpoint, the handle.
CloseCp(c, cp) == IF cp = NoFile THEN c ELSE __cpclos(c, cp)
jesclose(c, h) ==
    [Release(CloseCp(Release(FoldLeft(__jsclos, c, h.files), h.js.block), h.cp), h.block)
        EXCEPT !.handle = NoHandle]

\* The spool handle that did not fit the array is closed by itself:
\* jesclose() does not reach it.
Anchor(c, h, js, array) ==
    IF c.err # 0 THEN jesclose(__jsclos([c EXCEPT !.array = array], js), h)
    ELSE [c EXCEPT !.array = array, !.handle = [h EXCEPT !.js = c.array, !.files = <<js>>]]

\* Each failure closes what has been opened.
WithSpool(c, h) ==
    IF c.file = NoFile THEN jesclose(c, h)
    ELSE Anchor(arrayadd([c EXCEPT !.array = NoArray], c.file.block), h, c.file, c.array)
WithCheckpoint(c, h, named, found, volser, qualified) ==
    IF c.file = NoFile THEN jesclose(c, h)
    ELSE WithSpool(open_spool(c, named, found, volser, qualified), [h EXCEPT !.cp = c.file])
WithJes(c, named, found, volser, qualified) ==
    IF c.got = NULL THEN [c EXCEPT !.handle = NoHandle]
    ELSE WithCheckpoint(open_checkpoint(c, named, found), [NoHandle EXCEPT !.block = c.got],
                        named, found, volser, qualified)
try_jesopen(c, named, found, volser, qualified) ==
    WithJes(Obtain(c, "jes"), named, found, volser, qualified)

\* A name must have 1 to 44 characters.
jesopen_ex(c, name, found, volser, qualified) ==
    IF name = "bad" THEN [c EXCEPT !.handle = NoHandle]
    ELSE try_jesopen(c, name = "given", found, volser, qualified)

----------------------------------------------------------------------------
(* The internal reader.                                                    *)

ReaderUnit(c, u) == CASE u = "RTDDN" -> __txrddn(c, NoValue)
                      [] u = "SYSOU" -> __txsyso(c, NoValue)
                      [] u = "SPGNM" -> __txpgm(c, [DDName EXCEPT !.len = 6])
                      [] u = "CLOSE" -> __txclos(c, NoValue)
__alloc_intrdr(c) == AllocateBy(c, <<"RTDDN", "SYSOU", "SPGNM", "CLOSE">>, ReaderUnit)

\* vsclose() closes an open ACB, which unallocates its DD, and frees the
\* handle; the work area is freed by its caller, after the CLOSE.
__vsam_close_intrdr(c, r) ==
    LET closed == IF r.acb = NULL THEN c ELSE Release(Release(c, r.acb), r.dd)
    IN  [Release(Release(closed, r.block), r.area) EXCEPT !.reader = NoReader]

\* The open flag decides, not the return code of OPEN.
ReaderAcb(c, r) ==
    IF c.got = NULL THEN [__vsam_close_intrdr(c, r) EXCEPT !.err = "EVSOPEN"]
    ELSE [c EXCEPT !.err = "0", !.reader = [r EXCEPT !.acb = c.got]]
ReaderArea(c, r) ==
    IF c.got = NULL THEN [__vsam_close_intrdr(c, r) EXCEPT !.err = "ENOMEM"]
    ELSE ReaderAcb(Obtain(c, "acb"), [r EXCEPT !.area = c.got])
ReaderHandle(c, dd) ==
    IF c.got = NULL THEN [c EXCEPT !.err = "ENOMEM", !.reader = NoReader]
    ELSE ReaderArea(Obtain(c, "area"), [NoReader EXCEPT !.block = c.got, !.dd = dd])
__vsam_open_intrdr(c, dd) == ReaderHandle(Obtain(c, "vsfile"), dd)

\* The DD of a reader that did not open is unallocated here, and errno is
\* what the open set, not what the cleanup sets.
FreeReader(c, dd, err) == Drop([__dsfree([c EXCEPT !.err = 0], DDName, dd) EXCEPT !.err = err], dd)
ReaderOpened(c, dd) == IF c.err # "0" THEN FreeReader(c, dd, c.err) ELSE c
OpenReader(c) ==
    IF c.err # 0 THEN [c EXCEPT !.err = "EALLOC", !.reader = NoReader]
    ELSE ReaderOpened(__vsam_open_intrdr(c, c.dd), c.dd)
jesiropn(c) == OpenReader(__alloc_intrdr(c))

\* An empty record is refused before the handle is looked at.
jesirput(c, r, empty) ==
    IF empty THEN [c EXCEPT !.err = -1]
    ELSE IF r = NoReader THEN [c EXCEPT !.err = -2]
    ELSE IF Refused(c) THEN [Asked(c) EXCEPT !.err = 8] ELSE [Asked(c) EXCEPT !.err = 0]

\* The job id is copied between the ENDREQ and the close, which frees it.
jesircl2(c, r) ==
    IF r = NoReader THEN [c EXCEPT !.jobid = "none", !.err = 0]
    ELSE [__vsam_close_intrdr(c, r) EXCEPT !.jobid = "assigned", !.err = 0]
jesircls(c, r) == [jesircl2(c, r) EXCEPT !.jobid = "none"]

----------------------------------------------------------------------------
(* Requests through the subsystem interface.                               *)

initssob(function, parms) == [function |-> function, parms |-> parms]

\* IEFSSREQ: -1 for an unauthorized caller, its return code when the request
\* did not reach JES2; else JES2 answers.
Ssreq(c, ssob, auth, answer) ==
    IF ~auth THEN [c EXCEPT !.err = -1]
    ELSE IF Refused(c) THEN [Asked(c) EXCEPT !.err = -4]
    ELSE [Asked(c) EXCEPT !.err = answer, !.asked = Append(@, ssob)]

Given(fields) == {f \in DOMAIN fields : fields[f]}
jescanj(c, sel, auth, answer) ==
    Ssreq(c, initssob("cancel", Given(sel) \cap {"jobname", "jobid", "purge"}), auth, answer)
jesdelj(c, sel, auth, answer) ==
    IF ~sel.jobname /\ ~sel.jobid THEN [c EXCEPT !.err = -1]
    ELSE Ssreq(c, initssob("delete", {"held", "done"} \cup (Given(sel) \cap {"jobname", "jobid"})), auth, answer)
jesreque(c, sel, auth, answer) ==
    IF ~sel.jobname /\ ~sel.jobid THEN [c EXCEPT !.err = -1]
    ELSE Ssreq(c, initssob("requeue", {"held", "done", "release", IF sel.class THEN "class" ELSE "class C"}
                                      \cup (Given(sel) \cap {"jobname", "jobid"})), auth, answer)
jesxwrtr(c, sel, auth, answer) ==
    IF Given(sel) \cap {"class", "dest", "form"} = {} THEN [c EXCEPT !.err = -1]
    ELSE Ssreq(c, initssob("writer", Given(sel) \cap {"class", "dest", "form"}), auth, answer)
jesxdone(c, sel, auth, answer) == Ssreq(c, initssob("writer", {"done"}), auth, answer)

----------------------------------------------------------------------------
JesInit ==
    \E step \in SUBSET {"HASPCKPT", "HASPACE1"} :
        jes = [handle |-> NoHandle, reader |-> NoReader, lost |-> {}, step |-> step]
JesCall(faults) ==
    Begin(faults) @@ [array |-> NoArray, err |-> 0, units |-> <<>>, lost |-> {}, sent |-> <<>>,
                      dd |-> NULL, strtok |-> "caller's", file |-> NoFile, handle |-> jes.handle,
                      reader |-> jes.reader, jobid |-> "none", asked |-> <<>>]
JesEnd(op, arg, c) ==
    /\ jes' = [jes EXCEPT !.handle = c.handle, !.reader = c.reader, !.lost = @ \cup c.lost]
    /\ End(c, [op |-> op, arg |-> arg, err |-> c.err, jobid |-> c.jobid, asked |-> c.asked])

JesOpen ==
    /\ Ready /\ jes.handle = NoHandle /\ jes.reader = NoReader /\ Cardinality(jes.lost) < MaxLost
    /\ \E faults \in TwoFaults(MaxFault), name \in {"default", "given", "bad"},
          found, volser, qualified \in BOOLEAN :
          /\ name # "given" => qualified
          /\ JesEnd("jesopen", name, jesopen_ex(JesCall(faults), name, found, volser, qualified))
JesClose ==
    /\ Ready /\ jes.handle # NoHandle
    /\ \E faults \in Faults : JesEnd("jesclose", "", jesclose(JesCall(faults), jes.handle))

\* The files by themselves, opened and closed by name or DD.
JesFile ==
    /\ Ready /\ jes.handle = NoHandle /\ Cardinality(jes.lost) < MaxLost
    /\ \E faults \in Faults, by \in {"DD", "name"} :
          LET closeCp(cp) == IF cp.file = NoFile THEN cp ELSE __cpclos(cp, cp.file)
              closeJs(js) == IF js.file = NoFile THEN js ELSE __jsclos(js, js.file)
          IN  \/ JesEnd("checkpoint", by, closeCp(__cpopen(JesCall(faults), by, NULL)))
              \/ JesEnd("spool", by, closeJs(__jsopen(JesCall(faults), by, NULL)))

ReaderOpen ==
    /\ Ready /\ jes.reader = NoReader /\ jes.handle = NoHandle /\ Cardinality(jes.lost) < MaxLost
    /\ \E faults \in Faults : JesEnd("jesiropn", "", jesiropn(JesCall(faults)))
ReaderPut ==
    /\ Ready
    /\ \E faults \in OneFault(1), empty \in BOOLEAN :
          JesEnd("jesirput", empty, jesirput(JesCall(faults), jes.reader, empty))
ReaderClose ==
    /\ Ready
    /\ \E id \in BOOLEAN :
          JesEnd("jesircls", id, IF id THEN jesircl2(JesCall({}), jes.reader)
                                 ELSE jesircls(JesCall({}), jes.reader))

JesOwns ==
    LET Of(f) == {f.block, f.dd, f.dcb, f.buf}
        h == jes.handle
    IN  (UNION {Of(h.files[i]) : i \in DOMAIN h.files} \cup Of(h.cp)
         \cup {h.block, h.js.block, jes.reader.block, jes.reader.area, jes.reader.acb, jes.reader.dd}
         \cup jes.lost) \ {NULL}

Selections == [jobname : BOOLEAN, jobid : BOOLEAN, purge : BOOLEAN, class : BOOLEAN,
               dest : BOOLEAN, form : BOOLEAN]
\* They use no handle, and are made while there is none.
JesRequest ==
    /\ Ready /\ JesOwns = {}
    /\ \E faults \in OneFault(1), sel \in Selections, auth \in BOOLEAN, answer \in {0, 4} :
          \/ JesEnd("jescanj", sel, jescanj(JesCall(faults), sel, auth, answer))
          \/ JesEnd("jesdelj", sel, jesdelj(JesCall(faults), sel, auth, answer))
          \/ JesEnd("jesreque", sel, jesreque(JesCall(faults), sel, auth, answer))
          \/ JesEnd("jesxwrtr", sel, jesxwrtr(JesCall(faults), sel, auth, answer))
          \/ JesEnd("jesxdone", sel, jesxdone(JesCall(faults), sel, auth, answer))

JesNext ==
    \/ JesOpen \/ JesClose \/ JesFile \/ ReaderOpen \/ ReaderPut \/ ReaderClose \/ JesRequest
    \/ See /\ UNCHANGED jes

\* A handle that jesopen() returns can be used: its checkpoint and its spool
\* are open and the spool is in the array jesjob() and jesprint() index (an
\* array that is missing is read through page zero).  A reader that is
\* returned has its work area, its ACB and its DD.  A request to JES2 is
\* answered 0 or more only if it reached JES2, and never selects every job
\* because neither name nor id was given.
JesUsable ==
    /\ jes.handle # NoHandle =>
          /\ jes.handle.cp.dcb # NULL /\ Len(jes.handle.files) = 1 /\ jes.handle.files[1].dcb # NULL
          /\ SubSeq(jes.handle.js.slots, 1, jes.handle.js.count) = <<jes.handle.files[1].block>>
    /\ jes.reader # NoReader => NULL \notin {jes.reader[f] : f \in DOMAIN jes.reader}
    /\ result.op = "jesiropn" => (result.err = "0" <=> jes.reader # NoReader)
    /\ result.op \in {"jescanj", "jesdelj", "jesreque", "jesxwrtr", "jesxdone"} =>
          /\ result.err >= 0 <=> result.asked # <<>>
          /\ result.op \in {"jesdelj", "jesreque"} /\ result.asked # <<>> =>
                result.asked[1].parms \cap {"jobname", "jobid"} # {}
============================================================================
