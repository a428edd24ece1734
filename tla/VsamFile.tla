------------------------------ MODULE VsamFile ------------------------------
(***************************************************************************)
(* src/src/mvs/vsam: a handle on a VSAM cluster, its ACB and its one RPL.  *)
(*                                                                         *)
(* GET, PUT, POINT and ERASE are VSAM's (external): a request is answered  *)
(* by the RPL's options, the record area and the position, and a failure   *)
(* goes through the exits of the library before the request returns.  The  *)
(* cluster is a function from its keys, record numbers or addresses to the *)
(* length of the record there, 0 where there is none; the vs functions     *)
(* hold lock(vs) around the __vs ones, so that a call is one step.         *)
(***************************************************************************)
EXTENDS Ledger

CONSTANTS
    Records,            \* the keys of a cluster: 1 .. n
    Lengths,            \* the lengths of the records written
    VsamOpens           \* [type, access, mode, kind, options, x, any, password] of an open

ASSUME VsamAssumption ==
    /\ IsFiniteSet(Records) /\ Records # {} /\ Records = 1 .. Cardinality(Records)
    /\ Lengths \subseteq Nat \ {0}
    /\ \A o \in VsamOpens : o = [type |-> o.type, access |-> o.access, mode |-> o.mode, kind |-> o.kind,
                                 options |-> o.options, x |-> o.x, any |-> o.any, password |-> o.password]

VARIABLE vsam           \* the cluster, and the handle

\* Where the next sequential request goes on; a failed POINT loses it.
FirstKey(s) == CHOOSE k \in s : \A j \in s : k =< j
LastKey == CHOOSE k \in Records : \A j \in Records : j =< k
Lost == 0
After == LastKey + 2
VsNoHandle == [at |-> NULL]
VsEmpty == [k \in Records |-> 0]
VsamInit == vsam = [recs |-> VsEmpty, vs |-> VsNoHandle]

----------------------------------------------------------------------------
(* The exits: what VSAM calls before a request that failed returns.  A     *)
(* call c carries the cluster, the handle and the request's return code.   *)

PUT_DIRECT(vs) == vs.type = "KSDS" /\ vs.access = "DYNAM"

restore(vs) ==
    [vs EXCEPT !.opt = IF PUT_DIRECT(vs) THEN (@ \ {"DIR", "SKP"}) \cup {"UPD"} ELSE @ \cup {"UPD"},
               !.vsreset = FALSE]

__vsxeof(vs) == [vs EXCEPT !.flags = @ \cup {"EOF"}]

Noted(vs) ==
    [vs EXCEPT !.flags = @ \cup {"ERROR"}, !.rc = vs.r15, !.rsn = vs.fdbk]
Reset(vs) == IF vs.vsreset /\ "WRITE" \in vs.flags THEN restore(vs) ELSE vs
__vsxerr(vs) == Reset(Noted(vs))

\* LERAD, SYNAD, EODAD and a request that was done.
VsFailed(c, r15, fdbk) ==
    [c EXCEPT !.rc = r15, !.vs = __vsxerr([c.vs EXCEPT !.r15 = r15, !.fdbk = fdbk, !.hold = 0])]
LERAD(c, fdbk) == VsFailed(c, 8, fdbk)
\* The feedback of an I/O error: reading data or the index, or writing.
SYNAD(c, fdbk) == VsFailed(c, 12, fdbk)
EODAD(c) ==
    [c EXCEPT !.rc = 4,
              !.vs = __vsxeof([c.vs EXCEPT !.r15 = 8, !.fdbk = 4, !.hold = 0, !.place = After])]
Done(c) == [c EXCEPT !.rc = 0, !.vs.r15 = 0, !.vs.fdbk = 0]

----------------------------------------------------------------------------
(* The requests.                                                           *)

Present(c) == {k \in Records : c.recs[k] > 0}
Next1(c) == {k \in Present(c) : k >= c.vs.place}

Delivered(c, k) ==
    Done([c EXCEPT !.vs.place = k + 1, !.vs.last = k, !.vs.hold = IF "UPD" \in c.vs.opt THEN k ELSE 0])
GetKeyed(c) ==
    IF c.vs.arg \in Present(c) THEN Delivered(c, c.vs.arg) ELSE LERAD([c EXCEPT !.vs.place = Lost], 16)
GetNext(c) ==
    IF c.vs.place = Lost THEN LERAD(c, 88)
    ELSE IF c.vs.place = After THEN LERAD(c, 4)
    ELSE IF Next1(c) = {} THEN EODAD(c) ELSE Delivered(c, FirstKey(Next1(c)))
GET(c) ==
    IF Refused(c) THEN SYNAD(Asked(c), 4)
    ELSE IF c.vs.mode = "OUT" THEN LERAD(Asked(c), 68)
    ELSE IF c.vs.opt \cap {"DIR", "SKP"} # {} THEN GetKeyed(Asked(c)) ELSE GetNext(Asked(c))

Pointed(c, found) ==
    IF found = {} THEN LERAD([c EXCEPT !.vs.place = Lost], 16)
    ELSE Done([c EXCEPT !.vs.place = FirstKey(found), !.vs.hold = 0])
POINT(c) ==
    IF Refused(c) THEN SYNAD(Asked([c EXCEPT !.vs.place = Lost]), 8)
    ELSE IF c.vs.mode = "OUT" THEN LERAD(Asked(c), 68)
    ELSE Pointed(Asked(c), {k \in Present(c) : IF "KGE" \in c.vs.opt THEN k >= c.vs.arg ELSE k = c.vs.arg})

Stored(c, k, place) ==
    Done([c EXCEPT !.recs[k] = c.vs.len, !.vs.last = k, !.vs.place = place, !.vs.hold = 0])
\* A direct insertion may lose the position.
Insert(c, k) ==
    CASE c.vs.type = "ESDS" ->      \* at the end of the data
           IF Cardinality(Present(c)) = LastKey THEN LERAD(c, 28)
           ELSE Stored(c, Cardinality(Present(c)) + 1, c.vs.place)
      [] c.vs.type # "ESDS" /\ "DIR" \in c.vs.opt ->
           IF c.recs[k] > 0 THEN LERAD(c, 8) ELSE Stored(c, k, IF c.keep THEN c.vs.place ELSE Lost)
      [] OTHER ->                   \* a load, and the slots of an RRDS in turn
           IF c.vs.type = "RRDS" /\ c.vs.place \notin Records THEN LERAD(c, 28)
           ELSE IF c.vs.type = "RRDS" /\ c.recs[c.vs.place] > 0 THEN LERAD(c, 8)
           ELSE IF c.vs.type = "RRDS" THEN Stored(c, c.vs.place, c.vs.place + 1)
           ELSE IF c.recs[k] > 0 \/ k < c.vs.place THEN LERAD(c, 12) ELSE Stored(c, k, k + 1)
PUT(c, k) ==
    IF Refused(c) THEN SYNAD(Asked(c), 16)
    ELSE IF c.vs.mode = "IN" THEN LERAD(Asked(c), 68)
    ELSE IF "UPD" \notin c.vs.opt THEN Insert(Asked(c), k)
    ELSE IF c.vs.hold = 0 THEN LERAD(Asked(c), 92)
    ELSE IF c.vs.type = "KSDS" /\ k # c.vs.hold THEN LERAD(Asked(c), 96)
    ELSE Stored(Asked(c), c.vs.hold, c.vs.place)
ERASE(c) ==
    IF Refused(c) THEN SYNAD(Asked(c), 16)
    ELSE IF c.vs.mode = "IN" \/ c.vs.type = "ESDS" THEN LERAD(Asked(c), 68)
    ELSE IF c.vs.hold = 0 THEN LERAD(Asked(c), 92)
    ELSE Done([Asked(c) EXCEPT !.recs[c.vs.hold] = 0, !.vs.hold = 0])

----------------------------------------------------------------------------
(* The functions.  key is the one given or, where a record is written, the *)
(* one in the record; 0 where the caller gives none.                       *)

__vsmdfy(c, len, key) == [c EXCEPT !.vs.len = len, !.vs.arg = IF key = 0 THEN @ ELSE key]

__vssteq(c, key) == POINT([__vsmdfy(c, 0, key) EXCEPT !.vs.vsreset = FALSE, !.vs.opt = @ \ {"KGE"}])

StartGe(c) == [c EXCEPT !.vs.opt = @ \ {"KGE"}]
__vsstge(c, key) ==
    StartGe(POINT([__vsmdfy(c, 0, key) EXCEPT !.vs.vsreset = FALSE, !.vs.opt = @ \cup {"KGE"}]))

Sticky == {"EOF", "ERROR"}
\* A GET after the end is a logical error, reason 4: still the end.
Ended(c) ==
    IF "ERROR" \in c.vs.flags /\ c.vs.rsn = 4 THEN [c EXCEPT !.vs.flags = (@ \ {"ERROR"}) \cup {"EOF"}] ELSE c
ReadResult(c) ==
    IF "ERROR" \in c.vs.flags THEN -2 ELSE IF "EOF" \in c.vs.flags THEN -1 ELSE c.recs[c.vs.last]
VsAnswered(c, had) == [c EXCEPT !.ret = ReadResult(c), !.vs.flags = @ \cup had]
Gotten(c, had) == VsAnswered(Ended(GET([c EXCEPT !.vs.flags = @ \ ({"WRITE"} \cup Sticky)])), had)
ReadNext(c) == Gotten(c, c.vs.flags \cap Sticky)
Keyed(c) == IF c.rc # 0 THEN [c EXCEPT !.ret = -2] ELSE ReadNext(c)
__vsread(c, key) == IF key # 0 THEN Keyed(__vssteq(c, key)) ELSE ReadNext(__vsmdfy(c, 0, 0))

ForInsert_Unset(vs) ==
    IF vs.mode # "UPD" THEN vs
    ELSE [vs EXCEPT !.opt = IF PUT_DIRECT(vs) THEN (@ \ {"UPD", "SKP"}) \cup {"DIR"} ELSE @ \ {"UPD"}]
ForInsert(vs) ==
    IF vs.mode # "UPD" THEN vs
    ELSE [vs EXCEPT !.opt = IF PUT_DIRECT(vs) THEN (@ \ {"UPD", "SKP"}) \cup {"DIR"} ELSE @ \ {"UPD"},
                    !.vsreset = TRUE]
Written(c) == IF c.vs.mode = "UPD" /\ c.vs.vsreset THEN [c EXCEPT !.vs = restore(@)] ELSE c
AsWriter(vs) == [vs EXCEPT !.flags = @ \cup {"WRITE"}]
Putting(c, key) == Written(PUT([c EXCEPT !.vs = ForInsert(AsWriter(@))], key))
__vswrit(c, len, key) == Putting(__vsmdfy(c, len, key), key)

__vsupdt(c, len, key) == PUT(__vsmdfy(c, len, 0), key)
__vsdel(c) == ERASE(__vsmdfy(c, 0, 0))
__vseof(vs) == "EOF" \in vs.flags
__vserr(vs) == "ERROR" \in vs.flags
__vsclr(vs) == [vs EXCEPT !.flags = @ \ Sticky, !.rc = 0, !.rsn = 0]

__vsclos(c) ==
    IF c.vs = VsNoHandle THEN c
    ELSE Release([Release(c, IF "OPEN" \in c.vs.flags THEN c.vs.dcb ELSE NULL) EXCEPT !.vs = VsNoHandle], c.vs.at)

----------------------------------------------------------------------------
(* Opening.                                                                *)

VsRefusal(o) ==
    CASE o.type = "KSDS" /\ o.access \in {"DIR", "DYNAM"} /\ o.mode = "OUT" -> "EVSMODE"
      [] o.type = "RRDS" /\ o.access = "DYNAM" /\ o.mode = "OUT" -> "EVSMODE"
      [] OTHER -> "none"
BadArgument(o) ==
    CASE o.type \notin {"KSDS", "RRDS", "ESDS"} -> "EVSTYPE"
      [] o.type \in {"KSDS", "RRDS", "ESDS"} /\ o.access \notin {"DIR", "SEQ", "DYNAM", "ADR"} -> "EVSACCESS"
      [] OTHER -> IF o.mode \in {"IN", "OUT", "UPD"} THEN "none" ELSE "EVSMODE"

OptionsOf(o) ==
    (IF o.access \in {"DIR", "ADR"} THEN {o.access} ELSE {}) \cup (IF o.mode = "UPD" THEN {"UPD"} ELSE {})
Built(c, o) ==
    [at |-> c.got, dcb |-> NULL, type |-> o.type, access |-> o.access, mode |-> o.mode, flags |-> {},
     rc |-> 0, rsn |-> 0, opt |-> OptionsOf(o) \cup (IF o.type = "ESDS" THEN {"ADR"} ELSE {}),
     vsreset |-> FALSE, arg |-> 1, place |-> 1, hold |-> 0, last |-> 1, len |-> 0, r15 |-> 0, fdbk |-> 0]

\* prep(): what the options of __vsopenx() add before OPEN.
prep(c, o) == IF o.x /\ "SKP" \in o.options THEN [c EXCEPT !.vs.opt = (@ \ {"DIR"}) \cup {"SKP"}] ELSE c

Quit(c, errno) == [__vsclos(c) EXCEPT !.errno = errno]
\* OPEN finds a cluster of a kind the ACB can process.
VsOpens(o) == o.kind # "none" /\ (o.kind = o.type \/ (o.x /\ o.any))
Emptied(c, o) == IF o.x /\ "RST" \in o.options THEN [c EXCEPT !.recs = VsEmpty] ELSE c
VsOpened(c, o) ==
    IF c.got = NULL \/ ~VsOpens(o) THEN Quit(Release(c, c.got), "EVSOPEN")
    ELSE Emptied([c EXCEPT !.vs.dcb = c.got, !.vs.flags = @ \cup {"OPEN"}], o)
WithHandle(c, o) ==
    IF BadArgument(o) # "none" THEN Quit(c, BadArgument(o))
    ELSE VsOpened(Obtain(prep(c, o), "acb"), o)
VsAllocated(c, o) ==
    IF c.got = NULL THEN [c EXCEPT !.errno = "ENOMEM"] ELSE WithHandle([c EXCEPT !.vs = Built(c, o)], o)
__vsopn(c, o) ==
    IF VsRefusal(o) # "none" THEN [c EXCEPT !.errno = VsRefusal(o)] ELSE VsAllocated(Obtain(c, "vsfile"), o)

\* __vsinfo() asks TESTCB for the type, or cannot tell.
__vsinfo(c, o) == [Asked(c) EXCEPT !.rc = IF Refused(c) THEN -1 ELSE 0]
settype(c, o) ==
    IF c.rc # 0 THEN Quit(c, "EVSOPEN")
    ELSE IF o.kind = "ESDS" /\ "SKP" \in o.options THEN Quit(c, "EVSACCESS")
    ELSE [c EXCEPT !.vs.type = o.kind, !.vs.opt = IF o.kind = "ESDS" THEN @ \cup {"ADR"} ELSE @]
Typed(c, o) == IF o.any /\ c.errno = "none" THEN settype(__vsinfo(c, o), o) ELSE c
__vsopenx(c, o) ==
    IF "bad" \in o.options \/ o.password > 8 THEN [c EXCEPT !.errno = "EINVAL"]
    ELSE IF "SKP" \in o.options /\ ((~o.any /\ o.type = "ESDS") \/ o.access = "ADR")
    THEN [c EXCEPT !.errno = "EVSACCESS"]
    ELSE Typed(__vsopn(c, [o EXCEPT !.type = IF o.any THEN "KSDS" ELSE @]), o)
vsopen(c, o) == IF o.x THEN __vsopenx(c, o) ELSE __vsopn(c, o)

----------------------------------------------------------------------------
(* The calls of a program.                                                 *)

Calling(n, keep) ==
    [held |-> ledger.held, twice |-> ledger.twice, n |-> 0, faults |-> {n}, got |-> NULL,
     recs |-> vsam.recs, vs |-> vsam.vs, rc |-> 0, ret |-> 0, errno |-> "none", keep |-> keep]
\* What the caller may know, and what the handle still needs afterwards.
Settled(vs) ==
    IF vs = VsNoHandle THEN vs
    ELSE [vs EXCEPT !.last = 1, !.len = 0, !.r15 = 0, !.fdbk = 0, !.rc = 0, !.rsn = 0,
                    !.arg = IF vs.opt \cap {"DIR", "SKP"} = {} THEN 1 ELSE @]
Feedback(vs) ==
    IF vs = VsNoHandle THEN [r15 |-> 0, fdbk |-> 0, rc |-> 0, rsn |-> 0]
    ELSE [r15 |-> vs.r15, fdbk |-> vs.fdbk, rc |-> vs.rc, rsn |-> vs.rsn]
Flags(vs) == IF vs = VsNoHandle THEN {} ELSE vs.flags
Place(vs) == IF vs = VsNoHandle THEN Lost ELSE vs.place
VsFinish(c, name, key) ==
    /\ vsam' = [recs |-> IF c.vs = VsNoHandle THEN VsEmpty ELSE c.recs, vs |-> Settled(c.vs)]
    /\ End(c, [op |-> name, rc |-> c.rc, ret |-> c.ret, errno |-> c.errno, fb |-> Feedback(c.vs), with |-> key,
               recs |-> vsam.recs, flags |-> Flags(vsam.vs), place |-> Place(vsam.vs)])

VsClosed == vsam.vs = VsNoHandle

\* The cluster the DD names; the records of an ESDS follow one another.
Clusters(o) ==
    {[k \in Records |-> IF k \in s THEN 1 ELSE 0] :
        s \in {x \in SUBSET Records : o.kind = "ESDS" => x = 1 .. Cardinality(x)}}
VsOpen ==
    /\ Ready /\ VsClosed
    /\ \E o \in VsamOpens, n \in 0 .. 3 : \E recs \in Clusters(o) :
          VsFinish(vsopen([Calling(n, TRUE) EXCEPT !.recs = recs], o), "vsopen", 0)
VsClose ==
    /\ Ready /\ ~VsClosed
    /\ VsFinish(__vsclos(Calling(0, TRUE)), "vsclose", 0)
VsRead ==
    /\ Ready /\ ~VsClosed
    /\ \E key \in Records \cup {0}, n \in 0 .. 2 : VsFinish(__vsread(Calling(n, TRUE), key), "vsread", key)
VsSteq ==
    /\ Ready /\ ~VsClosed
    /\ \E key \in Records, n \in 0 .. 1 : VsFinish(__vssteq(Calling(n, TRUE), key), "vssteq", key)
VsStge ==
    /\ Ready /\ ~VsClosed
    /\ \E key \in Records, n \in 0 .. 1 : VsFinish(__vsstge(Calling(n, TRUE), key), "vsstge", key)
VsWrite ==
    /\ Ready /\ ~VsClosed
    /\ \E key \in Records, len \in Lengths, n \in 0 .. 1, keep \in BOOLEAN :
          VsFinish(__vswrit(Calling(n, keep), len, key), "vswrite", key)
VsUpdate ==
    /\ Ready /\ ~VsClosed
    /\ \E n \in 0 .. 1, len \in Lengths, key \in Records :
          VsFinish(__vsupdt(Calling(n, TRUE), len, key), "vsupdate", key)
VsDelete ==
    /\ Ready /\ ~VsClosed
    /\ \E n \in 0 .. 1 : VsFinish(__vsdel(Calling(n, TRUE)), "vsdelete", 0)
VsClear ==
    /\ Ready /\ ~VsClosed
    /\ VsFinish([Calling(0, TRUE) EXCEPT !.vs = __vsclr(@)], "vsclear", 0)

VsamSee == See /\ UNCHANGED vsam
VsamNext ==
    \/ VsOpen \/ VsClose \/ VsRead \/ VsSteq \/ VsStge \/ VsWrite
    \/ VsUpdate \/ VsDelete \/ VsClear \/ VsamSee

VsamSpec == LedgerInit /\ VsamInit /\ [][VsamNext]_<<ledger, result, vsam>>

VsamOwns == IF VsClosed THEN {} ELSE {vsam.vs.at, vsam.vs.dcb}

----------------------------------------------------------------------------
(* What the functions promise.                                             *)

\* The RPL is again what the open made it, whatever the last request did; a
\* write of a dynamic KSDS takes back only its skip processing.
RplRestored ==
    ~VsClosed => /\ ~vsam.vs.vsreset
                 /\ ("UPD" \in vsam.vs.opt <=> vsam.vs.mode = "UPD")
                 /\ "DIR" \in vsam.vs.opt => vsam.vs.access = "DIR"
                 /\ vsam.vs.access = "DIR" => vsam.vs.opt \cap {"DIR", "SKP"} # {}
                 /\ "KGE" \notin vsam.vs.opt

\* The indicators say what happened since they were cleared, and what a
\* call returns says what its own request did.
OwnError == result.ret = -2 \/ (result.ret = 0 /\ result.rc > 4)
FlagsAreHistory ==
    (result.op \in {"vsread", "vssteq", "vsstge", "vswrite", "vsupdate", "vsdelete"}) =>
        /\ __vserr(vsam.vs) <=> OwnError \/ __vserr(result)
        /\ __vseof(vsam.vs) <=> result.ret = -1 \/ __vseof(result)
AnswerIsOwn ==
    result.op = "vsread" =>
        /\ result.ret > 0 <=> result.fb.r15 = 0
        /\ result.ret = -2 => result.fb.rc = result.fb.r15 /\ result.fb.rsn = result.fb.fdbk
        /\ result.ret = -1 <=> result.fb.fdbk = 4
        /\ (result.ret > 0 /\ result.with # 0) => result.ret = vsam.recs[result.with]
        /\ (result.ret = -1 /\ result.fb.r15 = 8) => \A k \in Records : k >= result.place => vsam.recs[k] = 0

\* An insertion never replaces a record, and a failed request changes none.
NothingReplaced ==
    (result.op \in {"vsread", "vssteq", "vsstge", "vswrite", "vsupdate", "vsdelete"}) =>
        /\ result.rc # 0 => vsam.recs = result.recs
        /\ result.op = "vswrite" =>
              \A k \in Records : result.recs[k] > 0 => vsam.recs[k] = result.recs[k]

\* VsamIsTrue: a handle answers for each request by itself, remembers the
\* errors until they are cleared, and an insertion, done or refused, leaves
\* it ready for the next read and update.
VsamIsTrue == RplRestored /\ FlagsAreHistory /\ AnswerIsOwn /\ NothingReplaced
============================================================================
