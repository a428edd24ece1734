------------------------------- MODULE OsFiles -------------------------------
(***************************************************************************)
(* src/src/mvs/osio, rfile and file: the access methods without a stream.  *)
(*                                                                         *)
(* A DCB for BSAM, BDAM or EXCP is a block the caller holds, with the exit *)
(* list that was made from its own.  OPEN, READ, WRITE, EXCP and the data  *)
(* set are MVS's (external): the data set is a sequence of blocks, each    *)
(* [val, len], and every request may end in an I/O error or an abend.      *)
(***************************************************************************)
EXTENDS Ledger
LOCAL INSTANCE SequencesExt
LOCAL INSTANCE FiniteSetsExt
LOCAL INSTANCE Folds

CONSTANTS
    OsValues,           \* what is written
    OsLengths,          \* the lengths of blocks; 0 takes that of the DCB
    OsDiskMax,          \* the blocks of a data set
    OsExits,            \* exit lists, each a sequence of [code, last]
    OsExtents,          \* the extents of a data set on disk
    OsTracks            \* tracks per cylinder, by device type; 0 is no disk

VARIABLE os             \* the DCB, the request, the data set, the record file

NoDcb == [at |-> NULL]
OsNoRequest == [what |-> "none"]
NoRfile == [at |-> NULL]
OsClear == [dcb |-> NoDcb, decb |-> OsNoRequest, disk |-> <<>>, rf |-> NoRfile, kept |-> {}]
OsInit == os = OsClear
OsCall(faults) == Begin(faults) @@ os @@ [ret |-> 0]

----------------------------------------------------------------------------
(* DCBs.                                                                   *)

\* The entries up to the one marked as the last, ten at most, and the last
\* of them marked.
ExitList(exits) ==
    LET n == Min({i \in DOMAIN exits : exits[i].last} \cup {10, Len(exits)})
    IN  [i \in 1 .. n |-> [code |-> exits[i].code, last |-> i = n \/ exits[i].last]]

\* dfltexit: an EODAD and a SYNAD for a DCB that has none.
__osdfx(d, eodad) == [d EXCEPT !.eodad = eodad, !.synad = TRUE]
Filled(c, exits) ==
    IF c.got = NULL THEN [Release(c, c.dcb.at) EXCEPT !.dcb = NoDcb]
    ELSE [c EXCEPT !.dcb.priv = c.got, !.dcb.exits = ExitList(exits)]
__osfill(c, exits) == IF exits = <<>> THEN c ELSE Filled(Obtain(c, "exitlist"), exits)
Prototype(c, kind) ==
    [c EXCEPT !.dcb = [at |-> c.got, priv |-> NULL, pool |-> NULL, kind |-> kind, exits |-> <<>>, stale |-> FALSE, eodad |-> FALSE, synad |-> FALSE,
                       macr |-> {"R"}, open |-> FALSE, update |-> FALSE, blksi |-> 0, place |-> 1]]
Defaults(c, eodad) == [c EXCEPT !.dcb = __osdfx(@, eodad)]
osbdcb(c, exits) == IF c.got = NULL THEN c ELSE __osfill(Defaults(Prototype(c, "bsam"), TRUE), exits)
osddcb(c) == IF c.got = NULL THEN c ELSE Defaults(Prototype(c, "bdam"), FALSE)
osxdcb(c, exits) == IF c.got = NULL THEN c ELSE __osfill(Prototype(c, "excp"), exits)

----------------------------------------------------------------------------
(* OPEN and CLOSE.  how is "ok", "no" when the DCB is not open afterwards, *)
(* or the abend that try() caught.                                         *)

\* What try() returns when it caught an abend, or could not try.
TryCode == [abend |-> 80, untried |-> -1]
Macr(d, mode) ==
    CASE mode = "read" -> {"R"} [] mode \in {"write", "load"} -> {"W"} [] mode = "update" -> {"R", "W"} [] OTHER -> d.macr
\* opendcb: INPUT, OUTPUT or UPDAT; OUTPUT begins an empty data set.
Output(d) == d.macr = {"W"}
Opened1(c) ==
    [c EXCEPT !.dcb.open = TRUE, !.dcb.update = (c.dcb.macr = {"R", "W"}), !.dcb.place = 1,
              !.dcb.pool = c.got, !.disk = IF Output(c.dcb) THEN <<>> ELSE @]
\* OPEN builds a buffer pool when the DCB asks for buffers.
OpenBsam(c, how) ==
    CASE how = "ok" -> Opened1(Obtain(c, "pool")) [] how = "no" -> [c EXCEPT !.ret = 8] [] OTHER -> [c EXCEPT !.ret = TryCode[how]]
osbopen(c, mode, how) == OpenBsam([c EXCEPT !.dcb.macr = Macr(c.dcb, mode)], how)

\* osxopenm: input or update, and the JFCB's lengths in the DCB; osdopenm
\* is osxopenm.
OpenExcp(c, update, how, blksi) ==
    IF how = "ok" THEN [c EXCEPT !.dcb.open = TRUE, !.dcb.update = update, !.dcb.blksi = blksi] ELSE [c EXCEPT !.ret = 8]
osxopenm(c, mode, how, blksi) ==
    IF mode \notin {"none", "read", "update"} THEN [c EXCEPT !.ret = 8] ELSE OpenExcp(c, mode # "read", how, blksi)

\* osbclose frees the buffer pool OPEN made, and the exit list; a TCLOSE
\* leaves the DCB open.  osdclose and osxclose have no pool.
CloseDcb(c, freedcb) ==
    [Release(Release(Release(c, c.dcb.pool), c.dcb.priv), IF freedcb THEN c.dcb.at ELSE NULL)
        EXCEPT !.dcb = IF freedcb THEN NoDcb ELSE [@ EXCEPT !.priv = NULL, !.pool = NULL, !.open = FALSE, !.stale = @ \/ c.dcb.priv # NULL]]
osbclose(c, freedcb, type_t) == IF type_t THEN c ELSE CloseDcb(c, freedcb)
osdclose(c, freedcb) == CloseDcb(c, freedcb)
osxclose(c, freedcb) == CloseDcb(c, freedcb)

----------------------------------------------------------------------------
(* BSAM and BDAM: a request is started, and oscheck waits for it.          *)

\* A length given is kept for the requests after it.
RequestLength(d, length) == IF length > 0 THEN length ELSE d.blksi
Start(c, what, length, block, val) ==
    [c EXCEPT !.decb = [what |-> what, len |-> RequestLength(c.dcb, length), block |-> block, val |-> val]]
Kept1(c, length) == IF length > 0 THEN [c EXCEPT !.dcb.blksi = length] ELSE c
osread(c, length) == [c EXCEPT !.decb = [what |-> "read", len |-> length, block |-> 0, val |-> 0]]
oswrite(c, length, val) == Start(Kept1(c, length), "write", length, 0, val)
osdread(c, length, block) == Start(Kept1(c, length), "read", length, block, 0)
osdwrite(c, length, block, val) == Start(Kept1(c, length), "write", length, block, val)

\* What the access method does with the request; how is "ok", "error" or
\* the abend that try() caught.
Where(c) == IF c.dcb.kind = "bdam" THEN c.decb.block + 1
            ELSE IF c.decb.what = "write" /\ c.dcb.update THEN c.dcb.place - 1 ELSE c.dcb.place
AtEnd(c) == c.decb.what = "read" /\ c.dcb.kind = "bsam" /\ Where(c) > Len(c.disk)
Missing(c) == c.dcb.kind = "bdam" /\ Where(c) > Len(c.disk)
Block1(c) == [val |-> c.decb.val, len |-> c.decb.len]
Transfer(c) ==
    IF c.decb.what = "read" THEN [c EXCEPT !.got = {c.disk[Where(c)]}, !.dcb.place = Where(c) + 1]
    ELSE [c EXCEPT !.got = {Block1(c)}, !.dcb.place = IF c.dcb.update THEN @ ELSE @ + 1,
                   !.disk = IF Where(c) > Len(@) THEN Append(@, Block1(c)) ELSE [@ EXCEPT ![Where(c)] = Block1(c)]]

\* oscheck: 0, end of data by the library's EODAD, an I/O error by its
\* SYNAD or by the completion code, or the abend.  Without an EODAD the end
\* of data is an abend.
Checked(c, how) ==
    CASE how \notin {"ok", "error"} -> [c EXCEPT !.ret = TryCode[how]]
      [] how \in {"ok", "error"} /\ AtEnd(c) -> [c EXCEPT !.ret = IF c.dcb.eodad THEN 4 ELSE 823]
      [] how = "error" \/ Missing(c) -> [c EXCEPT !.ret = 8]
      [] OTHER -> Transfer(c)
oscheck(c, how) == [Checked([c EXCEPT !.got = {}], how) EXCEPT !.decb = OsNoRequest]

----------------------------------------------------------------------------
(* EXCP: the address of a block.                                           *)

\* The track is counted through the extents; an extent begins anywhere in a
\* cylinder.  The result is a set: empty when there is no such track.
Address(x, i, track, tpc, record) ==
    [m |-> i - 1, cc |-> x.cc + (x.hh + track) \div tpc, hh |-> (x.hh + track) % tpc, r |-> record]
Extent(s, x, i, tpc) ==
    IF s.found # {} THEN s
    ELSE IF s.track < x.tracks THEN [s EXCEPT !.found = {Address(x, i, s.track, tpc, s.record)}]
    ELSE [s EXCEPT !.track = @ - x.tracks]
osxcalc(extents, tpc, blkstrk, block) ==
    IF tpc = 0 THEN {}
    ELSE FoldLeft(LAMBDA s, i : Extent(s, extents[i], i, tpc),
                  [found |-> {}, track |-> IF blkstrk # 0 THEN block \div blkstrk ELSE 0,
                   record |-> (IF blkstrk # 0 THEN block % blkstrk ELSE 0) + 1],
                  [i \in DOMAIN extents |-> i]).found

\* osxread and osxwrite: the completion code, and the sense bytes; a read
\* that ends without either is a block that was not found.
NOT_FOUND == <<0, 8>>
Sense(how, what) == IF how = "none" /\ what = "read" THEN NOT_FOUND ELSE IF how = "data" THEN <<8, 0>> ELSE <<0, 0>>
Excp(what, seek, how) ==
    IF seek = {} THEN [ret |-> -1, sense |-> NOT_FOUND]
    ELSE IF how = "ok" THEN [ret |-> 0, sense |-> <<0, 0>>]
    ELSE [ret |-> 65, sense |-> Sense(how, what)]
osxread(seek, how) == Excp("read", seek, how)
osxwrite(seek, how) == Excp("write", seek, how)

----------------------------------------------------------------------------
(* Record files.                                                           *)

\* __fildef: the data set is allocated SHR, or NEW when that fails and it is
\* to be written; __fdclr unallocates it.
OsAllocate(c) == Obtain(c, "dd")
__fildef(c, write) == IF c.got = NULL /\ write THEN OsAllocate(c) ELSE c
\* A DD that cannot be unallocated stays.
FreeDd1(c, dd, fails) == IF fails THEN [c EXCEPT !.kept = @ \cup {dd}] ELSE Release(c, dd)
__fdclr(c, dd) == Release(c, dd)

WithHandle1(c, dd, hfile, f) ==
    IF c.got = NULL THEN [__fdclr(Release(c, hfile), dd) EXCEPT !.ret = 1]
    ELSE [c EXCEPT !.rf = f @@ [at |-> c.got, dd |-> dd, hfile |-> hfile]]
WithFile(c, dd, f) ==
    IF c.got = NULL THEN [__fdclr(c, dd) EXCEPT !.ret = 1]
    ELSE WithHandle1(Obtain(c, "rfile"), dd, c.got, f)
OpenRecords(c, dd, f) == WithFile(Obtain(c, "dcb"), dd, f)
\* A DD: name is the caller's own; a data set is allocated.
AllocatedDd(c, f) == IF c.got = NULL THEN [c EXCEPT !.ret = 1] ELSE OpenRecords(c, c.got, f)
ropen(c, named, f) ==
    IF named THEN OpenRecords(c, NULL, f) ELSE AllocatedDd(__fildef(OsAllocate(c), f.write), f)

rread(c, how) == IF how # "ok" THEN [c EXCEPT !.ret = 1] ELSE c

\* A record is no longer than the data set's; a variable one says its length
\* in its descriptor, and a blocked one leaves room for that of the block.
RecordRoom(f) == IF f.recfm = "V" /\ f.blocked THEN f.lrecl - 4 ELSE f.lrecl
RecordSize(f, size) == IF size = 0 THEN f.lrecl ELSE size
BadRecord(f, size, rdw) == size > RecordRoom(f) \/ (f.recfm = "V" /\ (size < 4 \/ rdw # size))
Answer(how) == IF how = "ok" THEN [ret |-> 0, errno |-> ""] ELSE [ret |-> 1, errno |-> IF how = "space" THEN "ENOSPC" ELSE "EIO"]
rwrite(f, size, rdw, how) ==
    IF BadRecord(f, RecordSize(f, size), rdw) THEN [ret |-> 1, errno |-> "EINVAL", size |-> 0]
    ELSE Answer(how) @@ [size |-> RecordSize(f, size)]

\* Everything is given back whether or not the last block could be written;
\* the first error is the one reported.
Closing1(how, fails) ==
    IF how # "ok" THEN [ret |-> -1, errno |-> IF how = "space" THEN "ENOSPC" ELSE "EIO"]
    ELSE IF fails THEN [ret |-> -1, errno |-> "EIO"] ELSE [ret |-> 0, errno |-> ""]
rclose(c, fails) ==
    [Release(FreeDd1(Release(c, c.rf.hfile), c.rf.dd, fails /\ c.rf.dd # NULL), c.rf.at) EXCEPT !.rf = NoRfile]

----------------------------------------------------------------------------
(* __rdjfcb and __fx37: which abend a full data set would have been.       *)

\* w is what the JFCB and the DSCB say; the JFCB may not be readable, and
\* the DSCB not found.
Secondary1(w) == w.jfcb.second \/ (w.dscb /\ w.second)
Partitioned(w) == IF w.dscb THEN w.po ELSE w.jfcb.member
__fx37(w) ==
    CASE ~w.full -> "none"
      [] w.full /\ ~w.readable -> "D37"
      [] w.full /\ w.readable /\ ~Secondary1(w) -> "D37"
      [] OTHER -> IF Partitioned(w) THEN "E37" ELSE "B37"

----------------------------------------------------------------------------
(* The caller: one DCB or record file at a time, one request at a time.    *)
(* A DCB that is kept after its exit list was freed is not opened again:   *)
(* it still points to the list.  Calls that do not look at the data set    *)
(* are made while it is empty.                                             *)

OsDone(c, op, more) ==
    /\ os' = [dcb |-> IF c.dcb = NoDcb THEN NoDcb ELSE [c.dcb EXCEPT !.exits = <<>>], decb |-> c.decb, disk |-> c.disk, rf |-> c.rf, kept |-> c.kept]
    /\ End(c, [op |-> op, ret |-> c.ret] @@ more)
OsReady == Ready
DcbReady(kinds) == OsReady /\ os.dcb # NoDcb /\ os.dcb.kind \in kinds
OpenDcb(kinds) == DcbReady(kinds) /\ os.dcb.open
Abends == DOMAIN TryCode

OsCreated(c, exits) == OsDone(c, "osnew", [exits |-> exits, list |-> IF c.dcb = NoDcb THEN <<>> ELSE c.dcb.exits])
OsNew ==
    /\ OsReady /\ os.dcb = NoDcb /\ os.rf = NoRfile
    /\ \E exits \in OsExits, faults \in TwoFaults(2) :
          LET c == Obtain(OsCall(faults), "dcb")
          IN  OsCreated(osbdcb(c, exits), exits) \/ OsCreated(osddcb(c), <<>>) \/ OsCreated(osxdcb(c, exits), exits)
OsOpen ==
    /\ DcbReady({"bsam", "bdam", "excp"}) /\ ~os.dcb.open /\ ~os.dcb.stale
    /\ \/ \E mode \in {"none", "read", "write", "load", "update"}, how \in {"ok", "no"} \cup Abends, faults \in OneFault(1) :
              os.dcb.kind = "bsam" /\ OsDone(osbopen(OsCall(faults), mode, how), "osopen", [how |-> how])
       \/ \E mode \in {"none", "read", "update", "write"}, how \in {"ok", "no"}, blksi \in OsLengths \ {0} :
              os.dcb.kind # "bsam" /\ OsDone(osxopenm(OsCall({}), mode, how, blksi), "osopen", [how |-> IF mode = "write" THEN "no" ELSE how])
OsClose ==
    /\ DcbReady({"bsam", "bdam", "excp"}) /\ os.decb = OsNoRequest
    /\ \E freedcb, type_t \in BOOLEAN :
          LET c == CASE os.dcb.kind = "bsam" -> osbclose(OsCall({}), freedcb, type_t)
                     [] os.dcb.kind = "bdam" -> osdclose(OsCall({}), freedcb) [] OTHER -> osxclose(OsCall({}), freedcb)
          IN  OsDone(c, "osclose", [freed |-> freedcb, kept |-> type_t /\ os.dcb.kind = "bsam"])

\* READ and WRITE: what the DCB was opened for; an update rewrites the block
\* that was read.
OsReads == "R" \in os.dcb.macr \/ os.dcb.update \/ os.dcb.kind = "bdam"
OsWrites == IF os.dcb.kind = "bdam" THEN os.dcb.update ELSE "W" \in os.dcb.macr /\ (os.dcb.update => os.dcb.place > 1)
OsRead ==
    /\ OpenDcb({"bsam", "bdam"}) /\ os.decb = OsNoRequest /\ OsReads
    /\ \E length \in OsLengths, block \in 0 .. OsDiskMax :
          OsDone(IF os.dcb.kind = "bsam" THEN osread(OsCall({}), length) ELSE osdread(OsCall({}), length, block), "osstart", <<>>)
OsWrite ==
    /\ OpenDcb({"bsam", "bdam"}) /\ os.decb = OsNoRequest /\ OsWrites /\ Len(os.disk) < OsDiskMax
    /\ \E length \in OsLengths, val \in OsValues, block \in 0 .. OsDiskMax :
          OsDone(IF os.dcb.kind = "bsam" THEN oswrite(OsCall({}), length, val) ELSE osdwrite(OsCall({}), length, block, val), "osstart", <<>>)
OsCheck ==
    /\ OpenDcb({"bsam", "bdam"}) /\ os.decb # OsNoRequest
    /\ \E how \in {"ok", "error"} \cup Abends :
          LET c == oscheck(OsCall({}), how)
          IN  OsDone(c, "oscheck", [how |-> how, before |-> [decb |-> os.decb, disk |-> os.disk, update |-> os.dcb.update], got |-> c.got])
OsExcp ==
    /\ OpenDcb({"excp"}) /\ os.disk = <<>>
    /\ \E extents \in OsExtents, tpc \in OsTracks, blkstrk \in 0 .. 2, block \in 0 .. 6, how \in {"ok", "none", "data", "error"} :
          LET seek == osxcalc(extents, tpc, blkstrk, block)
              r == IF os.dcb.update THEN osxwrite(seek, how) ELSE osxread(seek, how)
          IN  OsDone([OsCall({}) EXCEPT !.ret = r.ret], "osexcp",
                     [extents |-> extents, tpc |-> tpc, blkstrk |-> blkstrk, block |-> block, seek |-> seek, how |-> how, sense |-> r.sense])

RecordFiles == {[recfm |-> r, lrecl |-> n, blocked |-> b, write |-> w] : r \in {"F", "V"}, n \in {6, 8}, b, w \in BOOLEAN}
OsRopen ==
    /\ OsReady /\ os.rf = NoRfile /\ os.dcb = NoDcb /\ os.disk = <<>>
    /\ \E named \in BOOLEAN, f \in RecordFiles, faults \in TwoFaults(4) :
          OsDone(ropen(OsCall(faults), named, f), "ropen", [faults |-> faults])
OsRread ==
    /\ OsReady /\ os.rf # NoRfile /\ ~os.rf.write
    /\ \E how \in {"ok", "end", "error"} : OsDone(rread(OsCall({}), how), "rread", [how |-> how])
OsRwrite ==
    /\ OsReady /\ os.rf # NoRfile /\ os.rf.write
    /\ \E size, rdw \in 0 .. 9, how \in {"ok", "space", "error"} :
          LET r == rwrite(os.rf, size, rdw, how)
          IN  OsDone([OsCall({}) EXCEPT !.ret = r.ret], "rwrite", [asked |-> size, rdw |-> rdw, how |-> how, rec |-> r, f |-> os.rf])
OsRclose ==
    /\ OsReady /\ os.rf # NoRfile
    /\ \E how \in {"ok", "space", "error"}, fails \in {x \in BOOLEAN : x => os.kept = {}} :
          LET c == rclose(OsCall({}), fails)
              r == Closing1(how, fails /\ os.rf.dd # NULL)
          IN  /\ OsDone([c EXCEPT !.ret = r.ret], "rclose", [how |-> how, fails |-> fails /\ os.rf.dd # NULL, errno |-> r.errno])
OsFx37 ==
    /\ OsReady /\ [os EXCEPT !.kept = {}] = OsClear
    /\ \E full, readable, found, second, po, jsecond, member \in BOOLEAN :
          LET w == [full |-> full, readable |-> readable, dscb |-> found, second |-> second, po |-> po, jfcb |-> [second |-> jsecond, member |-> member]]
          IN  OsDone(OsCall({}), "osfx37", [w |-> w, abend |-> __fx37(w)])

OsNext ==
    \/ OsNew \/ OsOpen \/ OsClose \/ OsRead \/ OsWrite \/ OsCheck \/ OsExcp
    \/ OsRopen \/ OsRread \/ OsRwrite \/ OsRclose \/ OsFx37
    \/ See /\ UNCHANGED os

OsOwns ==
    os.kept \cup (IF os.dcb = NoDcb THEN {} ELSE {os.dcb.at, os.dcb.priv, os.dcb.pool} \ {NULL})
    \cup (IF os.rf = NoRfile THEN {} ELSE {os.rf.at, os.rf.dd, os.rf.hfile} \ {NULL})

----------------------------------------------------------------------------
(* What the access methods promise.                                        *)

\* OPEN sees the caller's exits, as many as there are up to the last one,
\* and never one behind the end of the list.
ExitsAreTheCallers ==
    result.op = "osnew" /\ os.dcb # NoDcb =>
        /\ \A i \in DOMAIN result.list : result.list[i].code = result.exits[i].code
        /\ \A i \in DOMAIN result.list : result.list[i].last <=> i = Len(result.list)
        /\ Len(result.list) < Len(result.exits) => result.exits[Len(result.list)].last \/ Len(result.list) = 10

\* An OPEN that reports success left the DCB open, and no other did.
OpenIsTrue == result.op = "osopen" => (result.ret = 0 <=> result.how = "ok") /\ (os.dcb.open <=> result.how = "ok")

\* What oscheck answers is what became of the request: a block, of the
\* length it was written with, moved once, or nothing at all.
OsRequest == result.before.decb
WasWrite == OsRequest.what = "write"
CheckIsTrue ==
    result.op = "oscheck" =>
        /\ (result.ret = 0) = (result.got # {})
        /\ result.ret # 0 => os.disk = result.before.disk
        /\ result.ret = 4 => ~WasWrite /\ \A k \in DOMAIN os.disk : k < os.dcb.place
        /\ result.ret = 0 /\ ~WasWrite => result.got \subseteq ToSet(result.before.disk) /\ os.disk = result.before.disk
        /\ result.ret = 0 /\ WasWrite =>
              LET changed == {k \in 1 .. Len(os.disk) : k > Len(result.before.disk) \/ os.disk[k] # result.before.disk[k]}
              IN  /\ Cardinality(changed) =< 1
                  /\ \A k \in changed : os.disk[k] = [val |-> OsRequest.val, len |-> OsRequest.len]
                  /\ result.before.update => Len(os.disk) = Len(result.before.disk)

\* Block n of a data set lies on the track that is n \div blkstrk-th of
\* its extents, laid end to end; the address is that of a track of the
\* extent it names.
Tracks1(x, i, tpc) == [k \in 1 .. x.tracks |-> [m |-> i - 1, cc |-> (x.cc * tpc + x.hh + k - 1) \div tpc, hh |-> (x.cc * tpc + x.hh + k - 1) % tpc]]
AllTracks(extents, tpc) == FlattenSeq([i \in DOMAIN extents |-> Tracks1(extents[i], i, tpc)])
SeekIsTrue ==
    result.op = "osexcp" /\ result.blkstrk # 0 =>
        LET all == IF result.tpc = 0 THEN <<>> ELSE AllTracks(result.extents, result.tpc)
            t == result.block \div result.blkstrk + 1
        IN  IF t > Len(all) THEN result.ret = -1 /\ result.sense = NOT_FOUND
            ELSE /\ result.seek = {all[t] @@ [r |-> (result.block % result.blkstrk) + 1]}
                 /\ (result.ret = 0) = (result.how = "ok")

\* A record is written whole, with the length it says it has, or refused
\* before anything is written.
RecordIsWhole ==
    result.op = "rwrite" =>
        /\ result.ret = 0 => result.how = "ok" /\ result.rec.size = (IF result.asked = 0 THEN result.f.lrecl ELSE result.asked)
        /\ result.rec.size > 0 /\ result.f.recfm = "V" => result.rec.size = result.rdw
        /\ result.rec.size =< result.f.lrecl
        /\ result.f.recfm = "V" /\ result.f.blocked /\ result.rec.size > 0 => result.rec.size + 4 =< result.f.lrecl
        /\ result.how # "ok" => result.ret # 0
\* rclose reports what went wrong first, and keeps nothing.
CloseIsTrue ==
    result.op = "rclose" =>
        /\ os.rf = NoRfile
        /\ (result.ret = 0) = (result.how = "ok" /\ ~result.fails)
        /\ (result.errno = "ENOSPC") = (result.how = "space")

\* OsIsTrue: what the access methods answer is what happened to the data
\* set, and an exit list or a block address is the one the caller meant.
OsIsTrue == ExitsAreTheCallers /\ OpenIsTrue /\ CheckIsTrue /\ SeekIsTrue /\ RecordIsWhole /\ CloseIsTrue
============================================================================
