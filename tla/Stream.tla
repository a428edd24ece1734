------------------------------- MODULE Stream -------------------------------
(***************************************************************************)
(* A byte stream of stdio on one sequential DASD data set.                 *)
(*                                                                         *)
(* Three layers, as in the code: the access method (@@AOPEN, @@AREAD,      *)
(* @@AWRITE, @@ATROUT, @@ACLOSE), which moves records in and out of blocks;*)
(* the FILE (__fgetc(), __fputc(), flushrec(), __fpswt(), __fpupc(),       *)
(* __fseek()), which moves bytes in and out of one record; and the calls   *)
(* of the program.  A call holds the FILE lock, so it is one action.       *)
(*                                                                         *)
(* The operators below take the world the call sees, w, and return it:     *)
(* w.ds, w.fp and w.dcb are the variables, w.rc and w.c what the function  *)
(* returns, w.e what the device and GETMAIN do during the call.            *)
(***************************************************************************)
EXTENDS Integers, Sequences, SequencesExt

CONSTANTS
    Jobs,       \* data sets and the programs that use them, see job
    Chars,      \* the characters written, other than the newline
    Avoid       \* situations the program keeps out of, see Allowed

NL == "nl"          \* the newline
SP == "sp"          \* a blank
NUL == "nul"        \* X'00'
EOF == "eof"
None == "none"      \* ungetch == -1

(* Blocks 1..cap have space, the blocks in bad cannot be read or written,  *)
(* and alloc answers the storage requests of the call's opens in turn      *)
(* (those beyond it succeed).                                              *)
Good == [cap |-> 99, bad |-> {}, alloc |-> <<>>]

VARIABLES
    job,        \* the data set's format, fixed by its DSCB, and how the
                \* program uses it; chosen at first and never changed
    ds,         \* the data set: a sequence of blocks of records
    fp,         \* the FILE
    dcb,        \* the DCB and the access method's work area
    call,       \* history: the last call and whether it reported success
    sick,       \* history: a call on this stream met a failure and said so
                \* (rewind() says so in errno only)
    abend       \* the access method was entered without a DCB or a buffer

vars == <<job, ds, fp, dcb, call, sick, abend>>

Recfm   == job.recfm     \* "F", "V" or "U"
Lrecl   == job.lrecl     \* the data bytes of the longest record
BlkSize == job.blksize   \* the block size; for V with BDW and RDWs, 4 bytes each
Blocked == job.blocked   \* RECFM=VB rather than V (F: BlkSize \div Lrecl records)
UpdatOK == job.updatok   \* FALSE: OPEN refuses UPDAT (a member named in the JCL)
Modes   == job.modes     \* the modes of fopen(): [name: Names, binary: BOOLEAN]
Strings == job.strings   \* the strings of fputs()
Seeks   == job.seeks     \* the arguments of fseek(): [off: Int, whence: ...]
Envs    == job.envs      \* what may happen during a call, see Good
MaxPos  == job.maxpos    \* bound: a stream of so many bytes is not made longer

Names == {"r", "w", "a", "r+", "w+", "a+"}

(* The characters written, and those the data set holds at first. *)
Bytes == Chars \cup {NL, SP, NUL} \cup UNION {Range(s) : s \in Strings}
            \cup UNION {Range(FlattenSeq(FlattenSeq(d))) : d \in job.datasets}

ASSUME JobAssumption ==
    \A j \in Jobs :
        /\ j.recfm \in {"F", "V", "U"} /\ j.lrecl \in Nat \ {0}
        /\ j.blksize >= (IF j.recfm = "V" THEN j.lrecl + 8 ELSE j.lrecl)
        /\ \A m \in j.modes : m.name \in Names /\ m.binary \in BOOLEAN
        /\ \A s \in j.seeks : s.off \in Int /\ s.whence \in {"set", "cur", "end"}
ASSUME CharAssumption == {NL, SP, NUL, EOF, None} \cap Chars = {}

NoFile ==
    [used |-> FALSE, read |-> FALSE, write |-> FALSE, append |-> FALSE,
     binary |-> FALSE, open |-> FALSE, dcbout |-> FALSE, extend |-> FALSE,
     posend |-> FALSE, eof |-> FALSE, err |-> FALSE, enospc |-> FALSE,
     updat |-> FALSE, dirty |-> FALSE, ungetch |-> None, filepos |-> 0,
     buf |-> <<>>, upto |-> 0, nobuf |-> TRUE, stale |-> NUL]

NoDcb ==
    [mode |-> "none", at |-> 0, next |-> 0, kept |-> 0, data |-> <<>>,
     pend |-> FALSE, leof |-> FALSE, synad |-> FALSE, x37 |-> FALSE]

Init ==
    /\ job \in Jobs /\ ds \in job.datasets
    /\ fp = NoFile /\ dcb = NoDcb
    /\ call = [op |-> "start", ok |-> TRUE, arg |-> None]
    /\ sick = FALSE /\ abend = FALSE

----------------------------------------------------------------------------
(* Records and bytes.                                                      *)

Pad(r, fill) == r \o [i \in 1 .. Lrecl - Len(r) |-> fill]

Fill(f) == IF f.binary THEN NUL ELSE SP

(* Text input drops the trailing X'00's of a record (#454). *)
Strip(r) ==
    SubSeq(r, 1, CHOOSE n \in 0 .. Len(r) :
                    /\ n > 0 => r[n] # NUL
                    /\ \A i \in n + 1 .. Len(r) : r[i] = NUL)

(* A record as __fgetc() puts it into the buffer. *)
AsRead(r, binary) == IF binary THEN r ELSE Append(Strip(r), NL)

AsBytes(recs, binary) ==
    FlattenSeq([i \in 1 .. Len(recs) |-> AsRead(recs[i], binary)])

(* The record that fixflush() or varflush() makes of the bytes in the buffer. *)
Record(bytes, f) ==
    CASE Recfm = "F" -> Pad(bytes, Fill(f))
      [] Recfm = "V" -> bytes
      [] Recfm = "U" -> IF bytes = <<>> THEN <<Fill(f)>> ELSE bytes

(* The record that updrec() makes of a buffer it was read into: a text     *)
(* record without the newline.                                             *)
Updated(f) ==
    LET data == IF f.binary \/ f.buf = <<>> THEN f.buf ELSE Front(f.buf)
    IN  IF Recfm = "F" THEN Pad(data, Fill(f)) ELSE data

----------------------------------------------------------------------------
(* The access method.                                                      *)

(* The bytes of a V block, its BDW included. *)
Bdw(data) == 4 + 4 * Len(data) + Len(FlattenSeq(data))

(* @@ATROUT: write the block in the buffer, if there is one.  Written in   *)
(* UPDAT mode it replaces the block last read.  The x37 exit and SYNAD     *)
(* only leave a mark.                                                      *)
atrout(w) ==
    LET d == w.dcb
        new == Len(w.ds) + 1
        done == [w EXCEPT !.dcb.pend = FALSE, !.dcb.next = 0]
        sent == [done EXCEPT !.dcb.data = <<>>]
    IN  CASE ~d.pend -> w
          [] d.pend /\ d.mode = "updat" ->
                IF d.at \in w.e.bad THEN [done EXCEPT !.dcb.synad = TRUE]
                ELSE [done EXCEPT !.ds[d.at] = d.data]
          [] d.pend /\ d.mode = "out" ->
                CASE Recfm = "V" /\ Bdw(d.data) <= 8 -> sent
                  [] (Recfm = "V" => Bdw(d.data) > 8) /\ new > w.e.cap ->
                        [sent EXCEPT !.dcb.synad = TRUE, !.dcb.x37 = TRUE]
                  [] OTHER ->
                        IF new \in w.e.bad THEN [sent EXCEPT !.dcb.synad = TRUE]
                        ELSE [sent EXCEPT !.ds = Append(@, d.data)]

(* What a write returns; @@AWRITE resets the marks it reports. *)
WriteRc(d) == IF d.x37 THEN 12 ELSE IF d.synad THEN 8 ELSE 0

(* @@AWRITE: add a record to the block, or replace the record read last. *)
awrite(w, rec) ==
    LET old == w.dcb.data[w.dcb.kept]
        over == [i \in 1 .. Len(old) |-> IF i <= Len(rec) THEN rec[i] ELSE NUL]
        fits == Recfm = "V" => Bdw(Append(w.dcb.data, rec)) <= BlkSize
        add(v) == [v EXCEPT !.dcb.data = Append(@, rec), !.dcb.pend = TRUE]
        full(data) == CASE Recfm = "F" -> (Len(data) + 1) * Lrecl > BlkSize
                        [] Recfm = "V" -> ~Blocked
                        [] Recfm = "U" -> TRUE
        sent(v) == IF full(v.dcb.data) THEN atrout(v) ELSE v
        report(v) == [v EXCEPT !.rc = WriteRc(v.dcb),
                               !.dcb.synad = FALSE, !.dcb.x37 = FALSE]
    IN  CASE w.dcb.mode \notin {"updat", "out"} -> [w EXCEPT !.abend = TRUE, !.rc = 8]
          [] w.dcb.mode = "updat" ->
                report(IF w.dcb.kept = 0 THEN w
                       ELSE [w EXCEPT !.dcb.data[w.dcb.kept] = over, !.dcb.pend = TRUE])
          [] w.dcb.mode = "out" ->
                report(sent(add(IF fits THEN w
                                ELSE atrout([w EXCEPT !.dcb.pend = TRUE]))))

(* Mutant: the last record of a block is taken for the end of the block. *)
deblock_Short(w, i) ==
    [w EXCEPT !.dcb.kept = i, !.rc = 0,
              !.dcb.next = IF i + 1 < Len(w.dcb.data) THEN i + 1 ELSE 0]

(* Hand out record i of the block in the buffer (DEBLOCK). *)
deblock(w, i) ==
    [w EXCEPT !.dcb.kept = i, !.rc = 0,
              !.dcb.next = IF i < Len(w.dcb.data) THEN i + 1 ELSE 0]

(* READ of the next block, after the rewrite of the one before. *)
readblock(w) ==
    LET k == w.dcb.at + 1
        more == k <= Len(w.ds)
        passed == [w EXCEPT !.dcb.kept = 0, !.dcb.synad = FALSE,
                            !.dcb.at = IF more THEN k ELSE @]
    IN  IF w.dcb.synad \/ (more /\ k \in w.e.bad) THEN [passed EXCEPT !.rc = 1]
        ELSE IF more THEN deblock([passed EXCEPT !.dcb.data = w.ds[k]], 1)
        ELSE [passed EXCEPT !.dcb.leof = TRUE, !.rc = -1]

(* @@AREAD: rc 0 and the record is number kept of the block, -1 at the     *)
(* end, 1 after an I/O error - of this READ or of the rewrite before it.   *)
aread(w) ==
    CASE w.dcb.mode \notin {"in", "updat"} -> [w EXCEPT !.abend = TRUE, !.rc = 1]
      [] w.dcb.mode \in {"in", "updat"} /\ w.dcb.leof -> [w EXCEPT !.rc = -1]
      [] w.dcb.mode \in {"in", "updat"} /\ ~w.dcb.leof ->
            IF w.dcb.next # 0 THEN deblock(w, w.dcb.next)
            ELSE readblock(IF w.dcb.mode = "updat" THEN atrout(w) ELSE w)

(* Mutant: CLOSE does not say that the last block could not be written.    *)
aclose_Silent(w) == [atrout(w) EXCEPT !.rc = 0, !.dcb = NoDcb]

(* @@ACLOSE: the last block goes out here. *)
aclose(w) ==
    LET closed(v) == [v EXCEPT !.rc = WriteRc(v.dcb), !.dcb = NoDcb]
    IN  closed(atrout(w))

(* One request for storage: is it met, and the world after it. *)
Granted(w) == w.e.alloc = <<>> \/ Head(w.e.alloc)
Asked(w) == [w EXCEPT !.e.alloc = IF @ = <<>> THEN @ ELSE Tail(@)]

(* @@AOPEN; no DCB when it fails. *)
aopen(w, mode) ==
    LET v == Asked(w)
        how == CASE mode \in {"output", "extend"} -> "out"
                 [] mode = "updat" -> "updat"
                 [] mode = "input" -> "in"
    IN  IF mode = "updat" /\ ~UpdatOK THEN [w EXCEPT !.dcb = NoDcb]
        ELSE IF ~Granted(w) THEN [v EXCEPT !.dcb = NoDcb]
        ELSE [v EXCEPT !.dcb = [NoDcb EXCEPT !.mode = how],
                       !.ds = IF mode = "output" THEN <<>> ELSE @]

----------------------------------------------------------------------------
(* Flushing: @@fflush.c.                                                   *)

(* A write that failed marks the stream. *)
Marked(w) ==
    [w EXCEPT !.fp.err = @ \/ w.rc # 0, !.fp.enospc = @ \/ w.rc = 12]

updrec(w) == Marked(awrite([w EXCEPT !.fp.dirty = FALSE], Updated(w.fp)))

(* The rc of a flush refused because the stream is in error (#149). *)
FailFast(w) == IF w.fp.enospc THEN 12 ELSE 8

(* The bytes a text record counts beyond those in the buffer (#189). *)
PadCount(f) ==
    CASE Recfm = "F" -> Lrecl - Len(f.buf)
      [] Recfm = "U" -> IF f.buf = <<>> THEN 1 ELSE 0
      [] Recfm = "V" -> 0

flushrec(w, newline) ==
    LET f == w.fp
        reset(u) == [u EXCEPT !.fp.buf = <<>>, !.fp.upto = 0]
        padded(u) ==
            IF u.rc = 0 /\ ~f.binary
            THEN [u EXCEPT !.fp.filepos = @ + PadCount(f) + (IF newline THEN 0 ELSE 1)]
            ELSE u
    IN  CASE f.dirty ->
                IF f.err THEN [w EXCEPT !.fp.dirty = FALSE, !.rc = FailFast(w)]
                ELSE updrec(w)
          [] ~f.dirty /\ (~f.dcbout \/ (f.buf = <<>> /\ ~newline)) -> [w EXCEPT !.rc = 0]
          [] OTHER ->
                reset(IF f.err THEN [w EXCEPT !.rc = FailFast(w)]
                      ELSE padded(Marked(awrite(w, Record(f.buf, f)))))

__fflush(w) == flushrec(w, FALSE)
__fflnl(w) == flushrec(w, TRUE)

----------------------------------------------------------------------------
(* Opening and turning round: @@fpopen.c, @@fpswt.c.                       *)

(* Mutant: an output open after the first truncates. *)
__fpopen_Truncates(w) ==
    LET f == w.fp
        mode == IF f.dcbout THEN "output"
                ELSE IF f.append \/ ~UpdatOK THEN "input" ELSE "updat"
        o == aopen([w EXCEPT !.fp.updat = mode = "updat", !.fp.dirty = FALSE], mode)
    IN  [o EXCEPT !.rc = 0, !.fp.nobuf = FALSE, !.fp.open = TRUE, !.fp.buf = <<>>,
                  !.fp.upto = 0, !.fp.stale = NUL, !.fp.ungetch = None]

__fpopen(w) ==
    LET f == w.fp
        mode == IF f.dcbout THEN (IF f.append \/ f.extend THEN "extend" ELSE "output")
                ELSE IF f.write /\ ~f.append THEN "updat" ELSE "input"
        second(o) == IF o.dcb = NoDcb THEN aopen(o, "input")
                     ELSE [o EXCEPT !.fp.updat = TRUE]
        first(o) == IF mode = "updat" THEN second(o) ELSE o
        buffer(o) == [Asked(o) EXCEPT
                        !.rc = IF Granted(o) THEN 0 ELSE 1,
                        !.fp.nobuf = ~Granted(o), !.fp.stale = NUL,
                        !.fp.buf = <<>>, !.fp.upto = 0]
        opened(o) ==
            IF o.dcb = NoDcb THEN [o EXCEPT !.rc = 1]
            ELSE buffer([o EXCEPT !.fp.open = TRUE, !.fp.ungetch = None,
                            !.fp.extend = @ \/ (f.read /\ f.write /\ f.dcbout)])
    IN  opened(first(aopen([w EXCEPT !.fp.updat = FALSE, !.fp.dirty = FALSE], mode)))

(* redcb(), the DCB closed or none there: rc -1, not reopened; 8 or 12,    *)
(* reopened, but the last block is lost.                                   *)
Result(w, rc) == [w EXCEPT !.rc = IF w.rc # 0 THEN -1 ELSE rc]
reopened(w, out) ==
    Result(__fpopen([w EXCEPT
            !.dcb = NoDcb, !.fp.nobuf = TRUE, !.fp.buf = <<>>, !.fp.upto = 0,
            !.fp.ungetch = None, !.fp.open = FALSE, !.fp.dcbout = out,
            !.fp.eof = FALSE]), w.rc)

redcb(w, out) == reopened(IF w.fp.open THEN aclose(w) ELSE [w EXCEPT !.rc = 0], out)

(* Only where a record can be empty and no newline follows it can the      *)
(* first byte of the record before be seen again.                          *)
Stale(f) == Recfm = "V" /\ f.binary

(* The next byte of a record in the buffer.  An empty record of a binary   *)
(* stream has none, and the byte is what the buffer held before.           *)
dogetc(w) ==
    [w EXCEPT !.c = IF w.fp.upto < Len(w.fp.buf) THEN w.fp.buf[w.fp.upto + 1]
                    ELSE w.fp.stale,
              !.fp.upto = @ + 1, !.fp.filepos = @ + 1]

Eof(w) == [w EXCEPT !.c = EOF]
Fail(w) == [w EXCEPT !.rc = -1]

(* A record was read, or the end of the data set or an error met. *)
gotrec(w) ==
    LET bytes == AsRead(w.dcb.data[w.dcb.kept], w.fp.binary)
    IN  IF w.rc > 0 THEN Eof([w EXCEPT !.fp.err = TRUE])
        ELSE IF w.rc < 0 THEN Eof([w EXCEPT !.fp.eof = TRUE])
        ELSE IF w.fp.nobuf THEN Eof([w EXCEPT !.abend = TRUE])
        ELSE dogetc([w EXCEPT !.fp.buf = bytes, !.fp.upto = 0,
                        !.fp.stale = IF bytes = <<>> \/ ~Stale(w.fp) THEN @
                                     ELSE Head(bytes)])

(* The record in the buffer, if it was changed, has been flushed. *)
readrec(w) == IF w.rc # 0 THEN Eof(w) ELSE gotrec(aread(w))

(* __fgetc() from where the DCB is known to read. *)
getc_in(w) ==
    LET f == w.fp
    IN  CASE f.ungetch # None -> [w EXCEPT !.c = f.ungetch, !.fp.ungetch = None]
          [] f.ungetch = None /\ f.eof -> Eof(w)
          [] f.ungetch = None /\ ~f.eof /\ f.upto < Len(f.buf) -> dogetc(w)
          [] OTHER -> readrec(IF f.dirty THEN __fflush(w) ELSE [w EXCEPT !.rc = 0])

(* __fgetc() as the library itself calls it, on a DCB that reads. *)
nextc(w) == IF w.fp.err THEN Eof(w) ELSE getc_in(w)

(* while (__fgetc(fp) != EOF) ; *)
RECURSIVE ToEnd(_)
ToEnd(w) == LET on(g) == IF g.c = EOF THEN g ELSE ToEnd(g) IN on(nextc(w))

(* Read forward to a position, or to the end before it. *)
RECURSIVE ToPos(_, _)
ToPos(w, pos) ==
    LET on(g) == IF g.c = EOF THEN g ELSE ToPos(g, pos)
    IN  IF w.fp.filepos >= pos THEN w ELSE on(nextc(w))

(* Mutant: the count of the position is not begun again. *)
skipto_NoReset(w, pos) == IF w.fp.posend THEN [ToEnd(w) EXCEPT !.fp.posend = FALSE]
                          ELSE ToPos(w, pos)
skipto(w, pos) ==
    LET start == [w EXCEPT !.fp.filepos = 0]
    IN  IF w.fp.posend THEN [ToEnd(start) EXCEPT !.fp.posend = FALSE]
        ELSE ToPos(start, pos)

(* The DCB is the other one: take up the position.  Or it could not be     *)
(* opened: the old one again, where that is possible.                      *)
moved(w, out, pos) == IF out THEN [w EXCEPT !.fp.filepos = pos] ELSE skipto(w, pos)

takenup(w, pos) == IF w.rc = 0 THEN skipto([w EXCEPT !.fp.posend = FALSE], pos) ELSE w

kept(w, out, pos) ==
    LET marked(u) == [u EXCEPT !.fp.err = @ \/ ~u.fp.open]
    IN  marked(IF out THEN takenup(redcb(w, FALSE), pos) ELSE w)

turned(w, out, pos) ==
    IF w.rc < 0 THEN Fail(kept(w, out, pos))
    ELSE [moved(w, out, pos) EXCEPT
            !.fp.err = @ \/ w.rc > 0, !.fp.enospc = @ \/ w.rc = 12,
            !.rc = IF w.rc > 0 THEN -1 ELSE 0]

(* Close the DCB and open the DD the other way, once the stream is at the  *)
(* place where the switch may happen.                                      *)
flushed(w, out, pos) == IF w.rc # 0 THEN Fail(w) ELSE turned(redcb(w, out), out, pos)
turn(w, out) == IF w.rc # 0 THEN w ELSE flushed(__fflush(w), out, w.fp.filepos)

(* The stream has been read to see whether it is at the end; a byte read   *)
(* for that goes back.                                                     *)
peeked(w, f) ==
    IF w.fp.err THEN Fail(w)
    ELSE IF w.c = EOF THEN [w EXCEPT !.rc = 0]
    ELSE Fail(IF f.ungetch # None THEN [w EXCEPT !.fp.ungetch = w.c]
              ELSE [w EXCEPT !.fp.upto = @ - 1, !.fp.filepos = @ - 1])

(* __fpswt(): "a+" writes at the end wherever it has read to; "r+" and     *)
(* "w+" must be at the end to switch to writing.                           *)
__fpswt(w, out) ==
    IF ~w.fp.open THEN Fail(w)
    ELSE turn(IF ~out \/ w.fp.eof THEN [w EXCEPT !.rc = 0]
              ELSE peeked(IF w.fp.append THEN ToEnd(w) ELSE nextc(w), w.fp), out)

(* The DCB reads, or could not be made to. *)
Input(w) == IF w.rc # 0 THEN Eof(w) ELSE getc_in(w)

(* Mutant: a stream in error is read all the same. *)
__fgetc_NoFailFast(w) ==
    IF ~w.fp.read THEN Eof(w)
    ELSE Input(IF w.fp.dcbout THEN __fpswt(w, FALSE) ELSE [w EXCEPT !.rc = 0])

__fgetc(w) ==
    IF ~w.fp.read \/ w.fp.err THEN Eof(w)
    ELSE Input(IF w.fp.dcbout THEN __fpswt(w, FALSE) ELSE [w EXCEPT !.rc = 0])

----------------------------------------------------------------------------
(* Writing: __fpupc() and __fputc().                                       *)

(* The byte at upto of the record in the buffer is overwritten; a newline  *)
(* blanks the rest of a fixed-length record.                               *)
inplace(w, c) ==
    LET f == w.fp
        n == Len(f.buf)
        last == IF f.binary THEN n ELSE n - 1
        put(k) ==
            [w EXCEPT !.fp.buf = [i \in 1 .. n |->
                                     IF i = f.upto + 1 /\ k = f.upto THEN c
                                     ELSE IF i \in f.upto + 1 .. k THEN SP
                                     ELSE f.buf[i]],
                      !.fp.dirty = TRUE, !.rc = 0]
    IN  IF ~f.binary /\ f.upto >= last
        THEN IF c # NL THEN Fail(w)
             ELSE [w EXCEPT !.fp.upto = @ + 1, !.fp.filepos = @ + 1, !.rc = 0]
        ELSE IF ~f.binary /\ c = NL
        THEN IF Recfm # "F" THEN Fail(w)
             ELSE [put(last) EXCEPT !.fp.filepos = @ + n - f.upto, !.fp.upto = n]
        ELSE [put(f.upto) EXCEPT !.fp.filepos = @ + 1, !.fp.upto = @ + 1,
                !.fp.stale = IF f.upto = 0 /\ Stale(f) THEN c ELSE @]

(* What __fpswt() to writing returned, as __fpupc() passes it on. *)
AtEnd(w) == IF w.rc # 0 THEN Fail(w) ELSE [w EXCEPT !.rc = 1]

(* The next record was read to be overwritten, or the end was met. *)
fetched(w, c) ==
    IF w.fp.err THEN Fail(w)
    ELSE IF w.c = EOF THEN AtEnd(__fpswt(w, TRUE))
    ELSE inplace([w EXCEPT !.fp.upto = @ - 1, !.fp.filepos = @ - 1], c)

(* __fpupc(): rc 0, c is written in place; 1, the DCB now writes at the    *)
(* end; -1, refused or failed.                                             *)
__fpupc(w, c) ==
    LET v == [w EXCEPT !.fp.ungetch = None]
    IN  IF v.fp.upto < Len(v.fp.buf) THEN inplace(v, c) ELSE fetched(nextc(v), c)

(* __fputc() once the DCB writes. *)
putc_out(w, c) ==
    LET ended(v) == [v EXCEPT !.c = IF v.rc # 0 THEN EOF ELSE c]
        stored(v) == IF v.rc # 0 THEN Eof(v)
                     ELSE [v EXCEPT !.fp.buf = Append(@, c), !.fp.upto = @ + 1,
                                    !.fp.filepos = @ + 1, !.c = c]
    IN  IF ~w.fp.binary /\ c = NL THEN ended(__fflnl([w EXCEPT !.fp.filepos = @ + 1]))
        ELSE stored(IF Len(w.fp.buf) = Lrecl THEN __fflush(w) ELSE [w EXCEPT !.rc = 0])

(* The byte is refused, written in place, or to be written at the end. *)
Placed(w, c) ==
    CASE w.rc < 0 -> Eof(w)
      [] w.rc = 0 -> [w EXCEPT !.c = c]
      [] w.rc > 0 -> putc_out(w, c)

__fputc(w, c) ==
    LET f == w.fp
    IN  IF ~f.write \/ f.err THEN Eof(w)
        ELSE Placed(CASE f.dcbout -> [w EXCEPT !.rc = 1]
                      [] ~f.dcbout /\ f.updat -> __fpupc(w, c)
                      [] ~f.dcbout /\ ~f.updat -> AtEnd(__fpswt(w, TRUE)), c)

(* fputs() and fwrite(): byte by byte, up to the first that fails. *)
RECURSIVE __fputs(_, _)
__fputs(w, s) ==
    LET on(p) == IF p.c = EOF THEN p ELSE __fputs(p, Tail(s))
    IN  IF s = <<>> THEN [w EXCEPT !.c = NUL] ELSE on(__fputc(w, Head(s)))

(* The loop of fgets(): n bytes at most, and none beyond a newline. *)
RECURSIVE __fgets(_, _)
__fgets(w, n) ==
    LET on(g) == IF g.c \in {EOF, NL} THEN g ELSE __fgets(g, n - 1)
    IN  IF n = 0 THEN w ELSE on(__fgetc(w))

(* The loop of fread(), which does not stop at a newline. *)
RECURSIVE __fread(_, _)
__fread(w, n) ==
    LET on(g) == IF g.c = EOF THEN g ELSE __fread(g, n - 1)
    IN  IF n = 0 THEN w ELSE on(__fgetc(w))

----------------------------------------------------------------------------
(* Positioning: @@fseek.c.                                                 *)

(* Where the seek to new ends: at new, or at the end before it. *)
arrived(w, new) ==
    IF w.rc # 0 THEN Fail(w)
    ELSE [w EXCEPT !.fp.eof = FALSE, !.rc = IF w.fp.filepos = new THEN 0 ELSE -1]

(* From a known position to new: forward by reading, back within the       *)
(* record in the buffer, or back by opening the DD again.                  *)
moveto(w, new) ==
    CASE new < 0 -> Fail(w)
      [] new = w.fp.filepos -> [w EXCEPT !.rc = 0]
      [] new >= 0 /\ new # w.fp.filepos ->
            IF ~w.fp.dcbout /\ w.fp.ungetch = None
                 /\ new \in w.fp.filepos - w.fp.upto .. w.fp.filepos
            THEN [w EXCEPT !.fp.upto = @ - (w.fp.filepos - new), !.fp.filepos = new,
                           !.rc = 0]
            ELSE arrived(IF ~w.fp.dcbout /\ new > w.fp.filepos
                         THEN [ToPos(w, new) EXCEPT !.rc = 0]
                         ELSE __fpswt([w EXCEPT !.fp.filepos = new], FALSE), new)

Target(pos, s) == (IF s.whence = "set" THEN 0 ELSE pos) + s.off

(* The position that the offset counts from is known, or could not be. *)
known(w, s, ended) ==
    IF w.rc # 0 THEN Fail(w)
    ELSE moveto([w EXCEPT !.fp.eof = @ /\ ~ended], Target(w.fp.filepos, s))

(* fseek() on a '+' stream. *)
plusseek(w, s) ==
    LET f == w.fp
    IN  IF f.dcbout /\ ~f.posend /\ Target(f.filepos, s) = f.filepos
        THEN [w EXCEPT !.rc = 0]
        ELSE known(CASE f.posend -> __fpswt(w, FALSE)
                     [] ~f.posend /\ s.whence = "end" /\ ~f.dcbout ->
                          [ToEnd(w) EXCEPT !.rc = 0]
                     [] OTHER -> [w EXCEPT !.rc = 0],
                   s, f.posend \/ s.whence = "end")

(* The loop that reads n bytes forward on an "r" stream. *)
RECURSIVE Forward(_, _)
Forward(w, n) ==
    LET on(g) == IF g.c = EOF THEN [g EXCEPT !.fp.err = TRUE, !.fp.eof = TRUE]
                 ELSE Forward(g, n - 1)
    IN  IF n <= 0 THEN w ELSE on(nextc(w))

Flags(name, binary) ==
    LET plus == name \in {"r+", "w+", "a+"}
        r == name \in {"r", "r+"}
        a == name \in {"a", "a+"}
    IN  [NoFile EXCEPT !.used = TRUE, !.read = plus \/ r, !.write = plus \/ ~r,
                       !.append = a, !.binary = binary,
                       !.posend = name = "a+", !.extend = name \in {"r+", "a+"},
                       !.dcbout = ~r]

(* fopen(): "a+" counts the data set at once, by a turn to reading and     *)
(* back.  rc 0 when it is open.                                            *)
there(w) == IF w.rc # 0 THEN w ELSE __fpswt(w, TRUE)
counted(w) == IF w.rc # 0 \/ ~w.fp.posend THEN w ELSE there(__fpswt(w, FALSE))
__fpopn(w, mode) == counted(__fpopen([w EXCEPT !.fp = Flags(mode.name, mode.binary)]))

(* __reopen() as fseek() uses it, on an "r" stream: rc -1 leaves the       *)
(* stream as it was.  The new FILE's DCB, buffer and flags replace the     *)
(* old one's after the old DCB is closed.                                  *)
__reopen(w) ==
    LET taken(u) == IF ~w.fp.open \/ u.rc # 0 THEN Fail(w) ELSE u
    IN  taken(__fpopen([w EXCEPT !.fp = Flags("r", w.fp.binary)]))

(* __fseek() on a stream that only reads or only writes. *)
plainseek(w, s) ==
    LET f == w.fp
        new == (IF s.whence = "set" THEN 0 ELSE f.filepos) + s.off
        start == f.filepos - f.upto
        quit(u) == IF u.fp.err THEN Fail(u)
                   ELSE [u EXCEPT !.rc = 0, !.fp.ungetch = None]
        again(u) == Forward(u, IF u.rc # 0 THEN 0 ELSE new)
    IN  IF ~f.read /\ new # f.filepos THEN Fail(w)
        ELSE quit(IF ~f.read THEN w
                  ELSE IF s.whence = "end" THEN ToEnd(w)
                  ELSE IF new >= start /\ new < start + Len(f.buf)
                  THEN [w EXCEPT !.fp.upto = new - start, !.fp.filepos = new]
                  ELSE IF new >= f.filepos THEN Forward(w, new - f.filepos)
                  ELSE again(__reopen(w)))

(* Mutants: the pushed-back character survives on a '+' stream (#474); the *)
(* error indicator is not put back (#178).                                 *)
__fseek_KeepsUnget(w, s) ==
    LET v == [w EXCEPT !.fp.err = FALSE, !.fp.enospc = FALSE, !.fp.eof = FALSE]
        back(u) == [u EXCEPT !.fp.err = @ \/ w.fp.err, !.fp.enospc = @ \/ w.fp.enospc]
    IN  back(IF w.fp.read /\ w.fp.write THEN plusseek(v, s) ELSE plainseek(v, s))
__fseek_Forgets(w, s) ==
    LET v == [w EXCEPT !.fp.err = FALSE, !.fp.enospc = FALSE, !.fp.eof = FALSE]
    IN  IF w.fp.read /\ w.fp.write THEN plusseek(v, s) ELSE plainseek(v, s)

(* fseek(): the error indicator is put aside and put back (#178). *)
__fseek(w, s) ==
    LET v == [w EXCEPT !.fp.err = FALSE, !.fp.enospc = FALSE, !.fp.eof = FALSE]
        unget(u) == IF u.rc = 0 THEN [u EXCEPT !.fp.ungetch = None] ELSE u
        back(u) == [u EXCEPT !.fp.err = @ \/ w.fp.err, !.fp.enospc = @ \/ w.fp.enospc]
    IN  back(IF w.fp.read /\ w.fp.write THEN unget(plusseek(v, s)) ELSE plainseek(v, s))

----------------------------------------------------------------------------
(* What the program sees.                                                  *)

Records(blocks) == FlattenSeq(blocks)

(* The blocks as they will be on the disk once a record or a block         *)
(* overwritten in place has gone back: of the data set d, the FILE f and   *)
(* the DCB k.                                                              *)
Blocks(d, f, k) ==
    IF k.mode = "updat" /\ k.at > 0
    THEN [d EXCEPT ![k.at] =
            IF f.dirty /\ k.kept # 0 THEN [k.data EXCEPT ![k.kept] = Updated(f)]
            ELSE k.data]
    ELSE d

(* The records written, those still in the block buffer included. *)
Written(d, f, k) ==
    Records(Blocks(d, f, k)) \o (IF k.mode = "out" THEN k.data ELSE <<>>)

Pending(f) == IF f.dcbout THEN f.buf ELSE <<>>

(* The stream as bytes, the unfinished record at its end included; and as  *)
(* it will be once that record is ended.                                   *)
ViewOf(d, f, k) == AsBytes(Written(d, f, k), f.binary) \o Pending(f)
View == ViewOf(ds, fp, dcb)
NewView == ViewOf(ds', fp', dcb')
Ended ==
    AsBytes(Written(ds, fp, dcb)
                \o (IF Pending(fp) = <<>> THEN <<>> ELSE <<Record(Pending(fp), fp)>>),
            fp.binary)

(* The bytes a reading stream has before it. *)
Unread ==
    SubSeq(fp.buf, fp.upto + 1, Len(fp.buf))
        \o AsBytes((IF dcb.next = 0 THEN <<>> ELSE SubSeq(dcb.data, dcb.next, Len(dcb.data)))
                       \o Records(SubSeq(ds, dcb.at + 1, Len(ds))),
                   fp.binary)

(* ftell() knows the position of every stream but an "a", which counts     *)
(* from where it was opened.                                               *)
Positioned == fp.open /\ ~(fp.append /\ ~fp.read)

----------------------------------------------------------------------------
(* The calls of the program.                                               *)

World(e) == [e |-> e, ds |-> ds, fp |-> fp, dcb |-> dcb, rc |-> 0, c |-> EOF,
             abend |-> FALSE]

Return(w, e, op, ok, arg) ==
    /\ ds' = w.ds /\ fp' = w.fp /\ dcb' = w.dcb /\ abend' = w.abend /\ UNCHANGED job
    /\ call' = [op |-> op, ok |-> ok, arg |-> arg]
    /\ sick' = (w.fp.used /\ (sick \/ w.fp.err \/ (~ok /\ e # Good)))

(* Functions that return the character they handled last, or EOF, and those *)
(* that return a code.                                                     *)
Character(w, e, op) == Return(w, e, op, w.c # EOF, w.c)
Code(w, e, op, arg) == Return(w, e, op, w.rc = 0, arg)

Running == fp.used /\ ~abend

Opened(w, e, m) ==
    IF w.rc = 0 THEN Return(w, e, "fopen", TRUE, m.name)
    ELSE Return([(IF w.fp.open THEN aclose(__fflush(w)) ELSE w)
                    EXCEPT !.fp = NoFile, !.dcb = NoDcb],
                Good, "fopen", FALSE, m.name)

fopen ==
    \E m \in Modes, e \in Envs :
        /\ ~fp.used /\ ~abend
        /\ Opened(__fpopn(World(e), m), e, m)

(* The situations that the runs can keep the program out of: each is one   *)
(* where the code does not do what it promises.                            *)
Allowed(what) == what \notin Avoid

EmptyLine(c) ==
    /\ Recfm = "V" /\ c = NL /\ ~fp.binary
    /\ IF fp.dcbout THEN fp.buf = <<>> ELSE ~fp.updat \/ fp.upto >= Len(fp.buf)
KeptIsGone == fp.updat /\ dcb.kept = 0 /\ fp.upto < Len(fp.buf)

(* The bound on growth: bytes in place may always be overwritten.  The     *)
(* position counts bytes of records that could not be written, too.        *)
Room ==
    \/ fp.updat /\ Unread # <<>>
    \/ Len(View) < MaxPos /\ fp.filepos <= MaxPos

fputc ==
    \E c \in Chars \cup {NL}, e \in Envs :
        /\ Running
        /\ Room
        /\ EmptyLine(c) => Allowed("empty line")
        /\ KeptIsGone => Allowed("kept is gone")
        /\ Character(__fputc(World(e), c), e, "fputc")

fputs ==
    \E s \in Strings, e \in Envs :
        /\ Running
        /\ Len(View) < MaxPos /\ fp.filepos <= MaxPos
        /\ EmptyLine(Head(s)) => Allowed("empty line")
        /\ KeptIsGone => Allowed("kept is gone")
        /\ Character(__fputs(World(e), s), e, "fputs")

fgetc ==
    \E e \in Envs :
        /\ Running
        /\ Character(__fgetc(World(e)), e, "fgetc")

(* fgets() and fread() return at once at the end of the file. *)
fgets ==
    \E e \in Envs :
        /\ Running
        /\ Character(IF fp.eof THEN World(e) ELSE __fgets(World(e), Lrecl + 1), e, "fgets")

fread ==
    \E e \in Envs :
        /\ Running
        /\ Character(IF fp.eof THEN World(e) ELSE __fread(World(e), 2), e, "fread")

ungetc ==
    \E c \in Chars :
        /\ Running
        /\ IF fp.ungetch # None THEN Return(World(Good), Good, "ungetc", FALSE, c)
           ELSE Return([World(Good) EXCEPT !.fp.ungetch = c, !.fp.eof = FALSE],
                       Good, "ungetc", TRUE, c)

Seek(s) ==
    \E e \in Envs : Running /\ Code(__fseek(World(e), s), e, "fseek", s)

(* The byte fseek() is asked to go to: on an "r" stream SEEK_END ignores   *)
(* the offset, as the book says.                                           *)
SeekTarget(s) ==
    CASE s.whence = "set" -> s.off
      [] s.whence = "cur" -> fp.filepos + s.off
      [] s.whence = "end" -> Len(View) + (IF fp.write THEN s.off ELSE 0)

fseek ==
    \E s \in Seeks :
        /\ ~fp.write /\ fp.ungetch # None => Allowed("seek after ungetc")
        /\ ~fp.write /\ s.whence = "end" => Allowed("seek to the end of r")
        /\ ~fp.write /\ SeekTarget(s) < 0 => Allowed("negative seek on r")
        /\ ~fp.open => Allowed("seek without a DCB")
        /\ Seek(s)

fflush ==
    \E e \in Envs :
        /\ Running
        /\ Recfm = "F" /\ fp.binary /\ fp.dcbout /\ fp.buf # <<>>
              => Allowed("flush of half a record")
        /\ Code(__fflush(World(e)), e, "fflush", None)

clearerr ==
    /\ Running
    /\ ~fp.open => Allowed("clearerr without a DCB")
    /\ Return([World(Good) EXCEPT !.fp.err = FALSE, !.fp.eof = FALSE, !.fp.enospc = FALSE],
              Good, "clearerr", TRUE, None)

Rewound(w, e) ==
    /\ ~w.fp.open => Allowed("clearerr without a DCB")
    /\ Code([w EXCEPT !.fp.err = FALSE, !.fp.eof = FALSE, !.fp.enospc = FALSE],
            e, "rewind", None)

rewind ==
    \E e \in Envs :
        /\ Running
        /\ Rewound(__fseek(World(e), [off |-> 0, whence |-> "set"]), e)

(* The FILE is freed whatever happens; a stream without a DCB has nothing  *)
(* to flush or close.                                                      *)
Freed(w, ok) ==
    Return([w EXCEPT !.fp = NoFile, !.dcb = NoDcb], Good, "fclose",
           ok /\ w.rc = 0, None)

Closing(w) == Freed(aclose(w), w.rc = 0)

fclose ==
    \E e \in Envs :
        /\ Running
        /\ IF fp.open THEN Closing(__fflush(World(e))) ELSE Freed(World(e), TRUE)

Next ==
    \/ fopen \/ fclose \/ fflush \/ fputc \/ fputs \/ fgetc \/ fgets \/ fread
    \/ ungetc \/ fseek \/ rewind \/ clearerr

Spec == Init /\ [][Next]_vars

----------------------------------------------------------------------------
(* Properties.                                                             *)

Flag == {"used", "read", "write", "append", "binary", "open", "dcbout", "extend",
         "posend", "eof", "err", "enospc", "updat", "dirty", "nobuf"}

(* Types, and the shape of the data set: no record is longer than LRECL,   *)
(* an F record has exactly LRECL bytes, and no block is longer than        *)
(* BLKSIZE, whatever the program writes (@@AWRITE, fixflush(), varflush()).*)
TypeOK ==
    /\ \A b \in Range(ds) :
          /\ b # <<>>
          /\ \A r \in Range(b) :
                /\ Range(r) \subseteq Bytes /\ Len(r) <= Lrecl
                /\ Recfm = "F" => Len(r) = Lrecl
          /\ CASE Recfm = "F" -> Len(b) * Lrecl <= BlkSize
               [] Recfm = "V" -> Bdw(b) <= BlkSize
               [] Recfm = "U" -> Len(b) = 1
    /\ \A x \in Flag : fp[x] \in BOOLEAN
    /\ Range(fp.buf) \subseteq Bytes /\ Len(fp.buf) <= Lrecl + 1 /\ fp.upto \in 0 .. Lrecl + 1
    /\ fp.ungetch \in Bytes \cup {None} /\ fp.stale \in Bytes /\ fp.filepos \in Nat
    /\ dcb.mode \in {"none", "in", "updat", "out"}
    /\ dcb.at \in 0 .. Len(ds) /\ {dcb.next, dcb.kept} \subseteq 0 .. Len(dcb.data)
    /\ sick \in BOOLEAN /\ abend \in BOOLEAN

(* The position ftell() returns is the place in the data "counted the way  *)
(* the data would be read back" (std-stdio.typ): a reading stream has      *)
(* before it exactly the bytes from there on, whether they are still on    *)
(* the disk, in the block or in the record in the buffer, and a writing    *)
(* stream is at the end.  filepos is kept by __fgetc(), __fputc(),         *)
(* flushrec(), __fpupc(), skipto() and both seeks.                         *)
PositionTracks ==
    Positioned /\ ~sick =>
        /\ fp.filepos <= Len(View)
        /\ IF fp.dcbout THEN fp.filepos = Len(View)
           ELSE Unread = SubSeq(View, fp.filepos + 1, Len(View))

(* Reading, seeking and flushing never change what the data set will hold, *)
(* however often the DCB is turned round, reopened or rewritten on the way *)
(* (__fpswt(), __reopen(), @@ATROUT): at most a half-written line is ended.*)
ReadsChangeNothing ==
    [][/\ ~sick'
       /\ call'.op \notin {"fputc", "fputs", "fopen", "fclose"}
       => NewView \in {View, Ended}]_vars

(* A byte that fputc() accepted is the byte that will be read back at that *)
(* place, and no byte before the old position or behind the new one has    *)
(* changed; "a+" changes nothing that was there.  The byte may have gone   *)
(* to the record buffer, over a byte in place, or to the end after a turn. *)
WriteLands ==
    [][/\ call'.op = "fputc" /\ call'.ok /\ ~sick' /\ Positioned
       => LET p == fp'.filepos
              old == View
              new == NewView
          IN  /\ p \in 1 .. Len(new) /\ new[p] = call'.arg
              /\ Len(new) = (IF p > Len(old) THEN p ELSE Len(old))
              /\ \A i \in 1 .. Len(old) :
                    fp.append \/ i <= fp.filepos \/ i > p => new[i] = old[i]]_vars

(* fgetc() returns the byte that stands at the position, or the one pushed *)
(* back; it returns EOF only at the end of the data.  Not so when the read *)
(* itself meets the failure: __fpswt() returns 0 although the reading on   *)
(* to the position met a bad block, and the byte behind the block is       *)
(* returned, with the error indicator on.                                  *)
ReadsAreTrue ==
    [][/\ call'.op = "fgetc" /\ ~sick /\ Positioned /\ fp.read
       => IF call'.ok
          THEN IF sick' THEN fp'.err
               ELSE IF fp.ungetch # None /\ ~fp.dcbout THEN call'.arg = fp.ungetch
               ELSE fp.filepos < Len(Ended) /\ call'.arg = Ended[fp.filepos + 1]
          ELSE sick' \/ fp.filepos = Len(Ended)]_vars

(* fclose() that returns 0 on a stream no call has failed on leaves every  *)
(* byte on the disk: what could not be written is reported by some call,   *)
(* the last block, which only CLOSE writes, included (#182, #228).         *)
ClosedIsWritten ==
    [][/\ call'.op = "fclose" /\ call'.ok /\ ~sick /\ fp.open
       => AsBytes(Records(ds'), fp.binary) = Ended]_vars

(* fseek() that returns 0 is at the byte it was asked for, with the        *)
(* end-of-file indicator clear and the pushed-back character gone.         *)
SeekLands ==
    [][/\ call'.op = "fseek" /\ call'.ok /\ Positioned /\ ~sick'
       => /\ fp'.filepos = SeekTarget(call'.arg)
          /\ ~fp'.eof /\ fp'.ungetch = None]_vars

(* A stream that can read reaches every byte of the data set: fseek() does *)
(* not fail for a position from the start up to the end.                   *)
SeekReaches ==
    [][/\ call'.op = "fseek" /\ ~sick' /\ Positioned /\ fp.read
       /\ SeekTarget(call'.arg) \in 0 .. Len(Ended)
       => call'.ok]_vars

(* A stream in error stays in error until clearerr() or rewind(), ENOSPC   *)
(* only ever qualifies an error (#149), and nothing more is added to the   *)
(* data set until then: not by a write, a seek or the close.               *)
ErrorHolds ==
    [][/\ fp.used /\ call'.op \notin {"clearerr", "rewind"}
       => /\ fp.err /\ fp'.used => fp'.err
          /\ fp'.enospc => fp'.err
          /\ fp.err => Len(ds') <= Len(ds)]_vars

(* The access method is never entered without a DCB, and a record is never *)
(* read into a buffer that was not allocated: a stream whose reopen fails  *)
(* is left open or marked in error (@@fpswt.c).                            *)
NoAbend == ~abend

(* The two together: whatever fails on the way, the data set keeps its     *)
(* shape and the stream stays one that the next call can be made on.       *)
StreamOK == TypeOK /\ NoAbend

(* fseek() does what it says: it returns 0 for every position there is, and*)
(* when it does the stream is there.                                       *)
SeeksAreTrue == SeekLands /\ SeekReaches

(* What fgetc() returns stands in the data set, and no call but a write    *)
(* changes what stands there.                                              *)
ReadsAreHarmless == ReadsAreTrue /\ ReadsChangeNothing

=============================================================================
