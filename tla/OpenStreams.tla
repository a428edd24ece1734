---------------------------- MODULE OpenStreams -----------------------------
(***************************************************************************)
(* src/src/stdio: opening and closing streams, and the list of them.       *)
(*                                                                         *)
(* fopen() allocates a FILE, a DD when it is given a data set, and what    *)
(* @@AOPEN holds for it: the DCB area, the OPEN, the block buffer and the  *)
(* record area.  Each of these may be refused, and what was obtained until *)
(* then goes back through fclose().  The DCB open exit settles the record  *)
(* format from what the data set, the caller and the device say.  What a   *)
(* stream does with its records is the business of Stream.                 *)
(***************************************************************************)
EXTENDS DynAlloc
LOCAL INSTANCE SequencesExt

CONSTANTS
    MaxStreams,         \* the most streams open at a time
    Opens,              \* the calls of fopen(): name, mode, data set, options
    Standard            \* the names the standard streams are opened by

VARIABLE files          \* grtfile, the open FILEs, the standard streams

NoDdname == <<"none", 0>>
NoStream == [fp |-> NULL, ddname |-> NoDdname, dd |-> NULL, member |-> FALSE, flags |-> {}, area |-> NULL,
           open |-> NULL, abuf |-> NULL, vbs |-> NULL, buf |-> NULL, room |-> 0, type |-> "",
           spanned |-> FALSE, lrecl |-> 0, blksize |-> 0, world |-> <<>>, forced |-> <<>>]
Negative == <<"negative", 0>>   \* what @@AOPEN leaves in fp->dcb when it fails

Error(c, errno) == [c EXCEPT !.err = 1, !.errno = errno]
WithFlags(c, on, off) == [c EXCEPT !.fp.flags = (@ \cup on) \ off]
Has(c, flag) == flag \in c.fp.flags

\* The flags of a mode; + and record do not go together.
__fpmode(c, mode) ==
    LET read == mode.kind = "r" \/ mode.plus
        write == mode.kind # "r" \/ mode.plus
        bits == (IF read THEN {"READ"} ELSE {}) \cup (IF write THEN {"WRITE"} ELSE {})
                 \cup (IF mode.kind = "a" THEN {"APPEND"} ELSE {})
                 \cup (IF mode.record THEN {"RECORD"} ELSE {}) \cup (IF mode.rlse THEN {"RLSE"} ELSE {})
                 \cup (IF mode.kind = "a" /\ mode.plus THEN {"POSEND"} ELSE {})
                 \cup (IF mode.kind # "w" /\ mode.plus THEN {"EXTEND"} ELSE {})
                 \cup (IF write /\ mode.kind # "r" THEN {"DCBOUT"} ELSE {})
    IN  IF mode.record /\ mode.plus THEN [c EXCEPT !.err = 1]
        ELSE [c EXCEPT !.err = 0, !.fp.flags = bits]

----------------------------------------------------------------------------
(* The DCB open exit.  a is what the DCB has of the data set and of what   *)
(* the mode forces; filemode, lrecl and blksize are the caller's wishes.   *)

AdjustOf == [D |-> <<4, 0, -4>>, V |-> <<4, 0, -4>>, F |-> <<0, -4, 0>>, U |-> <<0, -4, 0>>]
FormatOf(a, w, filemode) ==
    IF a.type # "" THEN [type |-> a.type, blocked |-> a.blocked]
    ELSE IF w.dev = "unit" /\ filemode # 0 THEN [type |-> "U", blocked |-> FALSE]
    ELSE [type |-> <<"F", "V", "U">>[filemode + 1], blocked |-> filemode # 2]
LengthOf(a, w, type, filemode, lrecl) ==
    IF a.lrecl # 0 THEN a.lrecl
    ELSE IF w.dev = "unit" THEN w.max
    ELSE (IF lrecl # 0 THEN lrecl ELSE w.max) + AdjustOf[type][filemode + 1]
SizeOf(a, w, blksize) ==
    LET wish == IF a.blksize # 0 THEN a.blksize ELSE IF blksize # 0 THEN blksize ELSE w.max
    IN  IF wish > w.max THEN w.max ELSE wish

\* A fault: a block shorter than a record is not made longer.
Fitted_Short(f, len, size) ==
    CASE f.type = "U" -> [type |-> "U", blocked |-> f.blocked, spanned |-> FALSE, lrecl |-> size, blksize |-> size]
      [] f.type = "F" -> [type |-> "F", blocked |-> size \div len > 1, spanned |-> FALSE, lrecl |-> len,
                          blksize |-> IF size < len THEN size ELSE (size \div len) * len]
      [] OTHER -> [type |-> f.type, blocked |-> f.blocked, spanned |-> len + 4 > size, lrecl |-> len, blksize |-> size]

Fitted(f, len, size) ==
    CASE f.type = "U" -> [type |-> "U", blocked |-> f.blocked, spanned |-> FALSE, lrecl |-> size, blksize |-> size]
      [] f.type = "F" -> [type |-> "F", blocked |-> f.blocked /\ size \div len > 1, spanned |-> FALSE, lrecl |-> len,
                          blksize |-> IF size < len THEN len ELSE (size \div len) * len]
      [] OTHER -> [type |-> f.type, blocked |-> f.blocked, spanned |-> len + 4 > size, lrecl |-> len, blksize |-> size]
Formatted(f, a, w, filemode, lrecl, blksize) ==
    Fitted(f, LengthOf(a, w, f.type, filemode, lrecl), SizeOf(a, w, blksize))
OCDCBEX(a, w, filemode, lrecl, blksize) ==
    Formatted(FormatOf(a, w, filemode), a, w, filemode, lrecl, blksize)

\* The attributes before the exit: the data set's, with the mode's over
\* them; of a directory, its own; EXCP, for large blocks on tape, has none.
Attributes(w, forced, directory, excp) ==
    IF directory THEN [type |-> "F", blocked |-> FALSE, lrecl |-> 256, blksize |-> 256]
    ELSE IF excp THEN [type |-> "U", blocked |-> FALSE, lrecl |-> 0, blksize |-> 0]
    ELSE [type |-> IF forced.recfm # <<>> THEN forced.recfm[1] ELSE w.type,
          blocked |-> IF forced.recfm # <<>> THEN "B" \in Range(forced.recfm) ELSE w.blocked,
          lrecl |-> IF forced.lrecl # 0 THEN forced.lrecl ELSE w.lrecl,
          blksize |-> IF forced.blksize # 0 THEN forced.blksize ELSE w.blksize]
ExcpSize(w) == IF w.ncp * 1024 > 65535 THEN 65535 ELSE w.ncp * 1024
Large(w) == w.dev = "tape" /\ w.ncp \in 32 .. 65
Geometry(w, o) ==
    IF Large(w)
    THEN OCDCBEX(Attributes(w, o.forced, FALSE, TRUE), [w EXCEPT !.max = ExcpSize(w)], 2, ExcpSize(w), ExcpSize(w))
    ELSE OCDCBEX(Attributes(w, o.forced, o.directory, FALSE), w, o.filemode, o.lrecl, o.blksize)

----------------------------------------------------------------------------
(* @@AOPEN.  o: mode 0 input, 1 output, 2 UPDAT, 3 EXTEND; member; the     *)
(* record format asked for.  c.rc is 0, or the negative code it answers.   *)

AopenFails(c, code) ==
    [Release(c, c.fp.area) EXCEPT !.rc = code, !.fp.area = Negative, !.fp.open = NULL, !.fp.abuf = NULL]
Failed37(o) == IF o.mode \in {1, 3} THEN -39 ELSE -37

\* The second area is refused: the first and the OPEN go back.
HaveBuffers(c) ==
    IF c.got = NULL THEN AopenFails(Release(Release(c, c.fp.abuf), c.fp.open), -12)
    ELSE [c EXCEPT !.fp.vbs = c.got, !.rc = 0]
HaveBuffer(c) ==
    IF c.got = NULL THEN AopenFails(Release(c, c.fp.open), -12)
    ELSE HaveBuffers(Obtain([c EXCEPT !.fp.abuf = c.got], "vbs"))
WithGeometry(c, g) ==
    [c EXCEPT !.fp.type = g.type, !.fp.spanned = g.spanned, !.fp.lrecl = g.lrecl, !.fp.blksize = g.blksize]

\* A member that FIND does not find.
NotFound(c, o) ==
    IF o.mode = 0 /\ o.named /\ ~c.world.found THEN AopenFails(Release(c, c.fp.open), -1024)
    ELSE HaveBuffer(Obtain(WithGeometry(c, Geometry(c.world, o)), "abuf"))
IsOpen(c, o) ==
    IF c.got = NULL THEN AopenFails(c, Failed37(o)) ELSE NotFound([c EXCEPT !.fp.open = c.got], o)
DoOpen(c, o) == IsOpen(Obtain(c, "open"), o)

\* A member is read by BPAM, its name from the call or the JCL; without one
\* the directory is read.  Writing over a directory is an abend.
Reading(c, o) ==
    IF c.world.dev # "disk" \/ ~c.world.po
    THEN IF o.member THEN AopenFails(c, Failed37(o)) ELSE DoOpen(c, [o EXCEPT !.named = FALSE])
    ELSE IF o.mode # 0 THEN AopenFails(c, Failed37(o))
    ELSE DoOpen(c, [o EXCEPT !.named = o.member \/ c.world.jclmem, !.directory = ~o.member /\ ~c.world.jclmem])
Writing(c, o) ==
    IF o.member
    THEN IF c.world.dev # "disk" \/ ~c.world.po THEN AopenFails(c, Failed37(o))
         ELSE IF o.mode = 3 THEN AopenFails(c, -45) ELSE DoOpen(c, o)
    ELSE IF c.world.jclmem THEN IF o.mode = 3 THEN AopenFails(c, -45) ELSE DoOpen(c, o)
    ELSE IF c.world.dev = "disk" /\ c.world.po THEN [AopenFails(c, -39) EXCEPT !.abend = TRUE]
    ELSE DoOpen(c, o)

\* EXTEND needs tape or disk, or is output; UPDAT needs disk.
OnDevice(c, o) ==
    IF c.world.missing THEN AopenFails(c, Failed37(o))
    ELSE IF o.mode = 2 /\ c.world.dev # "disk" THEN AopenFails(c, Failed37(o))
    ELSE IF o.mode = 3 /\ c.world.dev \notin {"disk", "tape"} THEN Writing(c, [o EXCEPT !.mode = 1])
    ELSE IF o.mode \in {1, 3} THEN Writing(c, o) ELSE Reading(c, o)
__aopen(c, o) ==
    IF c.got = NULL THEN [c EXCEPT !.rc = -12, !.fp.area = Negative]
    ELSE OnDevice([c EXCEPT !.fp.area = c.got], o)
Aopen(c, o) == __aopen(Obtain(c, "area"), o)

\* PUTLINE and GETLINE: no OPEN, one buffer, and a terminal monitor program.
TermBuffer(c) ==
    IF c.got = NULL THEN AopenFails(c, -12) ELSE [c EXCEPT !.fp.vbs = c.got, !.rc = 0]
TERMOPEN(c) ==
    IF c.got = NULL THEN [c EXCEPT !.rc = -12, !.fp.area = Negative]
    ELSE IF ~c.world.tmp THEN AopenFails([c EXCEPT !.fp.area = c.got], -37)
    ELSE TermBuffer(Obtain([c EXCEPT !.fp.area = c.got], "vbs"))

\* What @@ACLOSE gives back.
__aclose(c) ==
    [ReleaseAll(c, <<c.fp.abuf, c.fp.vbs, c.fp.open, c.fp.area>>)
        EXCEPT !.fp.abuf = NULL, !.fp.vbs = NULL, !.fp.open = NULL, !.fp.area = NULL]

----------------------------------------------------------------------------
(* __fpopen.                                                               *)

\* A reader of a spool data set has it alone, among the listed streams.
__ddbusy(c) ==
    /\ Has(c, "READ") /\ ~Has(c, "WRITE") /\ c.world.spool
    /\ \E f \in Range(Items(c)) :
          /\ f # c.fp.fp /\ f \in DOMAIN c.fps /\ c.fps[f].area # NULL
          /\ "READ" \in c.fps[f].flags /\ "WRITE" \notin c.fps[f].flags
          /\ c.fps[f].ddname = c.fp.ddname

\* recfm=, lrecl= and blksize= of the mode, for a stream opened by DD name.
dcbforce(opts) ==
    /\ opts.recfm = <<>> \/ (opts.recfm[1] \in {"F", "V", "U"} /\ ~({"A", "M"} \subseteq Range(opts.recfm))
                             /\ Range(Tail(opts.recfm)) \subseteq {"T", "B", "S", "A", "M"})
    /\ opts.lrecl \in 0 .. 32760 /\ opts.blksize \in 0 .. 32760
NoForce == [recfm |-> <<>>, lrecl |-> 0, blksize |-> 0]
Forced(c) == IF Has(c, "DDDCB") THEN c.opts ELSE NoForce

OpenMode(c) ==
    IF Has(c, "DCBOUT") THEN IF Has(c, "APPEND") \/ Has(c, "EXTEND") THEN 3 ELSE 1
    ELSE IF Has(c, "WRITE") /\ ~Has(c, "APPEND") /\ ~c.fp.member THEN 2 ELSE 0
Wish(c, mode) ==
    LET dummy == ~Has(c, "WRITE") /\ c.world.dummy
        forced == Forced(c)
        wish == CASE forced.recfm # <<>> -> IF forced.recfm[1] = "F" THEN 0 ELSE IF forced.recfm[1] = "V" THEN 1 ELSE 2
                  [] Has(c, "WRITE") -> 1
                  [] OTHER -> 0
    IN  [mode |-> mode, member |-> c.fp.member, named |-> FALSE, directory |-> FALSE, forced |-> forced,
         filemode |-> wish,
         lrecl |-> IF forced.lrecl # 0 THEN forced.lrecl
                   ELSE IF Has(c, "WRITE") THEN 136 ELSE IF dummy THEN 80 ELSE 0,
         blksize |-> IF forced.blksize # 0 THEN forced.blksize ELSE IF dummy THEN 80 ELSE 0]

RecordBytes(f) == CASE f.type = "F" -> f.lrecl [] f.type = "U" -> f.blksize [] OTHER -> f.lrecl - 4
Buffered(c, bytes) ==
    IF c.got = NULL THEN Error(c, "") ELSE [c EXCEPT !.err = 0, !.fp.buf = c.got, !.fp.room = bytes]
JfcbRead(c) ==
    IF Refused(c) THEN Error(Asked(c), "")
    ELSE IF Has(c, "RECORD") THEN [Asked(c) EXCEPT !.err = 0]
    ELSE Buffered(Obtain(Asked(c), "buf"), (IF ~Has(c, "WRITE") /\ c.world.dummy THEN 0 ELSE RecordBytes(c.fp)) + 8)

\* Reading and writing needs a disk.
ForUpdate(c) ==
    IF Has(c, "READ") /\ Has(c, "WRITE")
    THEN IF c.world.dev # "disk" THEN Error(WithFlags(__aclose(c), {}, {"OPEN"}), "EINVAL")
         ELSE JfcbRead(IF Has(c, "DCBOUT") THEN WithFlags(c, {"EXTEND"}, {}) ELSE c)
    ELSE JfcbRead(c)
Aopened(c) ==
    IF c.rc < 0 THEN Error(c, CASE c.rc = -45 -> "EOPNOTSUPP" [] c.rc = -12 -> "ENOMEM" [] OTHER -> "")
    ELSE ForUpdate(WithFlags(c, {"OPEN"}, {}))
\* UPDAT that is refused is tried again as input.
Updated(c, o) == IF o.mode = 2 /\ c.rc < 0 THEN Aopen(c, [o EXCEPT !.mode = 0]) ELSE c

\* What a failed OPEN before this one left behind in the FILE is overwritten.
Overwritten(c) ==
    [c EXCEPT !.lost = @ \cup ({c.fp.area, c.fp.open, c.fp.abuf, c.fp.vbs} \ {NULL, Negative}),
              !.fp.area = NULL, !.fp.open = NULL, !.fp.abuf = NULL, !.fp.vbs = NULL]
__fpopen(c) ==
    IF c.fp.ddname = NoDdname THEN [c EXCEPT !.err = 1]
    ELSE IF __ddbusy(c) THEN Error(c, "EBUSY")
    ELSE IF Has(c, "DDDCB") /\ ~dcbforce(c.opts) THEN Error(c, "EINVAL")
    ELSE Aopened(Updated(Aopen(Overwritten(c), Wish(c, OpenMode(c))), Wish(c, OpenMode(c))))

----------------------------------------------------------------------------
(* Allocation.  Each of these makes a list of text units, issues it and    *)
(* frees it; an error of a unit marked FALSE is overwritten by the next.   *)

U(op, v) == <<op, v, TRUE>>
If(cond, units) == IF cond THEN units ELSE <<>>
Plain(txt, len) == [txt |-> txt, len |-> len, num |-> 0, parts |-> <<>>]
Of(v, default) == IF v = NoValue THEN default ELSE v
LettersB == [txt |-> "V", len |-> 1, num |-> 0, parts |-> <<"V">>]
Number255 == [txt |-> "255", len |-> 3, num |-> 255, parts |-> <<>>]
Number4000 == [txt |-> "4000", len |-> 4, num |-> 4000, parts |-> <<>>]
PS == U("org", Plain("PS", 2))
Blocked(recfm) == "B" \in Range(recfm.parts)

SpaceUnits(sp, checked) ==
    IF sp = <<>> THEN <<>>
    ELSE <<CASE sp[1].unit.txt = "CYL" -> <<"cyl", NoValue, checked>>
             [] sp[1].unit.txt = "TRK" -> <<"trk", NoValue, checked>>
             [] OTHER -> <<"blk", sp[1].unit, checked>>,
           U("spac", sp[1].qty)>>
Rlse(c) == If(Has(c, "RLSE") /\ ~c.fp.member, <<U("rlse", NoValue)>>)

__fpdcb(al) ==
    <<U("recf", Of(al.recfm, LettersB)), U("lrec", Of(al.lrecl, Number255))>>
    \o If(Blocked(Of(al.recfm, LettersB)) /\ al.blksize # NoValue, <<U("bksz", al.blksize)>>)
__fpshr(c, dsn) == [nomnt |-> FALSE, units |-> <<U("rddn", NoValue), U("dsn", dsn), U("shr", NoValue)>>]
__fpold(c, dsn) ==
    [nomnt |-> FALSE, units |-> <<U("rddn", NoValue), U("dsn", dsn), U("old", NoValue)>> \o Rlse(c)]
__fpnew(c, dsn, al) ==
    [nomnt |-> (al.unit.len > 0 \/ al.volser.len > 0) /\ ~al.mount,
     units |-> <<U("rddn", NoValue), U("dsn", dsn), U("new", NoValue), U("cat", NoValue), PS>>
               \o __fpdcb(al) \o SpaceUnits(al.space, FALSE) \o Rlse(c)
               \o If(al.unit.len > 0, <<U("unit", al.unit)>>) \o If(al.volser.len > 0, <<U("vols", al.volser)>>)]
__fptmp(c, dsn, al) ==
    [nomnt |-> FALSE,
     units |-> <<U("rddn", NoValue), U("dsn", dsn), U("new", NoValue), U("cat", NoValue), PS>>
               \o __fpdcb(al) \o SpaceUnits(al.space, TRUE) \o <<U("unit", Plain("VIO", 3))>>]
TerminalUnits(al) ==
    <<U("term", NoValue), U("perm", NoValue), U("shr", NoValue), PS,
      U("recf", Of(al.recfm, LettersB)), U("lrec", Of(al.lrecl, Number4000))>>
    \o If(Blocked(Of(al.recfm, LettersB)) /\ al.blksize # NoValue, <<U("bksz", al.blksize)>>)
__fpstar(al, tso) ==
    [nomnt |-> FALSE,
     units |-> <<U("rddn", NoValue)>>
               \o IF tso THEN TerminalUnits(al) ELSE <<U("syso", al.class), PS>> \o __fpdcb(al)]
__irallc == [nomnt |-> FALSE,
             units |-> <<U("rddn", NoValue), U("syso", NoValue), U("pgm", Plain("INTRDR", 6)), U("clos", NoValue)>>]

\* fopen()'s order: shared to read; old or new to write, a temporary data
\* set new, a member shared; __fpopn() alone does not create.
dsalloc(c, name, al) ==
    LET mustexist == Has(c, "READ") /\ c.kind = "r"
    IN  IF Has(c, "READ") /\ ~Has(c, "WRITE") THEN <<__fpshr(c, name.dsn)>>
        ELSE If(name.temp /\ ~mustexist, <<__fptmp(c, name.dsn, al)>>)
             \o If(name.member, <<__fpshr(c, name.dsn)>>) \o <<__fpold(c, name.dsn)>>
             \o If(~mustexist, <<__fpnew(c, name.dsn, al)>>)
Tries(c, q) ==
    IF q.name.kind = "star" THEN <<__fpstar(q.al, q.tso)>>
    ELSE IF q.create THEN dsalloc(c, q.name, q.al)
    ELSE IF Has(c, "READ") /\ ~Has(c, "WRITE") THEN <<__fpshr(c, q.name.dsn)>> ELSE <<__fpold(c, q.name.dsn)>>

AddStep(c, u) ==
    IF c.err # 0 THEN c
    ELSE IF u[3] THEN Build(c, u[1], u[2]) ELSE [Build(c, u[1], u[2]) EXCEPT !.err = 0]
TryOne(c, a) ==
    IF c.dd # NULL THEN c
    ELSE [__frtx9a(Issued(FoldLeft(AddStep, [Fresh(c) EXCEPT !.err = 0], a.units), "AL", a.nomnt, NULL))
             EXCEPT !.array = c.array]
Dynamic(c) ==
    IF c.dd = NULL THEN c
    ELSE WithFlags([c EXCEPT !.err = 0, !.fp.dd = c.dd, !.fp.ddname = c.dd, !.world.missing = FALSE], {"DYNAMIC"}, {})
Allocate(c, tries) == Dynamic(FoldLeft(TryOne, [c EXCEPT !.dd = NULL, !.err = 1], tries))

----------------------------------------------------------------------------
(* fclose().                                                               *)

\* A DD that is not unallocated stays.
Kept(c, dd) == IF dd \in c.held THEN [c EXCEPT !.lost = @ \cup {dd}] ELSE c
__fpfree(c) ==
    IF ~Has(c, "DYNAMIC") THEN c
    ELSE Kept(__dsfree(c, Plain("dd", 8), c.fp.dd), c.fp.dd)

\* A fault: the stream stays in the list.
Unlisted_Stays(c) == c
Unlisted(c) ==
    LET at == {i \in 1 .. arraycount(c) : c.array.slots[i] = c.fp.fp}
    IN  IF at = {} THEN c ELSE arraydel(c, CHOOSE i \in at : \A k \in at : k =< i)
__fpterm(c) == Release(Unlisted(__fpfree(Release(c, c.fp.buf))), c.fp.fp)
fclose(c) == __fpterm(IF Has(c, "OPEN") THEN __aclose(c) ELSE c)

----------------------------------------------------------------------------
(* __fpopn.  q: the name, the mode, the data set behind it.                *)

NewFile(c) == [Obtain(c, "fp") EXCEPT !.fp = NoStream, !.err = 1]
FileGot(c) == [c EXCEPT !.fp.fp = c.got]

\* PUTLINE and GETLINE.
LineBuffer(c) == IF c.got = NULL THEN Error(c, "ENOMEM") ELSE [c EXCEPT !.err = 0, !.fp.buf = c.got]
LineOpen(c, on, len) ==
    IF c.rc < 0 THEN Error(c, IF c.rc = -12 THEN "ENOMEM" ELSE "ENODEV")
    ELSE LineBuffer(Obtain(WithFlags([c EXCEPT !.fp.type = "V", !.fp.lrecl = len, !.fp.blksize = len,
                                               !.fp.room = len + 4, !.fp.ddname = <<"line", len>>], on, {}), "buf"))
__fpput(c) ==
    IF Has(c, "READ") \/ ~Has(c, "WRITE") THEN Error(c, "EINVAL")
    ELSE LineOpen(TERMOPEN(Obtain(c, "area")), {"OPEN", "DCBOUT", "LINE"}, 256)
__fpget(c) ==
    IF ~Has(c, "READ") \/ Has(c, "WRITE") THEN Error(c, "EINVAL")
    ELSE LineOpen(TERMOPEN(Obtain(c, "area")), {"OPEN", "LINE"}, 1024)

\* The list may refuse the stream, which is then open and not in it.
AddedTo(c, fp) ==
    [c EXCEPT !.err = 0, !.unlisted = IF fp \in Range(Items(c)) THEN @ ELSE @ \cup {fp}]
Enlisted(c) == AddedTo(arrayadd(c, c.fp.fp), c.fp.fp)

\* Adding to a member that exists is not supported: it is looked for first.
ProbeClosed(c) ==
    IF c.err # 0 THEN [fclose(c) EXCEPT !.rc = 1]
    ELSE [fclose(Enlisted(c)) EXCEPT !.rc = 0, !.unlisted = c.unlisted]
ProbeOpen(c, outer) ==
    IF c.got = NULL THEN [c EXCEPT !.rc = 1]
    ELSE ProbeClosed(__fpopen([FileGot(c) EXCEPT !.fp.flags = {"READ", "DDDCB"}, !.fp.member = TRUE,
                                                 !.fp.ddname = outer.ddname, !.opts = NoForce]))
Probed(c, fp, opts) ==
    IF c.rc = 0 THEN Error([c EXCEPT !.fp = fp, !.opts = opts], "EOPNOTSUPP")
    ELSE WithFlags([c EXCEPT !.fp = fp, !.opts = opts, !.err = 0, !.errno = ""], {}, {"APPEND", "POSEND", "EXTEND"})
appmem(c) ==
    IF Has(c, "APPEND") /\ c.fp.member THEN Probed(ProbeOpen(NewFile(c), c.fp), c.fp, c.opts) ELSE c

\* a+ : to the end by reading, then back to writing.
Closed(c) == [IF Has(c, "OPEN") THEN __aclose(c) ELSE c EXCEPT !.fp.area = NULL]
redcb(c, out) ==
    __fpopen(WithFlags(WithFlags([Release(Closed(c), c.fp.buf) EXCEPT !.fp.buf = NULL], {}, {"OPEN", "DCBOUT"}),
                       IF out THEN {"DCBOUT"} ELSE {}, {}))
Back(c) == IF c.err # 0 THEN [redcb(c, FALSE) EXCEPT !.err = 1] ELSE c
ToWrite(c) == IF c.err # 0 THEN c ELSE Back(redcb(WithFlags(c, {}, {"POSEND"}), TRUE))
PosEnd(c) == IF c.err = 0 /\ Has(c, "POSEND") THEN ToWrite(redcb(c, FALSE)) ELSE c
Appendable(c) == IF c.err # 0 THEN c ELSE PosEnd(__fpopen(c))
doopen(c) == IF c.err # 0 \/ c.done THEN c ELSE Appendable(appmem(c))

\* *name is that DD, or else the terminal or a SYSOUT data set.
StarOpened(c, q) == IF c.err = 0 THEN [c EXCEPT !.done = TRUE] ELSE Allocate(c, Tries(c, q))
Star(c, q) == StarOpened(__fpopen(c), q)
ByName(c, q) == [c EXCEPT !.fp.ddname = q.name.ddname, !.fp.member = q.name.member]
Located(c, q) ==
    CASE q.name.kind = "dd" -> WithFlags(ByName(c, q), {"DDDCB"}, {})
      [] q.name.kind = "putline" -> [__fpput(c) EXCEPT !.done = TRUE]
      [] q.name.kind = "getline" -> [__fpget(c) EXCEPT !.done = TRUE]
      [] q.name.kind = "star" -> Star(ByName(c, q), q)
      [] OTHER -> Allocate(ByName(c, q), Tries(ByName(c, q), q))
Moded(c, q) == IF c.err # 0 THEN c ELSE doopen(Located(c, q))
Began(c, q) == IF c.got = NULL THEN c ELSE Moded(__fpmode(FileGot(c), q.mode), q)

\* Whatever failed, fclose() gives back what there is.
Finished(c) ==
    IF c.err # 0
    THEN [IF c.fp.fp = NULL THEN c ELSE fclose(c) EXCEPT !.err = 1, !.fp = NoStream, !.errno = c.errno]
    ELSE [Enlisted(c) EXCEPT !.fps = (c.fp.fp :> [c.fp EXCEPT !.world = c.world, !.forced = Forced(c)]) @@ c.fps]
NamedWell(c, q) == IF q.name.kind = "null" THEN c ELSE Began(NewFile(c), q)
__fpopn(c, q) ==
    Finished(NamedWell([c EXCEPT !.err = 1, !.errno = "", !.done = FALSE, !.world = q.world, !.kind = q.mode.kind,
                                 !.opts = q.mode.opts, !.fp = NoStream], q))

----------------------------------------------------------------------------
(* The callers.                                                            *)

NoStreams == [grtfile |-> NoArray, fps |-> <<>>, unlisted |-> {}, lost |-> {}, tried |-> {},
              std |-> [w \in {"in", "out", "err"} |-> NULL]]
StreamInit == files = NoStreams
FileCall(fault) ==
    Begin(fault) @@ [array |-> files.grtfile, fps |-> files.fps, unlisted |-> files.unlisted, err |-> 0,
                     errno |-> "", units |-> <<>>, lost |-> {}, sent |-> <<>>, dd |-> NULL,
                     strtok |-> "caller's", fp |-> NoStream, rc |-> 0, abend |-> FALSE, done |-> FALSE,
                     world |-> <<>>, kind |-> "", opts |-> NoForce]
\* An abend ends the program, and what it held goes with it.
FileEnd(c, op, std, tried) ==
    IF c.abend THEN files' = NoStreams /\ ledger' = [held |-> {}, twice |-> c.twice] /\ result' = [op |-> "abend"]
    ELSE /\ files' = [grtfile |-> c.array, fps |-> c.fps, unlisted |-> c.unlisted, lost |-> files.lost \cup c.lost,
                      tried |-> tried, std |-> std]
         /\ End(c, [op |-> op, err |-> c.err, errno |-> c.errno])

\* The names of a request that are tried one after the other.
FirstOf(c, qs) == FoldLeft(LAMBDA t, q : IF t.fp.fp # NULL THEN t ELSE __fpopn(t, q), c, qs)

Fopen ==
    /\ Ready /\ files.lost = {} /\ Cardinality(DOMAIN files.fps) < MaxStreams
    /\ \E q \in Opens : \E fault \in IF q.faults /\ files.fps = <<>> THEN OneFault(MaxFault) ELSE {{}} :
          /\ files.fps # <<>> => q.again
          /\ FileEnd(FirstOf(FileCall(fault), <<q>>), "fopen", files.std, files.tried)

\* __stdlz: SYSIN, SYSPRINT or SYSTERM, or else the null file, once each.
Stdlz(c, which) ==
    FileEnd(c, "stdlz", [files.std EXCEPT ![which] = c.fp.fp], files.tried \cup {which})
__stdlz ==
    /\ Ready /\ files.lost = {} /\ Cardinality(DOMAIN files.fps) < MaxStreams
    /\ \E which \in DOMAIN files.std : \E qs \in Standard[which] :
       \E fault \in IF files.fps = <<>> THEN OneFault(MaxFault) ELSE {{}} :
          /\ files.std[which] = NULL /\ which \notin files.tried
          /\ Stdlz(FirstOf(FileCall(fault), qs), which)

\* The caller closes a stream that is not a standard one.
Fclose ==
    /\ Ready
    /\ \E f \in DOMAIN files.fps \ Range(files.std) : \E fault \in IF files.lost = {} /\ "DYNAMIC" \in files.fps[f].flags THEN OneFault(6) ELSE {{}} :
          LET c == fclose([FileCall(fault) EXCEPT !.fp = files.fps[f]])
          IN  FileEnd([c EXCEPT !.fps = [g \in DOMAIN files.fps \ {f} |-> files.fps[g]], !.unlisted = @ \ {f},
                                !.err = 0, !.fp = NoStream], "fclose", files.std, files.tried)

\* fflush(NULL) goes through a copy of the list, by streams still in it.
flushall(c, copy) ==
    IF arraycount(c) = 0 \/ copy = NULL THEN <<>>
    ELSE SelectSeq(Items(c), LAMBDA f : f \in Range(Items(c)) /\ "WRITE" \in c.fps[f].flags)
Flushed(c) ==
    End(Release(c, c.got), [op |-> "flushall", err |-> IF arraycount(c) # 0 /\ c.got = NULL THEN -1 ELSE 0,
                            flushed |-> flushall(c, c.got)])
Fflush ==
    /\ Ready /\ UNCHANGED files
    /\ \E fault \in OneFault(1) :
          LET c == FileCall(fault) IN Flushed(IF arraycount(c) = 0 THEN c ELSE Obtain(c, "copy"))

StreamNext ==
    \/ Fopen \/ __stdlz \/ Fclose \/ Fflush
    \/ See /\ UNCHANGED files

----------------------------------------------------------------------------
Holdings(f) == {f.fp, f.dd, f.area, f.open, f.abuf, f.vbs, f.buf}
StreamOwns ==
    (files.lost \cup {files.grtfile.block} \cup UNION {Holdings(files.fps[f]) : f \in DOMAIN files.fps}) \ {NULL}

\* A stream that fopen() returned is whole and listed, and its geometry is
\* one it can do I/O with: whatever was refused on the way, it has its DCB,
\* its buffers and, if it was allocated for it, its DD; the list has every
\* stream but those it could not take, once; two of its readers never share
\* a spool data set; a block is whole records, an unspanned record fits in
\* one, a record fits in the stream's buffer, and what the data set and the
\* mode say of the record format is kept.
StreamsAreWhole ==
    /\ DOMAIN files.fps \ files.unlisted = Range(Items([array |-> files.grtfile]))
    /\ Len(Items([array |-> files.grtfile])) = Cardinality(DOMAIN files.fps \ files.unlisted)
    /\ \A f \in DOMAIN files.fps :
          LET s == files.fps[f]
              line == "LINE" \in s.flags
          IN  /\ s.fp = f /\ s.area # NULL /\ s.vbs # NULL /\ (line \/ {s.open, s.abuf} \cap {NULL} = {})
              /\ (s.dd # NULL) = ("DYNAMIC" \in s.flags) /\ "POSEND" \notin s.flags
              /\ ("RECORD" \in s.flags /\ ~line) # (s.buf # NULL)
              /\ \/ line
                 \/ /\ CASE s.type = "F" -> s.blksize % s.lrecl = 0
                         [] s.type = "U" -> s.lrecl = s.blksize
                         [] OTHER -> s.spanned \/ s.lrecl + 4 =< s.blksize
                    /\ s.blksize =< s.world.max \/ s.lrecl = s.blksize
                    /\ s.buf = NULL \/ s.world.dummy \/ s.room >= RecordBytes(s) + 8
                    /\ s.forced.recfm # <<>> => s.type = s.forced.recfm[1] \/ Large(s.world)
                    /\ s.forced.lrecl # 0 => s.lrecl = s.forced.lrecl \/ s.type = "U"
                    /\ s.world.po \/ Large(s.world) \/ s.forced # NoForce \/ s.world.type \in {"", s.type}
    /\ \A f, g \in DOMAIN files.fps \ files.unlisted :
          LET s == files.fps[f]
              t == files.fps[g]
          IN  f # g /\ s.ddname = t.ddname /\ s.world.spool => "WRITE" \in s.flags \cup t.flags
    /\ result.op = "flushall" /\ result.err = 0 =>
          Range(result.flushed) = {f \in DOMAIN files.fps \ files.unlisted : "WRITE" \in files.fps[f].flags}
    /\ \A w \in DOMAIN files.std : files.std[w] # NULL => w \in files.tried /\ files.std[w] \in DOMAIN files.fps
============================================================================
