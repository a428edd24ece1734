------------------------------ MODULE DynAlloc ------------------------------
(***************************************************************************)
(* src/src/mvs/dynalloc and src/src/dynit: requests to SVC 99.             *)
(*                                                                         *)
(* The __tx functions append text units to the caller's array; __dsalc and *)
(* __dsfree build an array of their own, issue the request and free it.    *)
(* dynalloc and dynfree build theirs in one structure on the stack.  A     *)
(* value is a record of its text, its length and what atoi makes of it; a  *)
(* text unit is its key, the length of its value and the value, a text or  *)
(* a number cut to that many bytes.                                        *)
(***************************************************************************)
EXTENDS Array
LOCAL INSTANCE SequencesExt
LOCAL INSTANCE FiniteSetsExt

CONSTANTS
    MaxUnits,           \* the longest list a caller of __tx builds
    MaxLost,            \* the most units that are lost in a behaviour
    DYNRQ_TU,           \* 48: text unit pointers of a DYNRQ
    DYNRQ_BUF,          \* 640: its bytes for the library's own units
    Values,             \* the values tried: simple ones,
    Names,              \* data sets and members, nodes and users,
    Spaces,             \* quantities,
    Volumes,            \* lists of volumes,
    Allocations,        \* options of __dsalc
    Dyns                \* and structures __dyn_t

VARIABLE dyn            \* the caller's array, the units no array took, the DDs

NoValue == [txt |-> "NULL", len |-> 0, num |-> 0, parts |-> <<>>]

----------------------------------------------------------------------------
(* Text units.                                                             *)

Key(key) == [key |-> key, size |-> 0, val |-> 0]
Byte(key, val) == [key |-> key, size |-> 1, val |-> val]
Text(key, v) == [key |-> key, size |-> v.len, val |-> v.txt]
Num(key, size, num) == [key |-> key, size |-> size, val |-> num % (256 ^ size)]

\* NewTXT99: c.got is the block, or NULL.
__nwtx99(c, unit) == Obtain(c, "unit")

\* __nwtx9a and __nwtx9s: several values in one unit.
__nwtx9a(c, unit) == Obtain(c, "unit")

\* The unit is added; one that cannot be added is lost.
Listed(c, unit) == [c EXCEPT !.units = Append(@, unit)]
AddOrLose(c, tu, unit) == IF c.err # 0 THEN [c EXCEPT !.lost = @ \cup {tu}] ELSE Listed(c, unit)
AddNew(c, unit) ==
    IF c.got = NULL THEN [c EXCEPT !.err = 1] ELSE AddOrLose(arrayadd(c, c.got), c.got, unit)
Add(c, unit) == AddNew(__nwtx99(c, unit), unit)

\* The unit is added, or freed if it cannot be.
AddOrFree(c, tu, unit) == IF c.err # 0 THEN Release(c, tu) ELSE Listed(c, unit)
AddNewOwned(c, unit) ==
    IF c.got = NULL THEN [c EXCEPT !.err = 1] ELSE AddOrFree(arrayadd(c, c.got), c.got, unit)
AddOwned(c, unit) == AddNewOwned(__nwtx99(c, unit), unit)

Bad(c) == [c EXCEPT !.err = 1]
AddIf(c, ok, unit) == IF ok THEN Add(c, unit) ELSE Bad(c)
Capped(num, max) == IF num > max THEN max ELSE num
\* The entry of a table that a value names: the first with that name, where
\* memcmp() compares it also the first of which it is an abbreviation.
Abbreviates(txt, name) ==
    txt = name \/ <<txt, name>> \in {<<"D", "DYNAMIC">>, <<"D", "DOUBLE">>, <<"E", "EXCHANGE">>,
                                      <<"C", "COMP">>, <<"E", "ET">>, <<"N", "NOCOMP">>,
                                      <<"SU", "SUL">>}
Named(c, v, key, size, table) ==
    LET hits == {i \in DOMAIN table : Abbreviates(v.txt, table[i][1])}
        hit == CHOOSE i \in hits : \A k \in hits : i =< k
    IN  IF hits = {} THEN Bad(c) ELSE Add(c, Num(key, size, table[hit][2]))

\* Switches without a value.
__txdmy(c, v) == Add(c, Key("DUMMY"))
__txperm(c, v) == Add(c, Key("PERMA"))
__txterm(c, v) == Add(c, Key("TERM"))
__txunal(c, v) == Add(c, Key("UNALC"))
__txcyl(c, v) == Add(c, Key("CYL"))
__txtrk(c, v) == Add(c, Key("TRK"))
__txhold(c, v) == Add(c, Key("SHOLD"))
__txpara(c, v) == Add(c, Key("PARAL"))
__txpriv(c, v) == Add(c, Key("PRIVT"))
__txprot(c, v) == Add(c, Key("PROT"))
__txrlse(c, v) == Add(c, Key("RLSE"))
__txrnd(c, v) == Add(c, Key("ROUND"))
__txclos(c, v) == AddOwned(c, Key("CLOSE"))
__txinpu(c, v) == Add(c, Byte("INOUT", 128))
__txoutp(c, v) == Add(c, Byte("INOUT", 64))

\* Status and dispositions.
__txnew(c, v) == Add(c, Byte("STATS", 4))
__txold(c, v) == Add(c, Byte("STATS", 1))
__txmod(c, v) == Add(c, Byte("STATS", 2))
__txshr(c, v) == Add(c, Byte("STATS", 8))
__txucat(c, v) == Add(c, Byte("NDISP", 1))
__txcat(c, v) == Add(c, Byte("NDISP", 2))
__txdel(c, v) == Add(c, Byte("NDISP", 4))
__txkeep(c, v) == Add(c, Byte("NDISP", 8))
__txauca(c, v) == Add(c, Byte("CDISP", 1))
__txacat(c, v) == Add(c, Byte("CDISP", 2))
__txadel(c, v) == Add(c, Byte("CDISP", 4))
__txakee(c, v) == Add(c, Byte("CDISP", 8))

\* Numbers.
__txbksz(c, v) == AddIf(c, v.num > 0, Num("BLKSZ", 2, Capped(v.num, 32760)))
__txbufl(c, v) == AddIf(c, v.num > 0, Num("BUFL", 2, Capped(v.num, 32760)))
__txlmct(c, v) == AddIf(c, v.num > 0, Num("LIMCT", 3, Capped(v.num, 32760)))
__txbufn(c, v) == AddIf(c, v.num > 0, Num("BUFNO", 1, Capped(v.num, 255)))
__txblk(c, v) == AddIf(c, v.num # 0, Num("BLKLN", 3, v.num))
__txdir(c, v) == AddIf(c, v.num # 0, Num("DIR", 3, v.num))
__txcopy(c, v) == AddIf(c, v.num \in 1 .. 255, Num("COPYS", 1, v.num))
__txncp(c, v) == AddIf(c, v.num \in 1 .. 255, Num("NCP", 1, v.num))
__txretp(c, v) == AddIf(c, v.num \in 1 .. 93000, Num("RETPD", 3, v.num))
__txseq(c, v) == AddIf(c, v.num \in 1 .. 9999, Num("DSSEQ", 2, v.num))
__txvlct(c, v) == AddIf(c, v.num \in 1 .. 255, Num("VLCNT", 1, v.num))
__txvseq(c, v) == AddIf(c, v.num \in 1 .. 255, Num("VLSEQ", 2, v.num))
__txkeyl(c, v) == AddIf(c, v.num \in 0 .. 255, Num("KYLEN", 1, v.num))
__txunct(c, v) == AddIf(c, v.num > 0, Num("UNCNT", 1, v.num))
__txbufo(c, v) ==
    LET len == IF v.txt = "L" THEN 128 ELSE v.num
    IN  AddIf(c, len \in (0 .. 99) \cup {128}, Num("BUFOF", 1, len))
__txlrec(c, v) ==
    LET len == IF v.txt = "X" THEN 32768
               ELSE IF v.txt = "K" THEN Capped(v.num * 1024, 32760) ELSE Capped(v.num, 32760)
    IN  AddIf(c, v # NoValue, Num("LRECL", 2, len))

\* Texts.
__txddn(c, v) == AddIf(c, v # NoValue, Text("DDNAM", v))
__txrddn(c, v) == Add(c, [key |-> "RTDDN", size |-> 8, val |-> 0])
__txunit(c, v) == AddIf(c, v.len > 0, Text("UNIT", v))
__txexpd(c, v) == AddIf(c, v.len = 5, Text("EXPDT", v))
__txform(c, v) == AddIf(c, v.len \in 1 .. 4, Text("SFMNO", v))
__txpgm(c, v) == AddIf(c, v.len \in 1 .. 8, Text("SPGNM", v))
__txdcbd(c, v) == IF v.len \in 1 .. 44 THEN AddOwned(c, Text("DCBDS", v)) ELSE Bad(c)
__txsyso(c, v) ==
    Add(c, IF v = NoValue THEN Key("SYSOU") ELSE [key |-> "SYSOU", size |-> 1, val |-> v.txt])
__txfcb(c, v) ==
    IF v.len = 0 THEN Bad(c)
    ELSE Add(c, CASE v.txt = "ALIGN" -> Byte("FCBAV", 8)
                  [] v.txt = "VERIFY" -> Byte("FCBAV", 4)
                  [] OTHER -> Text("FCBIM", v))
__txucs(c, v) ==
    IF v.len = 0 THEN Bad(c)
    ELSE Add(c, CASE v.txt = "FOLD" -> Key("UFOLD")
                  [] v.txt = "VERIFY" -> Key("UVRFY")
                  [] OTHER -> Text("UCS", v))

\* Tables.
__txrecf(c, v) ==        \* the bits of all its letters
    LET bits(letter) == CASE letter = "F" -> {128} [] letter = "V" -> {64}
                          [] letter = "U" -> {128, 64} [] letter \in {"D", "T"} -> {32}
                          [] letter = "B" -> {16} [] letter = "S" -> {8}
                          [] letter \in {"A", "G"} -> {4} [] letter \in {"M", "R"} -> {2}
                          [] OTHER -> {}
        type == SumSet(UNION {bits(v.parts[i]) : i \in DOMAIN v.parts})
    IN  AddIf(c, type # 0, Byte("RECFM", type))
__txorg(c, v) ==
    Named(c, v, "DSORG", 2, <<<<"CQ", 2048>>, <<"CX", 4096>>, <<"DA", 8192>>, <<"DAU", 8448>>,
        <<"GS", 128>>, <<"MQ", 1024>>, <<"PO", 512>>, <<"POU", 768>>, <<"PS", 16384>>,
        <<"PSU", 16640>>, <<"TCAM", 4>>, <<"3705", 4>>, <<"TQ", 32>>, <<"TX", 64>>, <<"VSAM", 8>>>>)
__txlabe(c, v) ==
    IF v.len =< 1 THEN Bad(c)
    ELSE Named(c, v, "LABEL", 1, <<<<"NL", 1>>, <<"SL", 2>>, <<"NSL", 4>>, <<"SUL", 10>>,
                                   <<"BLP", 16>>, <<"LTM", 33>>, <<"AL", 64>>, <<"AUL", 72>>>>)
__txtrtc(c, v) ==
    Named(c, v, "TRTCH", 1, <<<<"C", 19>>, <<"COMP", 8>>, <<"E", 35>>, <<"ET", 43>>,
                              <<"NOCOMP", 4>>, <<"T", 59>>>>)
__txerop(c, v) ==
    Named(c, v, "EROPT", 1, <<<<"BSAM", 16>>, <<"TEST", 16>>, <<"ABEND", 32>>, <<"SKIP", 64>>,
                              <<"SKP", 64>>, <<"ACCEPT", 128>>>>)
__txbfte(c, v) ==
    Named(c, v, "BFTEK", 1, <<<<"DYNAMIC", 8>>, <<"EXCHANGE", 16>>, <<"RECORD", 32>>,
                              <<"SIMPLE", 64>>, <<"AREA", 96>>>>)
__txbfal(c, v) == Named(c, v, "BFALN", 1, <<<<"FULL", 1>>, <<"DOUBLE", 2>>>>)
__txden(c, v) ==
    Named(c, v, "DEN", 1, <<<<"200", 3>>, <<"556", 67>>, <<"800", 131>>, <<"1600", 195>>,
                            <<"6250", 211>>>>)

\* Several units.  A name is read as <<data set, member>>, <<node, user>> or
\* a list of volumes or quantities in v.parts.
Member(c, member) ==
    IF member = NoValue THEN [c EXCEPT !.err = 0] ELSE AddOwned(c, Text("MEMBR", member))
DataSet(c, v) == IF c.err # 0 THEN Bad(c) ELSE AddOwned(c, Text("DSNAM", v))
__txdsn(c, v) ==
    IF v = NoValue \/ v.len >= 80 THEN Bad(c) ELSE DataSet(Member(c, v.parts[2]), v.parts[1])

Node(c, v) == IF c.err # 0 THEN c ELSE Add(c, Text("SUSER", v))
__txdest(c, v) ==
    IF v = NoValue \/ (v.parts[2] # NoValue /\ v.len >= 40) THEN Bad(c)
    ELSE IF v.parts[2] = NoValue THEN Add(c, Text("SUSER", v))
    ELSE Node(Add(c, Text("USRID", v.parts[2])), v.parts[1])

\* The error of the secondary quantity is forgotten when a directory follows.
Directory(c, v) == IF c.err = 1 \/ v.num = 0 THEN c ELSE Add(c, Num("DIR", 3, v.num))
Secondary(c, v) ==
    IF c.err # 0 THEN c ELSE Directory(Add(c, Num("SECND", 3, v.parts[2].num)), v.parts[3])
Quantities(c, v) ==
    IF v.len = 0 \/ c.got = NULL THEN Release(Bad(c), c.got)
    ELSE Release(Secondary(Add(c, Num("PRIME", 3, v.parts[1].num)), v), c.got)
__txspac(c, v) == Quantities(Obtain(c, "buffer"), v)

\* tmp, the array of the volume names, and buf are freed either way.  A
\* volume that did not fit in tmp is left out without an error.
VolumeUnit(c, names) == [key |-> "VLSER", size |-> Len(names), val |-> names]
AddVolumes(c, names) ==
    IF c.got = NULL THEN Bad(c) ELSE AddOrLose(arrayadd(c, c.got), c.got, VolumeUnit(c, names))
Volsers(t, array) ==
    IF t.array = NoArray THEN Bad([t EXCEPT !.array = array])
    ELSE Release(AddVolumes(__nwtx9a([t EXCEPT !.array = array], Key("VLSER")), Items(t)), t.array.block)
NameVolumes(c, v) ==
    IF v.len = 0 \/ c.got = NULL THEN Release(Bad(c), c.got)
    ELSE Release(Volsers(FoldLeft(LAMBDA t, p : arrayadd(t, p), [c EXCEPT !.array = NoArray], v.parts),
                         c.array), c.got)
__txvols(c, v) == NameVolumes(Obtain(c, "buffer"), v)

__frtx99(c, tu) == Release(c, tu)
\* FreeTXT99Array: the end-of-list bit is taken off the last pointer first.
__frtx9a(c) ==
    IF c.array = NoArray THEN c
    ELSE [arrayfree(FoldLeft(__frtx99, c, Items(c))) EXCEPT !.err = c.err]

----------------------------------------------------------------------------
(* SVC 99.  The request is the verb, the flag that forbids a mount and the *)
(* units; the high-order bit marks the last one.                           *)

Request(verb, nomnt, units) == [verb |-> verb, nomnt |-> nomnt, units |-> units]

\* The work area is obtained first: without it the SVC is not issued.  An
\* allocation that is granted holds a DD, and an unallocation gives it back.
Allocated(c) == [c EXCEPT !.err = IF c.got = NULL THEN 4 ELSE 0, !.dd = c.got]
Issue(c, request, dd) ==
    IF request.verb = "AL" THEN Allocated(Obtain(c, "dd"))
    ELSE IF Refused(c) THEN [Asked(c) EXCEPT !.err = 4]
    ELSE [Release(Asked(c), dd) EXCEPT !.err = 0]
WithWork(c, request, dd) ==
    IF c.got = NULL THEN [c EXCEPT !.err = -1]
    ELSE Release(Issue([c EXCEPT !.sent = Append(@, request)], request, dd), c.got)
__svc99(c, request, dd) == WithWork(Obtain(c, "work"), request, dd)

\* The dispositions of DISP=; an unknown word is an error.
Status(c, word) ==
    CASE word \in {"", "NEW"} -> __txnew(c, NoValue)
      [] word = "OLD" -> __txold(c, NoValue)
      [] word = "MOD" -> __txmod(c, NoValue)
      [] word = "SHR" -> __txshr(c, NoValue)
      [] OTHER -> Bad(c)
Normal(c, word) ==
    CASE word = "DELETE" -> __txdel(c, NoValue)
      [] word = "UNCATLG" -> __txucat(c, NoValue)
      [] word = "CATLG" -> __txcat(c, NoValue)
      [] word = "KEEP" -> __txkeep(c, NoValue)
      [] OTHER -> Bad(c)
Abnormal(c, word) ==
    CASE word = "DELETE" -> __txadel(c, NoValue)
      [] word = "UNCATLG" -> __txauca(c, NoValue)
      [] word = "CATLG" -> __txacat(c, NoValue)
      [] word = "KEEP" -> __txakee(c, NoValue)
      [] OTHER -> Bad(c)

\* The unit (CYL, TRK or a block length), then the quantities if any.
Space(c, qty) == IF c.err # 0 \/ qty = NoValue THEN c ELSE __txspac(c, qty)
dsspace(c, space) ==
    Space(CASE space.unit.txt = "CYL" -> __txcyl(c, NoValue)
            [] space.unit.txt = "TRK" -> __txtrk(c, NoValue)
            [] OTHER -> __txblk(c, space.unit), space.qty)

\* A list of units of the service's own.
Fresh(c) == [c EXCEPT !.array = NoArray, !.units = <<>>]

\* The options of __dsalc in the order their units are built.
Options == <<"ddn", "dsn", "disp1", "disp2", "disp3", "dcbdsn", "dsorg", "recfm", "lrecl",
             "blksize", "space", "unit", "volser", "close">>
Option(c, o, k) ==
    LET Word(i) == IF Len(o.disp) >= i THEN o.disp[i] ELSE ""
        Given(v) == v # NoValue
    IN  CASE k = "ddn" -> IF o.ddn.len > 0 THEN __txddn(c, o.ddn) ELSE __txrddn(c, NoValue)
          [] k = "dsn" /\ o.dsn.len > 0 -> __txdsn(c, o.dsn)
          [] k = "disp1" /\ o.hasdisp -> Status(c, Word(1))
          [] k = "disp2" /\ Len(o.disp) >= 2 -> Normal(c, Word(2))
          [] k = "disp3" /\ Len(o.disp) >= 3 -> Abnormal(c, Word(3))
          [] k = "dcbdsn" /\ Given(o.dcbdsn) -> __txdcbd(c, o.dcbdsn)
          [] k = "dsorg" /\ Given(o.dsorg) -> __txorg(c, o.dsorg)
          [] k = "recfm" /\ Given(o.recfm) -> __txrecf(c, o.recfm)
          [] k = "lrecl" /\ Given(o.lrecl) -> __txlrec(c, o.lrecl)
          [] k = "blksize" /\ Given(o.blksize) -> __txbksz(c, o.blksize)
          [] k = "space" /\ o.space # <<>> -> dsspace(c, o.space[1])
          [] k = "unit" /\ Given(o.unit) -> __txunit(c, o.unit)
          [] k = "volser" /\ Given(o.volser) -> __txvols(c, o.volser)
          [] k = "close" /\ o.freeclose -> __txclos(c, NoValue)
          [] OTHER -> c

\* temp, the copy of the options, is parsed with strtok(), whose pointer is
\* the caller's and is put back; everything is freed on every way out.
Issued(c, verb, nomnt, dd) ==
    IF c.err # 0 THEN c ELSE __svc99(c, Request(verb, nomnt, c.units), dd)
NoMount(o) == (o.unit # NoValue \/ o.volser # NoValue) /\ ~o.mount
Parsed(c, o) ==
    IF c.got = NULL THEN Bad(c)
    ELSE Release(Issued(FoldLeft(LAMBDA t, k : IF t.err # 0 THEN t ELSE Option(t, o, k),
                                 [c EXCEPT !.err = 0, !.strtok = "temp"], Options),
                        "AL", NoMount(o), NULL), c.got)
__dsalc(c, o) ==
    IF ~o.crt THEN Bad(c)
    ELSE [__frtx9a([Parsed(Obtain(Fresh(c), "buffer"), o) EXCEPT !.strtok = c.strtok])
             EXCEPT !.array = c.array]

\* The formatted form: no options, no request.
__dsalcf(c, o, opts) == IF opts THEN __dsalc(c, o) ELSE [c EXCEPT !.err = 4]

Unalc(c) == IF c.err # 0 THEN c ELSE __txunal(c, NoValue)
__dsfree(c, name, dd) ==
    [__frtx9a(Issued(Unalc(__txddn(Fresh(c), name)), "UN", FALSE, dd)) EXCEPT !.array = c.array]

\* A DD name that is given is unallocated before anything else is looked at;
\* dd is the DD it names, NULL if there is none.  name is the data set and
\* its member, the text "(" of a member standing for one without a name.
\* SVC 99 may answer anything to the unallocation: its answer is not used.
Unallocated(c, ddname, dd) ==
    IF ddname.len = 0 THEN c
    ELSE [Release(Asked(c), IF Refused(c) THEN NULL ELSE dd) EXCEPT
             !.sent = Append(@, Request("UN", FALSE, <<Text("DDNAM", ddname)>>))]
DynalUnits(ddname, name) ==
    <<Text("DSNAM", name.parts[1])>>
    \o (IF name.parts[2] = NoValue THEN <<>> ELSE <<Text("MEMBR", name.parts[2])>>)
    \o <<Byte("STATS", 8), Key("CLOSE"),
         IF ddname.len > 0 THEN Text("DDNAM", ddname) ELSE [key |-> "RTDDN", size |-> 8, val |-> 0]>>
GoodName(name) ==
    /\ name # NoValue /\ name.parts[1].len \in 1 .. 44
    /\ name.parts[2] = NoValue \/ (name.parts[2].txt # "(" /\ name.parts[2].len =< 8)
DynalAllocate(c, ddname, name) ==
    IF ~GoodName(name) THEN [c EXCEPT !.err = 1]
    ELSE Allocated(Obtain([c EXCEPT !.sent = Append(@, Request("AL", FALSE, DynalUnits(ddname, name)))], "dd"))
DynalWith(c, ddname, dd, name) ==
    IF c.got = NULL THEN [c EXCEPT !.err = 4]
    ELSE Release(IF ddname.len > 8 THEN [c EXCEPT !.err = 1]
                 ELSE DynalAllocate(Unallocated(c, ddname, dd), ddname, name), c.got)
__dynal(c, ddname, dd, name) == DynalWith(Obtain(c, "work"), ddname, dd, name)

----------------------------------------------------------------------------
(* src/src/dynit.  rq is the DYNRQ; d the caller's __dyn_t, a text field   *)
(* by its length and a number by its value, 0 when it is not given.        *)

room(rq, len) ==
    LET bytes == IF len > 0 THEN 6 + len ELSE 4
        need == bytes + (bytes % 2)
    IN  IF rq.err # 0 THEN rq
        ELSE IF rq.count >= DYNRQ_TU \/ rq.used + need > DYNRQ_BUF THEN [rq EXCEPT !.err = -1]
        ELSE [rq EXCEPT !.used = @ + need, !.count = @ + 1]
unit(rq, key, len, val) ==
    LET r == room(rq, len)
    IN  IF r.count = rq.count THEN r
        ELSE [r EXCEPT !.units = Append(@, [key |-> key, size |-> len, val |-> val])]

__dynrqb(rq, key, v, n) == unit(rq, key, n, v % (256 ^ n))
__dynrqs(rq, key, len, max) ==
    IF len = 0 THEN rq ELSE unit(rq, key, IF len > max THEN max ELSE len, 0)
__dynrqr(rq, key, n) == unit(rq, key, n, 0)
__dynrqm(rq, items) ==
    IF rq.err # 0 THEN rq
    ELSE IF rq.count + items > DYNRQ_TU THEN [rq EXCEPT !.count = DYNRQ_TU, !.err = -1]
    ELSE [rq EXCEPT !.count = @ + items,
                    !.units = @ \o [i \in 1 .. items |-> Key("caller's")]]

\* A fault: the number is cut to the bytes of its unit.
number_Cut(rq, key, v, n) == IF v =< 0 THEN rq ELSE __dynrqb(rq, key, v, n)

\* 0 or less is not given; a number that does not fit is refused.
number(rq, key, v, n) ==
    IF v =< 0 THEN rq
    ELSE IF v >= 256 ^ n THEN [rq EXCEPT !.err = -2] ELSE __dynrqb(rq, key, v, n)

refused(d) == d.sms
ddname(rq, d) ==
    IF d.ddname > 0 THEN __dynrqs(rq, "DDNAM", d.ddname, 8) ELSE __dynrqr(rq, "RTDDN", 8)
GivenByte(rq, key, v, n) == IF v # 0 THEN __dynrqb(rq, key, v, n) ELSE rq

dcb(rq, d) ==
    LET a == __dynrqs(__dynrqs(rq, "DCBDS", d.dcbrefds, 44), "DCBDD", d.dcbrefdd, 8)
        b == number(GivenByte(a, "DSORG", d.dsorg, 2), "RECFM", d.recfm, 1)
        e == IF d.recfm < 0 THEN [b EXCEPT !.err = -2] ELSE b
    IN  number(GivenByte(GivenByte(e, "BLKSZ", d.blksize, 2), "LRECL", d.lrecl, 2),
               "KYLEN", d.keylength, 1)

space(rq, d) ==
    LET u == CASE d.alcunit = "CYL" -> __dynrqb(rq, "CYL", 0, 0)
               [] d.alcunit = "TRK" -> __dynrqb(rq, "TRK", 0, 0)
               [] d.alcunit = "" -> rq
               [] OTHER -> [rq EXCEPT !.err = -2]
    IN  number(number(number(number(u, "BLKLN", d.avgblk, 3), "PRIME", d.primary, 3),
                      "SECND", d.secondary, 3), "DIR", d.dirblk, 3)

FlagKeys == <<"CLOSE", "RLSE", "PERMA", "SPFRM", "ROUND", "TERM", "DUMMY", "SHOLD">>
flags(rq, f) ==
    FoldLeft(LAMBDA r, k : IF k \notin f THEN r
                           ELSE IF k = "SPFRM" THEN __dynrqb(r, k, 8, 1) ELSE __dynrqb(r, k, 0, 0),
             rq, FlagKeys)

sysout(rq, d) ==
    IF d.sysout = 0 THEN rq
    ELSE __dynrqs(IF d.sysout < 0 THEN __dynrqb(rq, "SYSOU", 0, 0)
                  ELSE __dynrqb(rq, "SYSOU", d.sysout, 1), "SPGNM", d.sysoutname, 8)

NoRequest == [err |-> 0, count |-> 0, used |-> 0, units |-> <<>>]

\* Nothing is issued for a request with an error or without a unit.
__dynrqx(c, rq, verb, nomnt, dd) ==
    IF rq.err # 0 THEN [c EXCEPT !.err = rq.err]
    ELSE IF rq.count = 0 THEN [c EXCEPT !.err = -2]
    ELSE __svc99(c, Request(verb, nomnt, rq.units), dd)

dynalloc(c, d) ==
    LET r0 == [NoRequest EXCEPT !.err = IF refused(d) THEN -2 ELSE 0]
        r1 == __dynrqs(__dynrqs(ddname(r0, d), "DSNAM", d.dsname, 44), "MEMBR", d.member, 8)
        r2 == GivenByte(GivenByte(GivenByte(r1, "STATS", d.status, 1),
                                  "NDISP", d.normdisp, 1), "CDISP", d.conddisp, 1)
        r3 == __dynrqs(__dynrqs(__dynrqs(sysout(r2, d), "UNIT", d.unit, 8),
                                "VLSER", d.volser, 6), "VLRDS", d.volrefds, 44)
        r4 == __dynrqs(flags(space(dcb(r3, d), d), d.flags), "PASSW", d.password, 8)
        temporary == d.dsname = 0 /\ d.sysout = 0 /\ d.flags \cap {"DUMMY", "TERM"} = {}
        r5 == IF temporary THEN __dynrqr(r4, "RTDSN", 44) ELSE r4
    IN  __dynrqx(c, __dynrqm(r5, d.misc), "AL", d.unit > 0 \/ d.volser > 0, NULL)

dynfree(c, d, dd) ==
    LET r0 == [NoRequest EXCEPT !.err = IF d.sms THEN -2 ELSE 0]
        r1 == __dynrqs(__dynrqs(__dynrqs(r0, "DDNAM", d.ddname, 8), "DSNAM", d.dsname, 44),
                       "MEMBR", d.member, 8)
        r2 == __dynrqm(GivenByte(r1, "OVDSP", d.normdisp, 1), d.misc)
        r3 == IF r2.count = 0 /\ r2.err = 0 THEN [r2 EXCEPT !.err = -2] ELSE r2
    IN  __dynrqx(c, __dynrqb(r3, "UNALC", 0, 0), "UN", FALSE, dd)

----------------------------------------------------------------------------
(* The caller of the __tx functions owns an array and passes it along.     *)

Switches == {"dmy", "perm", "term", "unal", "cyl", "trk", "hold", "para", "priv", "prot", "rlse",
             "rnd", "clos", "inpu", "outp", "new", "old", "mod", "shr", "ucat", "cat", "del",
             "keep", "auca", "acat", "adel", "akee", "rddn"}
Numbers == {"bksz", "bufl", "lmct", "bufn", "blk", "dir", "copy", "ncp", "retp", "seq", "vlct",
            "vseq", "keyl", "unct", "bufo", "lrec"}
Texts == {"ddn", "unit", "expd", "form", "pgm", "dcbd", "syso", "fcb", "ucs"}
Tables == {"recf", "org", "labe", "trtc", "erop", "bfte", "bfal", "den"}
Builders == Switches \cup Numbers \cup Texts \cup Tables \cup {"dsn", "dest", "spac", "vols"}

Inputs(op) ==
    CASE op \in Switches -> {NoValue}
      [] op \in {"dsn", "dest"} -> Names
      [] op = "spac" -> Spaces
      [] op = "vols" -> Volumes
      [] OTHER -> Values \cup {NoValue}

Build(c, op, v) ==
    CASE op = "dmy" -> __txdmy(c, v)   [] op = "perm" -> __txperm(c, v)
      [] op = "term" -> __txterm(c, v) [] op = "unal" -> __txunal(c, v)
      [] op = "cyl" -> __txcyl(c, v)   [] op = "trk" -> __txtrk(c, v)
      [] op = "hold" -> __txhold(c, v) [] op = "para" -> __txpara(c, v)
      [] op = "priv" -> __txpriv(c, v) [] op = "prot" -> __txprot(c, v)
      [] op = "rlse" -> __txrlse(c, v) [] op = "rnd" -> __txrnd(c, v)
      [] op = "clos" -> __txclos(c, v) [] op = "inpu" -> __txinpu(c, v)
      [] op = "outp" -> __txoutp(c, v) [] op = "new" -> __txnew(c, v)
      [] op = "old" -> __txold(c, v)   [] op = "mod" -> __txmod(c, v)
      [] op = "shr" -> __txshr(c, v)   [] op = "ucat" -> __txucat(c, v)
      [] op = "cat" -> __txcat(c, v)   [] op = "del" -> __txdel(c, v)
      [] op = "keep" -> __txkeep(c, v) [] op = "auca" -> __txauca(c, v)
      [] op = "acat" -> __txacat(c, v) [] op = "adel" -> __txadel(c, v)
      [] op = "akee" -> __txakee(c, v) [] op = "rddn" -> __txrddn(c, v)
      [] op = "bksz" -> __txbksz(c, v) [] op = "bufl" -> __txbufl(c, v)
      [] op = "lmct" -> __txlmct(c, v) [] op = "bufn" -> __txbufn(c, v)
      [] op = "blk" -> __txblk(c, v)   [] op = "dir" -> __txdir(c, v)
      [] op = "copy" -> __txcopy(c, v) [] op = "ncp" -> __txncp(c, v)
      [] op = "retp" -> __txretp(c, v) [] op = "seq" -> __txseq(c, v)
      [] op = "vlct" -> __txvlct(c, v) [] op = "vseq" -> __txvseq(c, v)
      [] op = "keyl" -> __txkeyl(c, v) [] op = "unct" -> __txunct(c, v)
      [] op = "bufo" -> __txbufo(c, v) [] op = "lrec" -> __txlrec(c, v)
      [] op = "ddn" -> __txddn(c, v)   [] op = "unit" -> __txunit(c, v)
      [] op = "expd" -> __txexpd(c, v) [] op = "form" -> __txform(c, v)
      [] op = "pgm" -> __txpgm(c, v)   [] op = "dcbd" -> __txdcbd(c, v)
      [] op = "syso" -> __txsyso(c, v) [] op = "fcb" -> __txfcb(c, v)
      [] op = "ucs" -> __txucs(c, v)   [] op = "recf" -> __txrecf(c, v)
      [] op = "org" -> __txorg(c, v)   [] op = "labe" -> __txlabe(c, v)
      [] op = "trtc" -> __txtrtc(c, v) [] op = "erop" -> __txerop(c, v)
      [] op = "bfte" -> __txbfte(c, v) [] op = "bfal" -> __txbfal(c, v)
      [] op = "den" -> __txden(c, v)   [] op = "dsn" -> __txdsn(c, v)
      [] op = "dest" -> __txdest(c, v) [] op = "spac" -> __txspac(c, v)
      [] op = "vols" -> __txvols(c, v)

DynInit == dyn = [array |-> NoArray, lost |-> {}, dds |-> {}]

DynCall(fault) ==
    Begin(fault) @@ [array |-> dyn.array, err |-> 0, units |-> <<>>, lost |-> {}, sent |-> <<>>,
                     dd |-> NULL, strtok |-> "caller's"]
DynEnd(op, arg, c, dds) ==
    /\ dyn' = [array |-> c.array, lost |-> dyn.lost \cup c.lost, dds |-> dds]
    /\ End(c, [op |-> op, arg |-> arg, err |-> c.err, units |-> c.units, sent |-> c.sent,
               dd |-> c.dd, strtok |-> c.strtok, asked |-> c.n,
               short |-> c.faults \cap 1 .. c.n # {}])
Granted(c) == IF c.dd = NULL THEN dyn.dds ELSE dyn.dds \cup {c.dd}

Room == Ready /\ Cardinality(dyn.lost) < MaxLost

\* The caller adds a unit to its list.
AddUnit ==
    /\ Room /\ dyn.array.count < MaxUnits
    /\ \E op \in Builders, fault \in OneFault(7) : \E v \in Inputs(op) :
          LET c == Build(DynCall(fault), op, v) IN DynEnd(op, v, c, dyn.dds)

\* FreeTXT99Array.
FreeUnits ==
    /\ Ready
    /\ LET c == __frtx9a(DynCall({})) IN DynEnd("freeunits", NoValue, c, dyn.dds)

Dsalc ==
    /\ Room /\ dyn.dds = {}
    /\ \E o \in Allocations, opts \in BOOLEAN, fault \in Faults :
          LET c == __dsalcf(DynCall(fault), o, opts)
          IN  DynEnd("dsalc", [o |-> o, opts |-> opts], c, Granted(c))

Dsfree ==
    /\ Room
    /\ \E dd \in dyn.dds, v \in {x \in Values \cup {NoValue} : x.len \in {0, 8}}, fault \in OneFault(6) :
          LET c == __dsfree(DynCall(fault), v, dd)
          IN  DynEnd("dsfree", v, c, dyn.dds \cap c.held)

Dynal ==
    /\ Room /\ dyn.dds = {}
    /\ \E v \in {x \in Values \cup {NoValue} : x.len \in {0, 8, 9}}, dd \in dyn.dds \cup {NULL}, name \in Names, fault \in OneFault(3) :
          /\ v = NoValue => dd = NULL
          /\ LET c == __dynal(DynCall(fault), v, dd, name)
             IN  DynEnd("dynal", [ddn |-> v, dd |-> dd, name |-> name], c, Granted(c) \cap c.held)

Dynalloc ==
    /\ Room /\ dyn.dds = {}
    /\ \E d \in Dyns, fault \in OneFault(2) :
          LET c == dynalloc(DynCall(fault), d) IN DynEnd("dynalloc", d, c, Granted(c))

Dynfree ==
    /\ Ready
    /\ \E d \in Dyns, dd \in dyn.dds, fault \in OneFault(2) :
          LET c == dynfree(DynCall(fault), d, dd) IN DynEnd("dynfree", d, c, dyn.dds \cap c.held)

DynNext ==
    \/ AddUnit \/ FreeUnits \/ Dsalc \/ Dsfree \/ Dynal \/ Dynalloc \/ Dynfree
    \/ See /\ UNCHANGED dyn

----------------------------------------------------------------------------
DynOwns == (Range(Items(dyn)) \cup {dyn.array.block} \cup dyn.lost \cup dyn.dds) \ {NULL}

Keys(units) == [i \in DOMAIN units |-> units[i].key]

\* The quantities a text names, and what __txspac() makes of them: without
\* storage the second may be missing, but only where a directory follows.
HasDirectory(v) == v # NoValue /\ v.parts[3].num # 0
QuantityKeys(v) == <<"PRIME", "SECND">> \o IF HasDirectory(v) THEN <<"DIR">> ELSE <<>>
QuantitiesBuilt(keys, v) ==
    keys = QuantityKeys(v) \/ (result.short /\ HasDirectory(v) /\ keys = <<"PRIME", "DIR">>)

\* Without storage a volume may be missing; the others are in their order.
VolumesBuilt(names, v) ==
    names = v.parts \/ ( /\ result.short /\ names # <<>>
                        /\ names = SelectSeq(v.parts, LAMBDA p : p \in Range(names)))

\* A __tx call that answers 0 has added the units of what it was given, and
\* a number that fits its field is in it unchanged; one that fails has added
\* none, but for the first units of a call that adds several.  Two calls
\* answer 0 after storage was refused: __txspac() may have forgotten the
\* secondary quantity before a directory, and __txvols() a volume.
BuiltWhole ==
    result.op \in Builders =>
        LET n == Len(result.units)
        IN  /\ result.err = 0 =>
                  CASE result.op \in {"dsn", "dest"} -> n = IF result.arg.parts[2] = NoValue THEN 1 ELSE 2
                    [] result.op = "spac" -> QuantitiesBuilt(Keys(result.units), result.arg)
                    [] result.op = "vols" -> n = 1 /\ VolumesBuilt(result.units[1].val, result.arg)
                    [] OTHER -> n = 1
            /\ result.err # 0 /\ result.op \notin {"dsn", "dest", "spac"} => n = 0
            /\ \/ result.err # 0 \/ result.op \notin Numbers \ {"bufo", "lrec"}
               \/ result.arg.num \notin 0 .. 256 ^ result.units[1].size - 1
               \/ result.units[1].val \in {result.arg.num, 32760}

\* The units the options of __dsalc ask for.
SpaceAsks(s) ==
    {IF s.unit.txt \in {"CYL", "TRK"} THEN s.unit.txt ELSE "BLKLN"}
    \cup (IF s.qty = NoValue THEN {} ELSE Range(QuantityKeys(s.qty)))
Asks(o) ==
    {IF o.ddn.len > 0 THEN "DDNAM" ELSE "RTDDN"}
    \cup (IF o.dsn.len > 0 THEN {"DSNAM"} ELSE {})
    \cup (IF o.dsn.len > 0 /\ o.dsn.parts[2] # NoValue THEN {"MEMBR"} ELSE {})
    \cup (IF o.hasdisp THEN {"STATS"} ELSE {})
    \cup (IF Len(o.disp) >= 2 THEN {"NDISP"} ELSE {}) \cup (IF Len(o.disp) >= 3 THEN {"CDISP"} ELSE {})
    \cup (IF o.dcbdsn # NoValue THEN {"DCBDS"} ELSE {}) \cup (IF o.dsorg # NoValue THEN {"DSORG"} ELSE {})
    \cup (IF o.recfm # NoValue THEN {"RECFM"} ELSE {}) \cup (IF o.lrecl # NoValue THEN {"LRECL"} ELSE {})
    \cup (IF o.blksize # NoValue THEN {"BLKSZ"} ELSE {}) \cup (IF o.unit # NoValue THEN {"UNIT"} ELSE {})
    \cup (IF o.volser # NoValue THEN {"VLSER"} ELSE {}) \cup (IF o.freeclose THEN {"CLOSE"} ELSE {})
    \cup (IF o.space = <<>> THEN {} ELSE SpaceAsks(o.space[1]))
VolumesAsked(units) ==
    LET i == CHOOSE k \in DOMAIN units : units[k].key = "VLSER" IN units[i].val

\* What __dsalc asks SVC 99 for is what its options say, every unit once: no
\* request is issued when a unit could not be built, but for the two losses
\* the code does not notice (the secondary quantity before a directory, a
\* volume of several, each only after storage was refused).  The DCB model
\* comes before the attributes that override it, a request that names a unit
\* or a volume never waits for a mount unless MOUNT was given, and a call
\* that fails has allocated nothing.  The strtok() position of the caller is
\* as it was, on every way out.
AllocationComplete ==
    result.op = "dsalc" =>
        LET o == result.arg.o
            units == result.sent[1].units
            keys == Keys(units)
        IN  /\ result.strtok = "caller's"
            /\ result.err = 0 <=> result.dd # NULL
            /\ result.sent # <<>> =>
                  /\ Len(result.sent) = 1 /\ result.arg.opts /\ o.crt
                  /\ \/ Range(keys) = Asks(o)
                     \/ /\ result.short /\ Range(keys) = Asks(o) \ {"SECND"}
                        /\ o.space # <<>> /\ HasDirectory(o.space[1].qty)
                  /\ Len(keys) = Cardinality(Range(keys))
                  /\ o.volser # NoValue => VolumesBuilt(VolumesAsked(units), o.volser)
                  /\ \A i, j \in DOMAIN keys :
                        keys[i] = "DCBDS" /\ keys[j] \in {"DSORG", "RECFM", "LRECL", "BLKSZ"} => i < j
                  /\ o.unit # NoValue \/ o.volser # NoValue => result.sent[1].nomnt = ~o.mount

\* dynalloc() and dynfree(): the library's own units always fit its buffer, so
\* that only a list of the caller's own units can be too long (-1); a field that
\* does not fit is refused (-2) and nothing is issued; what is issued names
\* each field that was given, and only a request without a data set, SYSOUT,
\* DUMMY or TERM asks for a generated name.
OutOfRange(d) ==
    \/ d.sms \/ d.recfm \notin 0 .. 255 \/ d.keylength > 255 \/ d.alcunit \notin {"", "CYL", "TRK"}
    \/ \E n \in {d.avgblk, d.primary, d.secondary, d.dirblk} : n >= 256 ^ 3
StructureComplete ==
    /\ result.op \in {"dynalloc", "dynfree"} =>
          IF result.err < 0 THEN result.sent = <<>> ELSE Len(result.sent) = 1
    /\ result.op = "dynalloc" =>
          LET d == result.arg
              keys == Keys(result.sent[1].units)
              Given(n, key) == n # 0 <=> key \in Range(keys)
          IN  /\ d.misc = 0 => (result.err = -2 <=> OutOfRange(d)) 
              /\ result.err = -1 /\ result.asked = 0 => d.misc > 0
              /\ result.sent # <<>> =>
                    /\ Given(d.dsname, "DSNAM") /\ Given(d.member, "MEMBR") /\ Given(d.sysout, "SYSOU")
                    /\ Given(d.unit, "UNIT") /\ Given(d.volser, "VLSER") /\ Given(d.password, "PASSW")
                    /\ Given(d.dcbrefds, "DCBDS") /\ Given(d.lrecl, "LRECL") /\ Given(d.blksize, "BLKSZ")
                    /\ Given(d.ddname, "DDNAM") /\ ("RTDDN" \in Range(keys) <=> d.ddname = 0)
                    /\ "RTDSN" \in Range(keys) <=>
                          d.dsname = 0 /\ d.sysout = 0 /\ d.flags \cap {"DUMMY", "TERM"} = {}

RequestsComplete == BuiltWhole /\ AllocationComplete /\ StructureComplete
============================================================================
