------------------------------- MODULE DsLists -------------------------------
(***************************************************************************)
(* src/src/mvs/dslist, dd and dscb: lists of data sets, allocations,       *)
(* volumes and members.                                                    *)
(*                                                                         *)
(* Each list is an array of blocks the caller frees with the function of   *)
(* its own.  Names are model values and words; a line of a LISTCAT listing *)
(* is its first word, where it begins, and the name that follows; the VTOC,*)
(* the catalog and the control blocks are tables.                          *)
(***************************************************************************)
EXTENDS Array
LOCAL INSTANCE SequencesExt
LOCAL INSTANCE FiniteSetsExt
LOCAL INSTANCE Folds

CONSTANTS
    Listings,           \* what LISTCAT finds
    Filters,            \* patterns, each the set of names it matches
    DsAllocated,          \* lists of DSABs
    Units,              \* lists of UCBs
    Comments,           \* VATLST members
    Directories,        \* directories of partitioned data sets
    Cataloged,          \* the volume of each data set the catalog knows
    Vtoc,               \* format-1 DSCBs, each <<data set, volume>> |-> fields
    DsGeometry            \* tracks per cylinder, by volume

VARIABLE lists          \* the caller's list

DsNoName == ""
Called(faults) == Begin(faults) @@ [array |-> NoArray, err |-> 0, errno |-> DsNoName]

\* A block added to the list, or freed when the array does not take it.
AddedBlock(c, item) == IF c.err # 0 THEN [Release(c, item.at) EXCEPT !.failed = TRUE] ELSE c
AddBlock(c, item) == AddedBlock(arrayadd(c, item), item)
NewBlock(c, item) ==
    IF c.got = NULL THEN [c EXCEPT !.failed = TRUE] ELSE AddBlock(c, item @@ [at |-> c.got])

----------------------------------------------------------------------------
(* The VTOC and the catalog: SVC 26 and SVC 27.                            *)

__locate(dsn) == IF dsn \in DOMAIN Cataloged THEN {Cataloged[dsn]} ELSE {}
__dscbdv(dsn, vol) == IF <<dsn, vol>> \in DOMAIN Vtoc THEN {Vtoc[<<dsn, vol>>]} ELSE {}
__dscbv(vol) == IF vol \in DOMAIN DsGeometry THEN {DsGeometry[vol]} ELSE {}

\* A two-digit year is of this century when it is before 1980.
Year(y) == IF 1900 + y < 1980 THEN 2000 + y ELSE 1900 + y

\* The attributes of a DSCB or a JFCB, which keep them alike.
Attributes1(d) ==
    [dsorg |-> IF d.am THEN "VS" ELSE d.dsorg,
     recfm |-> (IF d.type = "" THEN <<>> ELSE <<d.type>>) \o SelectSeq(<<"B", "S", "A", "M">>, LAMBDA x : x \in d.flags),
     year |-> Year(d.created)]

\* The tracks of the first three extents, in an unsigned short.
ExtentTracks(x, tpc) == (x.hi[1] - x.lo[1]) * tpc + (x.hi[2] - x.lo[2]) + 1
AllocTracks(d, tpc) ==
    FoldLeft(LAMBDA n, x : (n + ExtentTracks(x, tpc)) % 65536, 0, SubSeq(d.extent, 1, IF d.noepv < 3 THEN d.noepv ELSE 3))

Device(tpc) == CASE tpc = 30 -> "3350" [] tpc = 12 -> "3375" [] tpc = 19 -> "3380" [] OTHER -> "3390"
TracksPerCylinder(vol) == IF __dscbv(vol) \in {{}, {0}} THEN 30 ELSE CHOOSE t \in __dscbv(vol) : TRUE
DsSpace(d, tpc) ==
    [spacu |-> IF d.cyl THEN "C" ELSE "T", extents |-> d.noepv, alloc_trks |-> AllocTracks(d, tpc), dev |-> Device(tpc)]

----------------------------------------------------------------------------
(* Data sets of a catalog level.                                           *)

NoUdata == [dsn |-> DsNoName, volser |-> DsNoName, catnm |-> NULL, catname |-> DsNoName, entcat |-> NULL,
            catused |-> FALSE, failed |-> FALSE, filter |-> {}]
DsEntries == {"NONVSAM", "PAGESPACE", "CLUSTER", "USERCATALOG"}
DsNumbered == {"1X"}      \* names that begin with a digit

\* A line that begins an entry: its name, when the filter lets it through.
Header(c, l) ==
    LET named == l.name \notin {DsNoName} \cup DsNumbered /\ (c.u.filter = {} \/ l.name \in c.u.filter)
    IN  [c EXCEPT !.u.dsn = IF named THEN l.name ELSE DsNoName, !.u.volser = DsNoName, !.u.entcat = NULL]

\* IN-CAT: the name is kept once for the entries that follow one another.
NewCatalog(c, name) ==
    IF c.got = NULL THEN c
    ELSE [(IF c.u.catused THEN c ELSE Release(c, c.u.catnm))
             EXCEPT !.u.catnm = c.got, !.u.catname = name, !.u.catused = FALSE, !.u.entcat = c.got]
InCatalog(c, name) ==
    IF c.u.catnm # NULL /\ c.u.catname = name THEN [c EXCEPT !.u.entcat = c.u.catnm]
    ELSE NewCatalog(Obtain([c EXCEPT !.u.entcat = NULL], "string"), name)

\* A volume makes the entry: the first of a data set, the others have none.
\* "******" is a data set of the system residence volume.
Complete(e, vol) ==
    e @@ [volser |-> vol, attr |-> {Attributes1(d) : d \in __dscbdv(e.dsn, vol)},
          space |-> {DsSpace(d, TracksPerCylinder(vol)) : d \in __dscbdv(e.dsn, vol)}]
Residence(dsn, vol) == IF vol = "******" /\ __locate(dsn) # {} THEN CHOOSE v \in __locate(dsn) : TRUE ELSE vol
DsKept(c, item) ==
    IF c.err # 0 THEN [Release(c, item.at) EXCEPT !.u.failed = TRUE]
    ELSE IF item.catnm = NULL THEN c ELSE [c EXCEPT !.u.catused = TRUE]
Cleared(c) == [c EXCEPT !.u.dsn = DsNoName, !.u.volser = DsNoName]
KeepEntry(c, item) == DsKept(arrayadd(c, item), item)
\* A fault: the entry keeps the catalog of the entry before it.
NewEntry_StaleCatalog(c, u) ==
    IF c.got = NULL THEN [Cleared(c) EXCEPT !.u.failed = TRUE]
    ELSE KeepEntry(Cleared(c), Complete([at |-> c.got, dsn |-> u.dsn, catnm |-> u.catnm, cat |-> u.catname], Residence(u.dsn, u.volser)))

NewEntry(c, u) ==
    IF c.got = NULL THEN [Cleared(c) EXCEPT !.u.failed = TRUE]
    ELSE KeepEntry([Cleared(c) EXCEPT !.u.entcat = NULL],
                   Complete([at |-> c.got, dsn |-> u.dsn, catnm |-> u.entcat, cat |-> IF u.entcat = NULL THEN DsNoName ELSE u.catname], Residence(u.dsn, u.volser)))

VolumeLine(c, l) ==
    IF l.name = DsNoName THEN [c EXCEPT !.u.dsn = DsNoName] ELSE NewEntry(Obtain([c EXCEPT !.u.volser = l.name], "dslist"), [c.u EXCEPT !.volser = l.name])

parse(c, l) ==
    CASE c.u.failed \/ l.word \in {"1", DsNoName} -> c
      [] ~c.u.failed /\ l.word \in DsEntries /\ l.col =< 1 -> Header(c, l)
      [] ~c.u.failed /\ l.word = "IN" /\ c.u.dsn # DsNoName /\ l.name # DsNoName -> InCatalog(c, l.name)
      [] ~c.u.failed /\ l.word = "VOLSER" /\ c.u.dsn # DsNoName -> VolumeLine(c, l)
      [] OTHER -> c

\* __listc: the listing is written to a temporary file under its DD, and
\* read with DYNAMIC set so that the last fclose frees the DD.  When the
\* file cannot be opened again the DD stays allocated.
DsClosed(c, stream) == Release(Release(c, stream), <<"dd", "tmp">>)
ReadListing(c, rc, lines) ==
    IF c.got = NULL THEN [c EXCEPT !.ret = -1, !.lost = @ \cup {<<"dd", "tmp">>}]
    ELSE [DsClosed(FoldLeft(parse, c, lines), c.got) EXCEPT !.ret = rc]
Reopened(c, rc, lines) == ReadListing(Obtain(Release(c, c.got), "stream"), rc, lines)
__listc(c, rc, lines) ==
    IF c.got = NULL THEN [c EXCEPT !.ret = -1]
    ELSE Reopened([c EXCEPT !.held = @ \cup {<<"dd", "tmp">>}], rc, lines)

\* Frees each catalog name once, with the first entry that has it.
FreeEntry(c, e) == Release(Release(c, IF e.catnm \in c.freed THEN NULL ELSE e.catnm), e.at)
FreeEntries(c, e) == [FreeEntry(c, e) EXCEPT !.freed = @ \cup {e.catnm}]
__freeds(c) ==
    IF c.array.block = NULL THEN c ELSE arrayfree(FoldLeft(FreeEntries, [c EXCEPT !.freed = {NULL}], Items(c)))

FreeUnusedCatalog(c) == IF c.u.catused THEN c ELSE Release(c, c.u.catnm)
ListedDs(c) == IF c.u.failed THEN [__freeds(c) EXCEPT !.errno = "ENOMEM"] ELSE c
__listds(c, filter, rc, lines) ==
    ListedDs(FreeUnusedCatalog(__listc(Obtain(c @@ [u |-> [NoUdata EXCEPT !.filter = filter], ret |-> -1, lost |-> {}, freed |-> {}],
                                              "stream"), rc, lines)))

----------------------------------------------------------------------------
(* Allocations: the DSABs of a task, in the order of their chain.          *)

get_dsab(dsabs, ddname) ==
    IF ddname = DsNoName THEN 1
    ELSE CHOOSE i \in 1 .. Len(dsabs) + 1 :
            /\ i =< Len(dsabs) => dsabs[i].dd = ddname
            /\ \A k \in 1 .. i - 1 : dsabs[k].dd # ddname
\* With a name, only the DSABs concatenated to it follow.
next_dsab(dsabs, i, ddname) ==
    IF i < Len(dsabs) /\ (ddname = DsNoName \/ dsabs[i + 1].dd = DsNoName) THEN i + 1 ELSE Len(dsabs) + 1

Skipped(ds, opt) ==
    \/ \E f \in {"PERM", "DYNM", "CONCAT", "INUSE"} \cap opt : f \notin ds.flg1
    \/ "NOCAT" \in opt /\ ds.catalog
    \/ "NOJES" \in opt /\ ds.jes

\* The volume the catalog names stays when its VTOC has no such data set.
DscbVolume(e) == IF e.volser = DsNoName /\ __locate(e.dsn) # {} THEN CHOOSE v \in __locate(e.dsn) : TRUE ELSE e.volser
get_dscb_values(e) == [e EXCEPT !.volser = DscbVolume(e), !.attr = {Attributes1(d) : d \in __dscbdv(e.dsn, DscbVolume(e))}]
get_jfcb_values(e, jfcb) == [e EXCEPT !.attr = {Attributes1(jfcb)}, !.disp = jfcb.disp]
Described(e, jfcb) == IF e.attr # {} THEN e ELSE get_jfcb_values(e, jfcb)
DataSetOf(at, jfcb, opt) ==
    LET e == [at |-> at, dsn |-> jfcb.dsn, volser |-> jfcb.vol, catnm |-> NULL, attr |-> {}, disp |-> DsNoName]
    IN  Described(IF "DSCB" \in opt THEN get_dscb_values(e) ELSE e, jfcb)

\* The entries of a DD are an array of its own; it is c.inner while the DD
\* is the last of the list.
Inner(c) == [c EXCEPT !.array = c.inner, !.inner = c.array]
LastEntry(c) == c.array.slots[c.array.count]
PutInner(c) == [c EXCEPT !.array.slots[c.array.count] = [@ EXCEPT !.dslist = c.inner]]
EndOfMemory(c) == [c EXCEPT !.failed = TRUE]
AddedInner(c, item) == IF c.err # 0 THEN EndOfMemory(Release(Inner(c), item.at)) ELSE PutInner(Inner(c))
AddInner(c, item) == AddedInner(arrayadd(c, item), item)
NewInner(c, ds, opt) ==
    IF c.got = NULL THEN EndOfMemory(c)
    ELSE AddInner(Inner([c EXCEPT !.inner = LastEntry(c).dslist]), DataSetOf(c.got, ds.jfcb, opt))
Concatenated(c, ds, opt) == IF c.failed THEN c ELSE NewInner(Obtain(c, "dslist"), ds, opt)
NewDd(c, ds) == NewBlock(c, [ddname |-> ds.dd, dslist |-> NoArray])
Dsab(c, ds, opt) ==
    IF ds.dd = DsNoName THEN IF c.skip_nodd THEN c ELSE Concatenated(c, ds, opt)
    ELSE IF Skipped(ds, opt) THEN [c EXCEPT !.skip_nodd = TRUE]
    ELSE Concatenated(NewDd(Obtain([c EXCEPT !.skip_nodd = FALSE], "alclist"), ds), ds, opt)
DsabIf(c, ds, opt) == IF c.failed THEN c ELSE Dsab(c, ds, opt)

FreeDd(c, al) == Release([__freeds([c EXCEPT !.array = al.dslist]) EXCEPT !.array = c.array], al.at)
__freeal(c) == IF c.array.block = NULL THEN c ELSE arrayfree(FoldLeft(FreeDd, c, Items(c)))

ListedAl(c) == IF c.failed THEN [__freeal(c) EXCEPT !.errno = "ENOMEM"] ELSE c
Chain(dsabs, ddname) ==
    LET from == get_dsab(dsabs, ddname)
        at[i \in from .. Len(dsabs) + 1] ==
            IF i > Len(dsabs) THEN <<>> ELSE <<dsabs[i]>> \o at[next_dsab(dsabs, i, ddname)]
    IN  at[from]
__listal(c, dsabs, ddname, opt) ==
    ListedAl(FoldLeft(LAMBDA d, ds : DsabIf(d, ds, opt),
                      c @@ [inner |-> NoArray, failed |-> FALSE, skip_nodd |-> FALSE, freed |-> {}], Chain(dsabs, ddname)))

----------------------------------------------------------------------------
(* Volumes: the units of the system.                                       *)

\* in_vollist: a volume is listed once.
in_vollist(c, vol) == \E i \in 1 .. arraycount(c) : c.array.slots[i].volser = vol
Online(u) == u.kind = "disk" /\ u.online
Unit(c, u, filter) ==
    IF c.failed \/ ~Online(u) \/ (filter # {} /\ u.vol \notin filter) \/ in_vollist(c, u.vol) THEN c
    ELSE NewBlock(Obtain(c, "vollist"), [volser |-> u.vol, cuu |-> u.cuu, comment |-> NULL, text |-> DsNoName])

\* get_comment: a volume takes its comment from the first record of the
\* VATLST member that matches it, if there is storage for it then.
Comment(c, i, r) ==
    IF c.got = NULL THEN c
    ELSE [c EXCEPT !.array.slots[i] = [@ EXCEPT !.comment = c.got, !.text = r.text]]
CommentIf(c, i, r) ==
    IF c.array.slots[i].comment = NULL /\ c.array.slots[i].volser \in r.volumes THEN Comment(Obtain(c, "string"), i, r) ELSE c
get_comment(c, r) == FoldLeft(LAMBDA d, i : CommentIf(d, i, r), c, [i \in 1 .. arraycount(c) |-> i])
WithComments(c, vatlst) ==
    IF c.got = NULL THEN c ELSE Release(FoldLeft(get_comment, c, vatlst), c.got)
open_vatlst(c, vatlst) == IF vatlst = <<>> THEN c ELSE WithComments(Obtain(c, "stream"), vatlst)

\* From the last entry to the first.
__freevl(c) ==
    LET free(d) == Release(Release(d, d.got.comment), d.got.at)
    IN  IF c.array.block = NULL THEN c
        ELSE arrayfree(FoldLeft(LAMBDA d, i : free(arraydel(d, arraycount(d))), c, Items(c)))
ListedVl(c, vatlst) ==
    IF c.failed THEN [__freevl(c) EXCEPT !.errno = "ENOMEM"] ELSE open_vatlst(c, vatlst)
__listvl(c, units, filter, vatlst) ==
    ListedVl(FoldLeft(LAMBDA d, u : Unit(d, u, filter), c @@ [failed |-> FALSE], units), vatlst)

----------------------------------------------------------------------------
(* Members: the directory of a partitioned data set, in blocks.            *)

\* The state of a walk: where it is in the block, "on", "block" when it is
\* done with the block, and "done" with the directory.
Size(entry) == 12 + 2 * entry.udata
DsWalked(c, size) == [c EXCEPT !.pos = @ + size]
Wanted(c, filter, entry) == filter = {} \/ entry.name \in filter
\* fn is collect or the caller's own, which ends the walk with its stop-th.
Collected(c) == IF c.failed THEN [c EXCEPT !.state = "done"] ELSE c
collect(c, entry) == Collected(NewBlock(Obtain(c, "pdslist"), [entry |-> entry]))
CallersOwn(c, entry, stop) ==
    [c EXCEPT !.seen = Append(@, entry.name), !.state = IF Len(c.seen) + 1 = stop THEN "done" ELSE @]
Matched(c, entry, stop) ==
    DsWalked(IF stop = 0 THEN collect([c EXCEPT !.count = @ + 1], entry) ELSE CallersOwn([c EXCEPT !.count = @ + 1], entry, stop),
           Size(entry))
WalkEntry(c, entry, len, filter, stop) ==
    CASE c.state # "on" -> c
      [] c.state = "on" /\ c.pos + 12 > len -> [c EXCEPT !.state = "block"]
      [] c.state = "on" /\ c.pos + 12 =< len /\ entry.name = "high" -> [c EXCEPT !.state = "done"]
      [] c.state = "on" /\ c.pos + 12 =< len /\ entry.name # "high" /\ c.pos + Size(entry) > len -> [c EXCEPT !.state = "block"]
      [] OTHER -> IF Wanted(c, filter, entry) THEN Matched(c, entry, stop) ELSE DsWalked(c, Size(entry))

\* A block's length is what it says, but not more than was read; a read
\* error is a block of which nothing was read.
BlockLength(b) == IF b.len > b.nread THEN b.nread ELSE b.len
WalkBlock(c, b, filter, stop) ==
    IF c.state = "done" THEN c
    ELSE IF b.nread < 2 THEN [c EXCEPT !.state = "done", !.ferror = b.error]
    ELSE FoldLeft(LAMBDA d, e : WalkEntry(d, e, BlockLength(b), filter, stop), [c EXCEPT !.pos = 2, !.state = "on"], b.entries)
WalkEnd(c) == IF c.ferror THEN [c EXCEPT !.count = -1, !.errno = "EIO"] ELSE c
WalkBlocks(c, blocks, filter, stop) ==
    IF c.got = NULL THEN [c EXCEPT !.count = -1, !.errno = "EIO"]
    ELSE WalkEnd(Release(FoldLeft(LAMBDA d, b : WalkBlock(d, b, filter, stop), c, blocks), c.got))
Walk == [state |-> "on", pos |-> 2, count |-> 0, seen |-> <<>>, ferror |-> FALSE, failed |-> FALSE]
__walkpd(c, blocks, filter, stop) == WalkBlocks(Obtain(c @@ Walk, "stream"), blocks, filter, stop)

FreeMember(c, m) == Release(c, m.at)
__freepd(c) == IF c.array.block = NULL THEN c ELSE arrayfree(FoldLeft(FreeMember, c, Items(c)))
ListedPd(c) ==
    IF c.count < 0 \/ c.failed THEN [__freepd(c) EXCEPT !.errno = IF c.failed THEN "ENOMEM" ELSE c.errno] ELSE c
__listpd(c, blocks, filter) == ListedPd(__walkpd(c, blocks, filter, 0))

\* The sections of a load module's user data follow one another, those it
\* has; the SSI section begins on a halfword.
LOADBCEND == 21
AliasAt(m) == IF "SCTR" \in m.atr THEN LOADBCEND + 8 ELSE LOADBCEND
EndOfAlias(m) == IF m.alias THEN AliasAt(m) + 11 ELSE AliasAt(m)
SsiAt(m) == 2 * ((EndOfAlias(m) + 1) \div 2)
ApfAt(m) == IF "SSI" \in m.atr THEN SsiAt(m) + 4 ELSE EndOfAlias(m)
\* A member without user data has only its name.
__fmtloa(m, data) ==
    IF m.udata = 0 THEN [aliasof |-> DsNoName, ac |-> 0, ssi |-> DsNoName, attr |-> {}]
    ELSE [aliasof |-> IF m.alias THEN data[AliasAt(m)] ELSE DsNoName,
          ac |-> IF "APF" \in m.atr THEN data[ApfAt(m)] ELSE 0,
          ssi |-> IF "SSI" \in m.atr THEN data[SsiAt(m)] ELSE DsNoName,
          attr |-> {a \in {"NE"} : "EXEC" \notin m.atr} \cup (m.atr \cap {"OL", "PG", "RF", "RN", "RU", "OV", "TS"})]

\* What the linkage editor wrote, at the places its sections begin.
LoadData(m) ==
    LET sections == SelectSeq(<<[of |-> "SCTR", len |-> 8, val |-> 0], [of |-> "alias", len |-> 11, val |-> "REAL"],
                                [of |-> "SSI", len |-> 4, val |-> "SSI"], [of |-> "APF", len |-> 2, val |-> 1]>>,
                              LAMBDA s : s.of \in m.atr \/ (s.of = "alias" /\ m.alias))
        begin(end, s) == IF s.of = "SSI" THEN end + (end % 2) ELSE end
        put(d, s) == [end |-> begin(d.end, s) + s.len, at |-> d.at @@ (begin(d.end, s) :> s.val)]
    IN  FoldLeft(put, [end |-> LOADBCEND, at |-> <<>>], sections).at

\* A packed date yydddF, and the century that 1900 or 2000 begins.
Digits(byte) == 10 * (byte \div 16) + (byte % 16)
cvtdate(century, date) ==
    [year |-> Digits(date[1]) + (IF century # 0 THEN 100 ELSE 0), yday |-> 10 * Digits(date[2]) + date[3] \div 16]
__fmtisp(m) == IF m.udata = 0 THEN {} ELSE {[created |-> cvtdate(m.century, m.created), lines |-> m.lines]}

----------------------------------------------------------------------------
(* A caller of the lists.                                                  *)

NoLists == [kind |-> "none", array |-> NoArray, lost |-> {}]
DsInit == lists = NoLists
NoList == Ready /\ lists.kind = "none"
ListEnd(c, kind, lost, r) ==
    /\ lists' = [kind |-> IF c.array = NoArray THEN "none" ELSE kind, array |-> c.array, lost |-> lost]
    /\ End(c, [op |-> kind, errno |-> c.errno, faults |-> c.faults] @@ r)

\* The lines LISTCAT writes for an entry, with those the list is not about.
DsLine(word, col, name) == [word |-> word, col |-> col, name |-> name]
LinesOf(e) ==
    <<DsLine("1", 0, "IDCAMS"), DsLine(e.kind, 1, e.name)>> \o (IF e.cat = DsNoName THEN <<>> ELSE <<DsLine("IN", 5, e.cat)>>)
    \o <<DsLine("HISTORY", 5, DsNoName), DsLine("CLUSTER", 8, "ASSOC")>> \o [i \in DOMAIN e.vols |-> DsLine("VOLSER", 8, e.vols[i])]
ListDs ==
    /\ NoList /\ lists.lost = {}
    /\ \E listing \in Listings, filter \in Filters, rc \in {0, 4} : \E fault \in OneFault(4 * Len(listing) + 2) :
          LET c == __listds(Called(fault), filter, rc, FlattenSeq([i \in DOMAIN listing |-> LinesOf(listing[i])]))
          IN  ListEnd(c, "listds", c.lost, [of |-> listing, filter |-> filter])
ListAl ==
    /\ NoList
    /\ \E dsabs \in DsAllocated, opt \in SUBSET {"PERM", "INUSE", "NOCAT", "NOJES", "DSCB"}, fault \in OneFault(12) :
          \E ddname \in {DsNoName} \cup {dsabs[i].dd : i \in DOMAIN dsabs} :
             /\ fault # {} => opt \subseteq {"DSCB", "NOJES"}
             /\ ListEnd(__listal(Called(fault), dsabs, ddname, opt), "listal", lists.lost, [of |-> dsabs, ddname |-> ddname, opt |-> opt])
ListVl ==
    /\ NoList
    /\ \E units \in Units, filter \in Filters, vatlst \in Comments : \E fault \in OneFault(2 * Len(units) + 2) :
          ListEnd(__listvl(Called(fault), units, filter, vatlst), "listvl", lists.lost, [of |-> units, filter |-> filter, vatlst |-> vatlst])
ListPd ==
    /\ NoList
    /\ \E blocks \in Directories, filter \in Filters, fault \in OneFault(6) :
          ListEnd(__listpd(Called(fault), blocks, filter), "listpd", lists.lost, [of |-> blocks, filter |-> filter])
WalkPd ==
    /\ NoList
    /\ \E blocks \in Directories, filter \in Filters, fault \in OneFault(1), stop \in 1 .. 3 :
          LET c == __walkpd(Called(fault), blocks, filter, stop)
          IN  ListEnd(c, "walkpd", lists.lost, [of |-> blocks, filter |-> filter, stop |-> stop, seen |-> c.seen, count |-> c.count])
FormatMember ==
    /\ NoList
    /\ \E marks \in SUBSET {"SCTR", "SSI", "APF"}, alias, stats \in BOOLEAN, udata \in {0, 15} :
          LET m == [udata |-> udata, alias |-> alias, atr |-> marks, century |-> 1, created |-> <<38, 6, 15>>, lines |-> 7]
          IN  ListEnd(Called({}), "format", lists.lost, [of |-> m, load |-> __fmtloa(m, LoadData(m)), stats |-> __fmtisp(m)])
FreeList ==
    /\ Ready /\ lists.kind # "none"
    /\ LET c == [Called({}) EXCEPT !.array = lists.array] @@ [freed |-> {}]
           d == CASE lists.kind = "listds" -> __freeds(c) [] lists.kind = "listal" -> __freeal(c)
                  [] lists.kind = "listvl" -> __freevl(c) [] OTHER -> __freepd(c)
       IN  ListEnd(d, "free", lists.lost, [of |-> lists.kind])

DsNext ==
    \/ ListDs \/ ListAl \/ ListVl \/ ListPd \/ WalkPd \/ FormatMember \/ FreeList
    \/ See /\ UNCHANGED lists

ItemOwns(item) ==
    CASE lists.kind = "listds" -> {item.at, item.catnm}
      [] lists.kind = "listal" -> {item.at, item.dslist.block} \cup {Items([array |-> item.dslist])[k].at : k \in 1 .. item.dslist.count}
      [] lists.kind = "listvl" -> {item.at, item.comment}
      [] OTHER -> {item.at}
DsOwns ==
    lists.lost \cup (({lists.array.block} \cup UNION {ItemOwns(Items(lists)[i]) : i \in 1 .. lists.array.count}) \ {NULL})

----------------------------------------------------------------------------
(* What the lists are.                                                     *)

Listed1 == Items(lists)
Chosen(f, name) == f = {} \/ name \in f

\* Each data set of the level that has a volume, in the order of the
\* listing, with the first of its volumes, its own catalog and the tracks
\* its extents cover.
InListing == SelectSeq(result.of, LAMBDA e : Chosen(result.filter, e.name) /\ e.name \notin DsNumbered /\ e.vols # <<>> /\ e.vols[1] # DsNoName)
TracksOf(x, tpc) ==
    {t \in (x.lo[1] .. x.hi[1]) \X (0 .. tpc - 1) :
        (t[1] = x.lo[1] => t[2] >= x.lo[2]) /\ (t[1] = x.hi[1] => t[2] =< x.hi[2])}
SpaceIsTrue(e) ==
    \A s \in e.space, d \in __dscbdv(e.dsn, e.volser), tpc \in __dscbv(e.volser) :
        d.noepv =< 3 => s.alloc_trks = Cardinality(UNION {TracksOf(d.extent[i], tpc) : i \in DOMAIN d.extent})
DsIsTrue ==
    result.op = "listds" /\ (lists.kind = "listds" \/ result.faults = {}) =>
            /\ Len(Listed1) = Len(InListing)
            /\ \A i \in DOMAIN Listed1 :
                  LET e == Listed1[i] f == InListing[i]
                  IN  /\ e.dsn = f.name /\ e.volser = Residence(f.name, f.vols[1])
                      /\ e.cat = f.cat \/ (result.faults # {} /\ e.cat = DsNoName)
                      /\ SpaceIsTrue(e)

\* Each DD the options ask for, with the data sets concatenated to it.
Heads ==
    {i \in DOMAIN result.of :
        LET ds == result.of[i]
        IN  /\ ds.dd # DsNoName /\ ~Skipped(ds, result.opt)
            /\ result.ddname # DsNoName => ds.dd = result.ddname /\ \A k \in 1 .. i - 1 : result.of[k].dd # ds.dd}
Concatenation(i) == {k \in i .. Len(result.of) : \A m \in i + 1 .. k : result.of[m].dd = DsNoName}
Names1(s, f) == [i \in DOMAIN s |-> f[s[i]]]
AlIsTrue ==
    result.op = "listal" /\ (lists.kind = "listal" \/ result.faults = {}) =>
        LET heads == SetToSortSeq(Heads, LAMBDA x, y : x < y)
        IN  /\ Len(Listed1) = Len(heads)
            /\ \A i \in DOMAIN heads :
                  LET sets == SetToSortSeq(Concatenation(heads[i]), LAMBDA x, y : x < y)
                      items == Items([array |-> Listed1[i].dslist])
                  IN  /\ Listed1[i].ddname = result.of[heads[i]].dd
                      /\ [k \in DOMAIN items |-> items[k].dsn] = [k \in DOMAIN sets |-> result.of[sets[k]].jfcb.dsn]
                      /\ \A k \in DOMAIN items :
                            (items[k].disp = DsNoName) = ("DSCB" \in result.opt /\ __dscbdv(items[k].dsn, items[k].volser) # {})

\* Each online volume once, with the first comment the VATLST has for it.
Firsts == {i \in DOMAIN result.of : Online(result.of[i]) /\ Chosen(result.filter, result.of[i].vol)
                                     /\ \A k \in 1 .. i - 1 : Online(result.of[k]) => result.of[k].vol # result.of[i].vol}
CommentsOf(vol) == {i \in DOMAIN result.vatlst : vol \in result.vatlst[i].volumes}
VlIsTrue ==
    result.op = "listvl" /\ (lists.kind = "listvl" \/ result.faults = {}) =>
        LET firsts == SetToSortSeq(Firsts, LAMBDA x, y : x < y)
        IN  /\ [i \in DOMAIN Listed1 |-> Listed1[i].cuu] = [i \in DOMAIN firsts |-> result.of[firsts[i]].cuu]
            /\ result.faults = {} =>
                  \A i \in DOMAIN Listed1 :
                     LET hits == CommentsOf(Listed1[i].volser)
                     IN  Listed1[i].text = IF hits = {} THEN DsNoName ELSE result.vatlst[CHOOSE h \in hits : \A g \in hits : h =< g].text

\* The members before the high key, in order, each whole in its block.
DsPlace(b, i) == FoldLeft(LAMBDA n, e : n + Size(e), 2, SubSeq(b.entries, 1, i - 1))
DsWhole(b) == SelectSeq([i \in DOMAIN b.entries |-> [e |-> b.entries[i], end |-> DsPlace(b, i + 1)]], LAMBDA x : x.end =< BlockLength(b))
NamesIn(b) == [i \in DOMAIN DsWhole(b) |-> DsWhole(b)[i].e.name]
BeforeHigh(s) == SubSeq(s, 1, Min({i \in DOMAIN s : s[i] = "high"} \cup {Len(s) + 1}) - 1)
MembersOf(blocks) ==
    SelectSeq(BeforeHigh(FlattenSeq([b \in DOMAIN blocks |-> NamesIn(blocks[b])])), LAMBDA n : Chosen(result.filter, n))
Broken(blocks) == \E b \in DOMAIN blocks : blocks[b].error
PdIsTrue ==
    /\ result.op = "listpd" /\ (lists.kind = "listpd" \/ result.faults = {}) =>
          IF Broken(result.of) THEN lists.kind = "none" /\ result.errno = "EIO"
          ELSE [i \in DOMAIN Listed1 |-> Listed1[i].entry.name] = MembersOf(result.of)
    /\ result.op = "walkpd" /\ result.errno = DsNoName /\ ~Broken(result.of) =>
          result.seen = SubSeq(MembersOf(result.of), 1, Min({result.stop, Len(MembersOf(result.of))})) /\ result.count = Len(result.seen)

\* The fields are those the linkage editor and ISPF wrote.
FormatIsTrue ==
    result.op = "format" /\ result.of.udata # 0 =>
        /\ result.load.aliasof = (IF result.of.alias THEN "REAL" ELSE DsNoName)
        /\ result.load.ssi = (IF "SSI" \in result.of.atr THEN "SSI" ELSE DsNoName)
        /\ result.load.ac = (IF "APF" \in result.of.atr THEN 1 ELSE 0)
        /\ \A s \in result.stats : s.created = [year |-> 126, yday |-> 60]

\* A list that cannot be completed is not returned, and says why.
AllOrNothing ==
    result.op \in {"listds", "listal", "listvl", "listpd"} /\ result.errno # DsNoName => lists.kind = "none"

\* ListsAreTrue: a list says what there is, each entry once and in order,
\* or is not returned at all.
ListsAreTrue == DsIsTrue /\ AlIsTrue /\ VlIsTrue /\ PdIsTrue /\ FormatIsTrue /\ AllOrNothing
============================================================================
