------------------------------- MODULE Members -------------------------------
(***************************************************************************)
(* src/src/mvs/pds, idcams, dscb/@@dadsm.c and stdio's remove and rename:  *)
(* deleting and renaming members and data sets.                            *)
(*                                                                         *)
(* A member is changed by STOW in a data set that is allocated SHR; a      *)
(* whole data set by IDCAMS, which wants it exclusively, or by SCRATCH and *)
(* RENAME on one volume.  The directories, the VTOC, the catalog, STOW and *)
(* IDCAMS are MVS's (external).  Text is a sequence of "a" (a character of *)
(* a word), " ", "'" and "nl".                                             *)
(***************************************************************************)
EXTENDS OsFiles
LOCAL INSTANCE SequencesExt
LOCAL INSTANCE FiniteSetsExt
LOCAL INSTANCE Folds

CONSTANTS
    IDCREC_MAX,         \* the columns of a record IDCAMS reads
    Commands,           \* the commands of callers
    OnVolumes,          \* <<data set, volume>> |-> (member |-> its data)
    InCatalog1,         \* data set |-> volume
    OnlineVolumes,      \* the volumes that are mounted
    Unexpired,          \* data sets SCRATCH keeps unless told otherwise
    OtherDds,           \* data sets another DD of this address space holds
    GivenNames,         \* the names remove and rename are given
    MaxChanges          \* bound: the calls that change something, one after another

VARIABLE pds            \* the volumes, the catalog, what is held exclusively

NoChanges == [vtoc |-> OnVolumes, cat |-> InCatalog1, excl |-> {}, n |-> 0]
MembersInit == pds = NoChanges
PdsCall(faults) == Begin(faults) @@ OsClear @@ [vtoc |-> pds.vtoc, cat |-> pds.cat, excl |-> pds.excl] @@ [ret |-> 0, errno |-> ""]

----------------------------------------------------------------------------
(* The directory of one data set.                                          *)

NoMem == [name |-> "none", lower |-> FALSE]
NewKeys(f, gone, new) == [k \in (DOMAIN f \ gone) \cup DOMAIN new |-> IF k \in DOMAIN new THEN new[k] ELSE f[k]]

\* STOW: delete, change the name, add, replace; area is the entry or the
\* two names.
Stowed(c, ds, old, new) == [c EXCEPT !.vtoc[ds] = NewKeys(@, old, new)]
Stow(c, ds, area, func) ==
    LET has == area.name \in DOMAIN c.vtoc[ds]
    IN  CASE func = "D" -> IF has THEN Stowed(c, ds, {area.name}, <<>>) ELSE [c EXCEPT !.ret = 8]
          [] func = "C" -> IF ~has THEN [c EXCEPT !.ret = 8]
                           ELSE IF area.new \in DOMAIN c.vtoc[ds] THEN [c EXCEPT !.ret = 4]
                           ELSE Stowed(c, ds, {area.name}, area.new :> c.vtoc[ds][area.name])
          [] func = "A" -> IF has THEN [c EXCEPT !.ret = 4] ELSE Stowed(c, ds, {}, area.name :> area.data)
          [] func = "R" -> [Stowed(c, ds, {}, area.name :> area.data) EXCEPT !.ret = IF has THEN 0 ELSE 8]
          [] OTHER -> [c EXCEPT !.ret = -1]
\* how is what the directory lets it do.
__stow(c, ds, area, func, how) ==
    IF how # "ok" /\ func \in {"A", "R", "D", "C"} THEN [c EXCEPT !.ret = IF how = "io" THEN 12 ELSE 16]
    ELSE Stow(c, ds, area, func)

\* __bldl: every name of the list is looked for.
__bldl(c, ds, names) == [c EXCEPT !.ret = IF names \subseteq DOMAIN c.vtoc[ds] THEN 0 ELSE 4]

\* __pdsupd: allocate, open, change, close, unallocate.  OPEN succeeds when
\* the data set is there.
Place1(c, dsn, vol) == <<dsn, IF vol # "" THEN vol ELSE IF dsn \in DOMAIN c.cat THEN c.cat[dsn] ELSE "">>
Found1(c, dsn, vol) == IF vol # "" THEN <<dsn, vol>> \in DOMAIN c.vtoc ELSE dsn \in DOMAIN c.cat
Changed(c, ds, area, func, how) == IF c.ret # 0 THEN [c EXCEPT !.ret = -3] ELSE __stow(c, ds, area, func, how)
OpenHow(c, ds, how) == IF ds \in DOMAIN c.vtoc /\ how # "noopen" THEN "ok" ELSE "abend"
WithDcb(c, dd, ds, area, func, how) ==
    IF c.dcb = NoDcb THEN [Release(c, dd) EXCEPT !.ret = -1]
    ELSE Release(osbclose(Changed(osbopen(c, "write", OpenHow(c, ds, how)), ds, area, func, how), TRUE, FALSE), dd)
WithDd(c, ds, area, func, how) ==
    IF c.got = NULL THEN [c EXCEPT !.ret = -2]
    ELSE WithDcb(osbdcb(Obtain(c, "dcb"), <<>>), c.got, ds, area, func, how)

__pdsupd(c, dsn, vol, area, func, how) ==
    IF Found1(c, dsn, vol) THEN WithDd(Obtain(c, "dd"), Place1(c, dsn, vol), area, func, how) ELSE [c EXCEPT !.ret = -2]

\* A member's name is folded to upper case; NULL and an empty name are
\* refused.
__pdsmem(m) == m.name
NoMember(m) == m = NoMem \/ m.name = ""
__delmemv(c, dsn, vol, mem, how) ==
    IF dsn = "" \/ NoMember(mem) THEN [c EXCEPT !.ret = -1]
    ELSE __pdsupd(c, dsn, vol, [name |-> __pdsmem(mem)], "D", how)
__renmemv(c, dsn, vol, old, new, how) ==
    IF dsn = "" \/ NoMember(old) \/ NoMember(new) THEN [c EXCEPT !.ret = -1]
    ELSE __pdsupd(c, dsn, vol, [name |-> __pdsmem(old), new |-> __pdsmem(new)], "C", how)
__delmem(c, dsn, mem, how) == __delmemv(c, dsn, "", mem, how)
__renmem(c, dsn, old, new, how) == __renmemv(c, dsn, "", old, new, how)

----------------------------------------------------------------------------
(* Commands for IDCAMS, record by record.                                  *)

Line1(s) == SelectInSeq(s, LAMBDA x : x = "nl")
LineLength(s) == IF Line1(s) = 0 THEN Len(s) ELSE Line1(s) - 1
Pre(cont) == IF cont THEN 1 ELSE 0
Lead(cont) == IF cont THEN <<" ">> ELSE <<>>

\* The blank a line is broken at: the last that leaves room for itself and
\* the "-", outside quotes, and not column 1.
Quotes(s, i) == Cardinality({k \in 1 .. i : s[k] = "'"}) % 2 = 1
Breaks(s, len, pre) == {i \in 1 .. len : pre + i + 1 =< IDCREC_MAX /\ s[i] = " " /\ ~Quotes(s, i) /\ pre + i > 1}
SkipBlanks(s) == SubSeq(s, Min({i \in DOMAIN s : s[i] # " "} \cup {Len(s) + 1}), Len(s))

\* The rest of the line in one record, or as much of it as fits.
WholeLine(x, len) ==
    [next |-> SubSeq(x.next, len + 2, Len(x.next)), cont |-> FALSE, rc |-> 0,
     recs |-> Append(x.recs, Lead(x.cont) \o SubSeq(x.next, 1, len))]
PartLine(x, b) ==
    [next |-> SkipBlanks(SubSeq(x.next, b + 1, Len(x.next))), cont |-> TRUE, rc |-> 0,
     recs |-> Append(x.recs, Lead(x.cont) \o SubSeq(x.next, 1, b) \o <<"-">>)]
Broken1(x, breaks) == IF breaks = {} THEN [x EXCEPT !.rc = -2] ELSE PartLine(x, Max(breaks))
__idcrec(x) ==
    IF x.next = <<>> THEN [x EXCEPT !.rc = -1]
    ELSE IF Pre(x.cont) + LineLength(x.next) =< IDCREC_MAX THEN WholeLine(x, LineLength(x.next))
    ELSE Broken1(x, Breaks(x.next, LineLength(x.next), Pre(x.cont)))

\* The records of a command, until it ends or cannot be broken.
IdcStart(cmd) == [next |-> cmd, cont |-> FALSE, rc |-> 0, recs |-> <<>>]
RecordsOf(cmd) == FoldLeft(LAMBDA x, i : IF x.rc = 0 THEN __idcrec(x) ELSE x, IdcStart(cmd), [i \in 1 .. Len(cmd) + 1 |-> i])
__idcchk(cmd) == IF RecordsOf(cmd).rc = -2 THEN -2 ELSE 0

\* IDCAMS: what it does with the data sets its command names.  It wants
\* them exclusively, and an ENQ that was shared stays exclusive.
Exclusive(c, names) == [c EXCEPT !.excl = @ \cup (names \cap OtherDds)]
Missing1(c, dsn) == dsn \notin DOMAIN c.cat \/ <<dsn, c.cat[dsn]>> \notin DOMAIN c.vtoc
Deleted(c, dsn) ==
    IF Missing1(c, dsn) THEN [c EXCEPT !.ret = 8]
    ELSE [c EXCEPT !.vtoc = NewKeys(@, {<<dsn, c.cat[dsn]>>}, <<>>), !.cat = NewKeys(@, {dsn}, <<>>)]
Altered(c, dsn, new) ==
    IF Missing1(c, dsn) \/ new \in DOMAIN c.cat \/ <<new, c.cat[dsn]>> \in DOMAIN c.vtoc THEN [c EXCEPT !.ret = 8]
    ELSE [c EXCEPT !.vtoc = NewKeys(@, {<<dsn, c.cat[dsn]>>}, <<new, c.cat[dsn]>> :> c.vtoc[<<dsn, c.cat[dsn]>>]),
                   !.cat = NewKeys(@, {dsn}, new :> c.cat[dsn])]
IDCAMS(c, what, dsn, new) ==
    CASE what = "DELETE" -> Deleted(Exclusive(c, {dsn}), dsn)
      [] what = "ALTER" -> Altered(Exclusive(c, {dsn}), dsn, new)
      [] OTHER -> [Exclusive(c, {dsn}) EXCEPT !.ret = 12]

\* link_idcams: nothing is asked of IDCAMS when a line cannot be broken;
\* link is 0, or why LINK failed, its sign turned: IDCAMS may have abended
\* when its work was done.
Linked(c, link) == IF link = 0 THEN c ELSE [c EXCEPT !.ret = IF link > 0 THEN -link ELSE link]
link_idcams(c, cmd, what, dsn, new, link) ==
    IF __idcchk(cmd) # 0 THEN [c EXCEPT !.ret = -1, !.errno = "EINVAL"]
    ELSE Linked(IF link \notin {0, 322} THEN c ELSE IDCAMS(c, what, dsn, new), link)

\* The exit: GET gives the next record or 4, PUT calls the caller's
\* function with the number of the message.
idc_number(line) == IF Len(line) < 9 \/ SubSeq(line, 2, 4) # <<"I", "D", "C">> \/ \E i \in 5 .. 8 : line[i] \notin 0 .. 9 THEN 0
                    ELSE FoldLeft(LAMBDA n, d : n * 10 + d, 0, SubSeq(line, 5, 8))
__idcexc(x, op, line, fn) ==
    CASE op = "GET" -> [x |-> __idcrec(x), rc |-> IF __idcrec(x).rc < 0 THEN 4 ELSE 0, calls |-> <<>>]
      [] op = "PUT" -> [x |-> x, rc |-> 0, calls |-> IF fn THEN <<idc_number(line)>> ELSE <<>>]
      [] OTHER -> [x |-> x, rc |-> 0, calls |-> <<>>]

----------------------------------------------------------------------------
(* remove and rename.                                                      *)

\* dsn(member), exactly: the data set has 1 to 44 characters, the member 1
\* to 8 that are those of a member's name.  dsn(0) is no member.
MemberSyntax(n) == ~n.slash /\ n.paren /\ n.dsnlen \in 1 .. 44 /\ n.closed /\ n.memlen \in 1 .. 8 /\ n.alnum
Word(n) == [i \in 1 .. n |-> "a"]
\* What the name is for IDCAMS: a data set, a generation, or neither.
Verb(n, verb) == IF n.paren /\ ~n.gdg THEN "bad" ELSE verb
remove(c, n, how, link) ==
    IF MemberSyntax(n) THEN __delmem(c, n.dsn, n.mem, how)
    ELSE link_idcams(c, <<" ", "a", " ">> \o Word(n.length), Verb(n, "DELETE"), n.dsn, "", link)
rename(c, old, new, how, link) ==
    IF MemberSyntax(old) /\ MemberSyntax(new) /\ old.dsn = new.dsn THEN __renmem(c, old.dsn, old.mem, new.mem, how)
    ELSE link_idcams(c, <<" ", "a", " ">> \o Word(old.length) \o <<" ">> \o Word(new.length),
                     IF new.paren THEN "bad" ELSE Verb(old, "ALTER"), old.dsn, new.dsn, link)

----------------------------------------------------------------------------
(* SCRATCH and RENAME on one volume.                                       *)

\* pad: a name of 1 to len characters.
pad(length, len) == length \in 1 .. len
\* voltype: a mounted, online disk of that name.
voltype(vol) == vol \in OnlineVolumes
STATUS_ERR == <<"EIO", "ENOENT", "EACCES", "EPERM", "EIO", "ENODEV", "ENXIO", "EBUSY">>
statuserr(status, renaming) ==
    IF status = 3 /\ renaming THEN "EEXIST" ELSE IF status < 8 THEN STATUS_ERR[status + 1] ELSE "EIO"
DadsmErrno(rc, status, renaming) == IF rc = 4 THEN "ENODEV" ELSE IF rc = 8 THEN statuserr(status, renaming) ELSE IF rc # 0 THEN "EINVAL" ELSE ""

\* SVC 29 and SVC 30: the return code and the status of the volume; told
\* is what else may be wrong, 0 when nothing is.
VolumeStatus(c, a, told) ==
    CASE told # 0 -> told
      [] told = 0 /\ <<a.dsn, a.vol>> \notin DOMAIN c.vtoc -> 1
      [] told = 0 /\ <<a.dsn, a.vol>> \in DOMAIN c.vtoc /\ (IF a.renaming THEN <<a.new, a.vol>> \in DOMAIN c.vtoc ELSE a.dsn \in Unexpired /\ ~a.ovrd) -> 3
      [] OTHER -> 0
Svc(c, a, status) ==
    IF status # 0 THEN c
    ELSE [c EXCEPT !.vtoc = NewKeys(@, {<<a.dsn, a.vol>>}, IF a.renaming THEN <<a.new, a.vol>> :> c.vtoc[<<a.dsn, a.vol>>] ELSE <<>>)]
Ended1(c, a, rc, status) == [(IF rc = 0 THEN Svc(c, a, 0) ELSE c) EXCEPT !.ret = rc, !.errno = DadsmErrno(rc, status, a.renaming)]
Asked1(c, a, rc, status) == Ended1(c, a, IF rc # 0 THEN rc ELSE IF status # 0 THEN 8 ELSE 0, status)
dadsm(c, a, rc, told) ==
    IF ~pad(a.dsnlen, 44) \/ ~pad(a.vollen, 6) \/ (a.renaming /\ ~pad(a.newlen, 44)) THEN [c EXCEPT !.ret = -1, !.errno = "EINVAL"]
    ELSE IF ~voltype(a.vol) THEN [c EXCEPT !.ret = -1, !.errno = "ENODEV"]
    ELSE Asked1(c, a, rc, VolumeStatus(c, a, told))
__scratch(c, dsn, vol, ovrd, len, rc, told) ==
    dadsm(c, [dsn |-> dsn, vol |-> vol, new |-> "", ovrd |-> ovrd, renaming |-> FALSE, dsnlen |-> len, vollen |-> 2, newlen |-> 0], rc, told)
__renamev(c, dsn, vol, new, len, rc, told) ==
    IF new = "" THEN [c EXCEPT !.ret = -1, !.errno = "EINVAL"]
    ELSE dadsm(c, [dsn |-> dsn, vol |-> vol, new |-> new, ovrd |-> FALSE, renaming |-> TRUE, dsnlen |-> 1, vollen |-> 2, newlen |-> len], rc, told)

----------------------------------------------------------------------------
(* The callers.                                                            *)

PdsDone(c, op, more) ==
    /\ pds' = [vtoc |-> c.vtoc, cat |-> c.cat, excl |-> c.excl,
               n |-> pds.n + IF c.vtoc = pds.vtoc /\ c.cat = pds.cat /\ c.excl = pds.excl THEN 0 ELSE 1]
    /\ End(c, [op |-> op, ret |-> c.ret, errno |-> c.errno, before |-> pds] @@ more)
PdsReady == Ready /\ pds.n < MaxChanges
Hows == {"ok", "io", "space", "noopen"}
DataSets == {d[1] : d \in DOMAIN OnVolumes} \cup {"A", "B"}
MemberNames == {NoMem, [name |-> "", lower |-> FALSE]} \cup {[name |-> "X", lower |-> FALSE], [name |-> "Y", lower |-> TRUE]}

DeleteMember ==
    /\ PdsReady
    /\ \E dsn \in DataSets \cup {""}, vol \in OnlineVolumes \cup {""}, m \in MemberNames, how \in Hows, faults \in OneFault(3) :
          /\ faults = {} \/ how = "ok"
          /\ PdsDone(__delmemv(PdsCall(faults), dsn, vol, m, how), "member", [what |-> "D", dsn |-> dsn, vol |-> vol, old |-> m, how |-> how, faults |-> faults])
RenameMember ==
    /\ PdsReady
    /\ \E dsn \in DataSets, vol \in OnlineVolumes \cup {""}, m, new \in MemberNames, how \in {"ok", "io"} :
          PdsDone(__renmemv(PdsCall({}), dsn, vol, m, new, how), "member",
                  [what |-> "C", dsn |-> dsn, vol |-> vol, old |-> m, new |-> new, how |-> how, faults |-> {}])
StowMember ==
    /\ PdsReady
    /\ \E ds \in {d \in DOMAIN pds.vtoc : d[1] = "G"}, name \in {"X", "Y"}, func \in {"A", "R", "Q"}, how \in {"ok", "io", "space"} :
          PdsDone(__stow(PdsCall({}), ds, [name |-> name, data |-> 1], func, how), "stow", [func |-> func, ds |-> ds, name |-> name])
FindMembers ==
    /\ PdsReady
    /\ \E ds \in DOMAIN pds.vtoc, names \in SUBSET {"X", "Y"} :
          PdsDone(__bldl(PdsCall({}), ds, names), "bldl", [ds |-> ds, names |-> names])
Links == {0, 322, 806, -1}
RemoveFile ==
    /\ PdsReady
    /\ \E n \in GivenNames, how \in Hows, link \in Links :
          PdsDone(remove(PdsCall({}), n, how, link), "remove", [old |-> n, how |-> how, link |-> link])
RenameFile ==
    /\ PdsReady
    /\ \E old, new \in GivenNames, how \in {"ok", "io"}, link \in {0, 806} :
          PdsDone(rename(PdsCall({}), old, new, how, link), "rename", [old |-> old, new |-> new, how |-> how, link |-> link])
\* What is wrong with a call: the length of a name, the return code, or the
\* status of the volume.
Troubles == {[len |-> n, rc |-> 0, told |-> 0] : n \in {0, 1, 45}} \cup {[len |-> 1, rc |-> r, told |-> 0] : r \in {4, 12}}
            \cup {[len |-> 1, rc |-> 0, told |-> s] : s \in {2, 4, 5, 6, 7, 9}}
Scratch ==
    /\ PdsReady
    /\ \E dsn \in DataSets, vol \in OnlineVolumes \cup {"V9"}, ovrd \in BOOLEAN, w \in Troubles :
          PdsDone(__scratch(PdsCall({}), dsn, vol, ovrd, w.len, w.rc, w.told), "scratch",
                  [dsn |-> dsn, vol |-> vol, told |-> w.told, ok |-> w.len = 1 /\ w.rc = 0, ovrd |-> ovrd])
Renamev ==
    /\ PdsReady
    /\ \E dsn, new \in DataSets \cup {""}, vol \in OnlineVolumes, len \in {1, 45}, told \in {0, 4} :
          /\ dsn # ""
          /\ PdsDone(__renamev(PdsCall({}), dsn, vol, new, len, 0, told), "renamev",
                     [dsn |-> dsn, vol |-> vol, new |-> new, told |-> told, ok |-> len = 1 /\ new # ""])
\* The records of a command as the exit hands them out, one GET after
\* another; a message as it is printed.
RunCommand ==
    /\ Ready /\ pds = NoChanges
    /\ \E cmd \in Commands :
          LET gets == FoldLeft(LAMBDA s, i : IF s.rc = 0 THEN __idcexc(s.x, "GET", <<>>, FALSE) ELSE s,
                               [x |-> IdcStart(cmd), rc |-> 0, calls |-> <<>>], [i \in 1 .. Len(cmd) + 1 |-> i])
          IN  PdsDone([PdsCall({}) EXCEPT !.ret = __idcchk(cmd)], "command", [cmd |-> cmd, recs |-> gets.x.recs])
Message ==
    /\ Ready /\ pds = NoChanges
    /\ \E number \in {1, 3012}, fn, short, other \in BOOLEAN :
          LET digits == <<number \div 1000, (number \div 100) % 10, (number \div 10) % 10, number % 10>>
              line == <<" ">> \o (IF other THEN <<"T", "H", "E">> ELSE <<"I", "D", "C">>) \o digits \o (IF short THEN <<>> ELSE <<"I">>)
          IN  PdsDone(PdsCall({}), "message", [number |-> IF short \/ other THEN 0 ELSE number, fn |-> fn, calls |-> __idcexc(IdcStart(<<>>), "PUT", line, fn).calls])

PdsNext ==
    \/ DeleteMember \/ RenameMember \/ StowMember \/ FindMembers \/ RemoveFile \/ RenameFile \/ Scratch \/ Renamev \/ RunCommand \/ Message
    \/ Ready /\ pds.n = MaxChanges /\ pds' = NoChanges /\ UNCHANGED <<ledger, result>>
    \/ See /\ UNCHANGED pds

----------------------------------------------------------------------------
(* What the caller may rely on.                                            *)

SameButExcl == pds.vtoc = result.before.vtoc /\ pds.cat = result.before.cat
Where1(dsn, vol) == Place1(result.before, dsn, vol)
Given1(n) == [dsn |-> n.dsn, vol |-> "", old |-> n.mem]

\* A member call that succeeds changed the member of the data set that was
\* named, on the volume that was named, and kept its data; one that fails
\* changed nothing.  Neither takes the data set from other users.
MemberIs(what, dsn, vol, old, new) ==
    LET ds == Where1(dsn, vol)
        was == result.before.vtoc
    IN  /\ pds.cat = result.before.cat /\ pds.excl = result.before.excl
        /\ result.ret # 0 => pds.vtoc = was
        /\ result.ret = 0 =>
              /\ ds \in DOMAIN was /\ old.name \in DOMAIN was[ds]
              /\ \A d \in DOMAIN was \ {ds} : d \in DOMAIN pds.vtoc /\ pds.vtoc[d] = was[d]
              /\ Cardinality(DOMAIN pds.vtoc[ds]) = Cardinality(DOMAIN was[ds]) - (IF what = "D" THEN 1 ELSE 0)
              /\ old.name \notin DOMAIN pds.vtoc[ds]
              /\ what = "C" => new.name \in DOMAIN pds.vtoc[ds] /\ pds.vtoc[ds][new.name] = was[ds][old.name]
OfMember == result.op \in {"remove", "rename"} /\ MemberSyntax(result.old)
MembersOk ==
    /\ result.op = "member" => MemberIs(result.what, result.dsn, result.vol, result.old, IF result.what = "C" THEN result.new ELSE NoMem)
    /\ result.op = "remove" /\ OfMember => MemberIs("D", result.old.dsn, "", result.old.mem, NoMem)
    /\ result.op = "rename" /\ OfMember /\ MemberSyntax(result.new) /\ result.new.dsn = result.old.dsn =>
          MemberIs("C", result.old.dsn, "", result.old.mem, result.new.mem)

\* A generation of a group is removed as the data set it is.
WholeOk ==
    result.op = "remove" /\ ~OfMember /\ result.ret = 0 =>
        result.old.dsn \in DOMAIN result.before.cat /\ result.old.dsn \notin DOMAIN pds.cat
            /\ (~result.old.paren \/ result.old.gdg)

\* SCRATCH and RENAME touch the volume and not the catalog, and say why
\* they did not.
DadsmOk ==
    result.op \in {"scratch", "renamev"} =>
        LET ds == <<result.dsn, result.vol>> was == result.before.vtoc
        IN  /\ pds.cat = result.before.cat
            /\ (result.ret = 0) = (result.errno = "")
            /\ result.ret # 0 => pds.vtoc = was
            /\ result.ret = 0 => ds \in DOMAIN was /\ ds \notin DOMAIN pds.vtoc /\ result.told = 0
            /\ result.op = "renamev" /\ result.ret = 0 => pds.vtoc[<<result.new, result.vol>>] = was[ds]
            /\ result.op = "renamev" /\ result.ok /\ result.told = 0 /\ ds \in DOMAIN was /\ <<result.new, result.vol>> \in DOMAIN was =>
                  result.errno = "EEXIST"
            /\ result.op = "scratch" /\ result.ok /\ result.told = 0 /\ result.dsn \in Unexpired /\ ds \in DOMAIN was /\ result.vol \in OnlineVolumes =>
                  result.ret = IF result.ovrd THEN 0 ELSE 8

\* IDCAMS is given every word of a command, in order and uncut, and each
\* quoted string whole; a command is refused only for a word that does not
\* fit a record.
Ascending(set, n) == SelectSeq([i \in 1 .. n + 1 |-> i - 1], LAMBDA i : i \in set)
TokensOf(s) ==
    LET cuts == {0, Len(s) + 1} \cup {i \in DOMAIN s : s[i] = " " /\ ~Quotes(s, i)}
        from == Ascending(cuts, Len(s) + 1)
    IN  SelectSeq([k \in 1 .. Len(from) - 1 |-> SubSeq(s, from[k] + 1, from[k + 1] - 1)], LAMBDA w : w # <<>>)
LinesOf1(s) ==
    LET ends == Ascending({i \in DOMAIN s : s[i] = "nl"} \cup {0, Len(s) + 1}, Len(s) + 1)
    IN  [k \in 1 .. Len(ends) - 1 |-> SubSeq(s, ends[k] + 1, ends[k + 1] - 1)]
WordsOf(lines) == FlattenSeq([k \in DOMAIN lines |-> TokensOf(lines[k])])
Uncontinued(r) == IF r # <<>> /\ r[Len(r)] = "-" THEN SubSeq(r, 1, Len(r) - 1) ELSE r
CommandOk ==
    result.op = "command" =>
        /\ \A i \in DOMAIN result.recs : Len(result.recs[i]) =< IDCREC_MAX
        /\ result.ret = 0 => WordsOf([i \in DOMAIN result.recs |-> Uncontinued(result.recs[i])]) = WordsOf(LinesOf1(result.cmd))
        /\ result.ret # 0 => \E i \in DOMAIN WordsOf(LinesOf1(result.cmd)) : Len(WordsOf(LinesOf1(result.cmd))[i]) > IDCREC_MAX - 3
MessageOk == result.op = "message" => result.calls = IF result.fn THEN <<result.number>> ELSE <<>>

\* MembersAreTrue: deleting and renaming do exactly what was asked, or
\* nothing, and IDCAMS is told all of it.
MembersAreTrue == MembersOk /\ WholeOk /\ DadsmOk /\ CommandOk /\ MessageOk
============================================================================
