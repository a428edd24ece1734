----------------------------- MODULE MCServices -----------------------------
(* The pure functions and the system services, one component at a time.    *)
EXTENDS Array, CleanupStack, DynAlloc, Jes, JesSpool, OpenStreams, VsamFile, DsLists, Members, Sockets, Programs,
        MCLibrary

CONSTANT Components     \* the components of this run

VARIABLE of             \* the component whose services are called

services == <<ledger, result, arr, stack, dyn, jes, spool, files, vsam, lists, os, pds, so, env, rt, of>>

\* Values of the __tx functions: numbers, names and words.
V(txt, len, num) == [txt |-> txt, len |-> len, num |-> num, parts |-> <<>>]
L(txt, len, parts) == [txt |-> txt, len |-> len, num |-> 0, parts |-> parts]
TextN(len) == V("text", len, 0)
MC_Values ==
    {V("number", 1, n) : n \in {-1, 0, 1, 99, 100, 128, 255, 256, 9999, 10000, 32760, 32761, 93001}}
    \cup {V(t, 2, 0) : t \in {"L", "X", "PS", "DAU", "SUL", "SU", "E", "C", "D", "SKP", "ALIGN",
                              "VERIFY", "FOLD"}}
    \cup {V("K", 2, k) : k \in {1, 32}} \cup {V("800", 3, 800)}
    \cup {L("FB", 2, <<"F", "B">>), L("U", 1, <<"U">>), L("Q", 1, <<"Q">>)}
    \cup {TextN(n) : n \in {0, 1, 4, 5, 8, 9, 44, 45}}
MC_Names ==
    {NoValue, L("A.B", 3, <<TextN(3), NoValue>>), L("A.B(M)", 6, <<TextN(3), TextN(1)>>),
     L("A.B(", 4, <<TextN(3), V("(", 0, 0)>>), L("(M)", 3, <<TextN(0), TextN(1)>>),
     L("long", 79, <<TextN(45), NoValue>>), L("longer", 80, <<TextN(45), TextN(30)>>)}
    \ {NoValue}
Q(n) == V("number", 1, n)
MC_Spaces == {NoValue, L("1", 1, <<Q(1), Q(0), Q(0)>>), L("1,2,3", 5, <<Q(1), Q(2), Q(3)>>)}
TwoVolumes == L("V1,V2", 5, <<V("V1", 2, 0), V("V2", 2, 0)>>)
MC_Volumes == {NoValue, L("V1", 2, <<TextN(2)>>), TwoVolumes, L(",", 1, <<>>)}

\* Allocations: nothing, everything, one thing, everything but one.
NoOption == [crt |-> TRUE, ddn |-> NoValue, dsn |-> NoValue, hasdisp |-> FALSE, disp |-> <<>>,
             dcbdsn |-> NoValue, dsorg |-> NoValue, recfm |-> NoValue, lrecl |-> NoValue,
             blksize |-> NoValue, space |-> <<>>, unit |-> NoValue, volser |-> NoValue,
             mount |-> FALSE, freeclose |-> FALSE]
AllOptions == [crt |-> TRUE, ddn |-> TextN(4), dsn |-> L("A.B(M)", 6, <<TextN(3), TextN(1)>>),
               hasdisp |-> TRUE, disp |-> <<"NEW", "CATLG", "DELETE">>, dcbdsn |-> TextN(8),
               dsorg |-> V("PS", 2, 0), recfm |-> L("FB", 2, <<"F", "B">>), lrecl |-> Q(80),
               blksize |-> Q(800),
               space |-> <<[unit |-> V("TRK", 3, 0), qty |-> L("1,2,3", 5, <<Q(1), Q(2), Q(3)>>)]>>,
               unit |-> TextN(4), volser |-> L("V1", 2, <<TextN(2)>>), mount |-> TRUE, freeclose |-> TRUE]
OneOf(none, all) == {[none EXCEPT ![f] = all[f]] : f \in DOMAIN none}
Allbut(none, all) == {[all EXCEPT ![f] = none[f]] : f \in DOMAIN none}
Disps == {<<"", "KEEP">>, <<"OLD", "UNCATLG", "UNCATLG">>, <<"SHR", "DELETE", "KEEP">>,
          <<"MOD", "KEEP", "CATLG">>, <<"BAD">>, <<"NEW", "BAD">>, <<"NEW", "KEEP", "BAD">>}
MC_Allocations ==
    {NoOption, AllOptions, [NoOption EXCEPT !.crt = FALSE]}
    \cup {o \in OneOf(NoOption, AllOptions) \cup Allbut(NoOption, AllOptions) : o.hasdisp = (o.disp # <<>>)}
    \cup {[NoOption EXCEPT !.volser = TwoVolumes]}
    \cup {[NoOption EXCEPT !.hasdisp = TRUE, !.disp = d] : d \in Disps \cup {<<>>}}
    \cup {[NoOption EXCEPT !.space = <<[unit |-> u, qty |-> q]>>] :
             u \in {V("CYL", 3, 0), V("800", 3, 800), V("BAD", 3, 0)}, q \in MC_Spaces}

NoDyn == [sms |-> FALSE, ddname |-> 0, dsname |-> 0, member |-> 0, status |-> 0, normdisp |-> 0,
          conddisp |-> 0, sysout |-> 0, sysoutname |-> 0, unit |-> 0, volser |-> 0, volrefds |-> 0,
          dcbrefds |-> 0, dcbrefdd |-> 0, dsorg |-> 0, recfm |-> 0, blksize |-> 0, lrecl |-> 0,
          keylength |-> 0, alcunit |-> "", avgblk |-> 0, primary |-> 0, secondary |-> 0,
          dirblk |-> 0, flags |-> {}, password |-> 0, misc |-> 0]
AllDyn == [sms |-> TRUE, ddname |-> 9, dsname |-> 50, member |-> 9, status |-> 4, normdisp |-> 2,
           conddisp |-> 4, sysout |-> 65, sysoutname |-> 9, unit |-> 9, volser |-> 7, volrefds |-> 50,
           dcbrefds |-> 50, dcbrefdd |-> 9, dsorg |-> 16384, recfm |-> 255, blksize |-> 65535,
           lrecl |-> 65535, keylength |-> 255, alcunit |-> "CYL", avgblk |-> 1, primary |-> 16777215,
           secondary |-> 1, dirblk |-> 1,
           flags |-> {"CLOSE", "RLSE", "PERMA", "SPFRM", "ROUND", "TERM", "DUMMY", "SHOLD"},
           password |-> 9, misc |-> 4]
FullDyn == [AllDyn EXCEPT !.sms = FALSE]
MC_Dyns ==
    {NoDyn, AllDyn, FullDyn, [FullDyn EXCEPT !.misc = 30]}
    \cup OneOf(NoDyn, AllDyn) \cup Allbut(NoDyn, FullDyn)
    \cup {[FullDyn EXCEPT !.recfm = n, !.misc = 0] : n \in {-1, 256}} \cup {[FullDyn EXCEPT !.primary = 16777216, !.misc = 0],
          [FullDyn EXCEPT !.keylength = 256, !.misc = 0], [FullDyn EXCEPT !.alcunit = "BLK", !.misc = 0], [NoDyn EXCEPT !.misc = 49],
          [NoDyn EXCEPT !.sysout = -1], [NoDyn EXCEPT !.misc = 48], [NoDyn EXCEPT !.dsname = 8, !.alcunit = "TRK"]}

\* Records of a spool block: lines that are empty, fill the block or run
\* past it, and parts that do or do not fit what was announced.
R(len, cc, text) == [span |-> FALSE, first |-> FALSE, last |-> FALSE, cc |-> cc, len |-> len,
                     len2 |-> 0, total |-> 0, part |-> <<0, 0>>, text |-> text]
P(first, last, total, len2, cc, text) ==
    [span |-> TRUE, first |-> first, last |-> last, cc |-> cc, len |-> 0, len2 |-> len2,
     total |-> total, part |-> <<0, 0>>, text |-> text]
Short == {R(0, FALSE, <<>>), R(0, TRUE, <<>>), R(10, FALSE, <<>>),
          P(TRUE, FALSE, 20, 10, TRUE, <<>>), P(FALSE, FALSE, 0, 5, FALSE, <<>>), P(FALSE, TRUE, 0, 5, FALSE, <<>>)}
Long == {R(26, TRUE, <<>>), R(28, FALSE, <<>>), P(FALSE, TRUE, 0, 12, FALSE, <<>>), P(TRUE, TRUE, 8, 8, FALSE, <<>>),
         P(TRUE, FALSE, 30, 26, FALSE, <<>>), P(TRUE, TRUE, 0, 0, FALSE, <<>>), P(TRUE, FALSE, 24, 23, TRUE, <<>>)}
MC_Contents == {<<>>} \cup {<<r>> : r \in Short \cup Long} \cup {<<r, q>> : r, q \in Short}

\* Statements of a job's internal text.
Ent(key, len, text) == [key |-> key, len |-> len, size |-> len + 1, text |-> text]
S(kind, proc, entries) == [kind |-> kind, proc |-> proc, entries |-> entries]
JobStmt == S("JOB", FALSE, <<Ent("JOB", 1, "A"), Ent("USER", 1, "U")>>)
StepStmt(n) == S("EXEC", FALSE, <<Ent("EXEC", 2, n), Ent("PGM", 3, "PGM")>>)
ProcStmt == S("EXEC", TRUE, <<Ent("EXEC", 2, "P1")>>)
OutStmt(n, d) == S("DD", FALSE, <<Ent("DD", 2, n), Ent("DSNAME", 6, <<"SO", d>>), Ent("SYSOUT", 1, "*")>>)
InStmt(n, d) == S("DD", FALSE, <<Ent("DD", 2, n), Ent("DSNAME", 6, <<"SI", d>>), Ent("SYSIN", 1, "1")>>)
Statement(s) == <<R(IF s.kind = "DD" THEN 25 ELSE 17, FALSE, s)>>
Spanned(s) == <<<<P(TRUE, FALSE, 25, 15, FALSE, s)>>, <<P(FALSE, TRUE, 0, 10, FALSE, s)>>>>
Blocks(contents, last) ==
    [b \in DOMAIN contents |-> Block(contents[b], b, IF b = Len(contents) THEN last ELSE "ours",
                                     IF b = Len(contents) THEN "end" ELSE "on")]
JclTexts ==
    {Blocks(<<Statement(JobStmt), Statement(StepStmt("S1")), Statement(OutStmt("D1", 101)),
              Statement(ProcStmt), Statement(InStmt("D2", 102)), Statement(StepStmt("S2"))>>
            \o Spanned(OutStmt("D3", 103)), last) : last \in {"ours", "unreadable"}}
    \cup {Blocks(<<Statement(JobStmt), <<R(2, FALSE, JobStmt)>>, Statement(S("PROC", FALSE, <<>>)),
                   Spanned(OutStmt("D1", 101))[1], Spanned(OutStmt("D1", 101))[1],
                   Statement(OutStmt("D4", 999)), <<R(28, FALSE, StepStmt("S2"))>>>>, "ours")}
Pddb(k, m) == [key |-> k, mttr |-> m]
Iot(ok, pddbp, entries) == [ok |-> ok, pddbp |-> pddbp, entries |-> entries]
Iots == {<<Iot(TRUE, 4, <<Pddb(5, 1), Pddb(103, 1), Pddb(101, 1), Pddb(2, 0)>>),
           Iot(TRUE, 99, <<Pddb(102, 1), Pddb(101, 1), Pddb(0, 1), Pddb(104, 1)>>)>>,
         <<Iot(TRUE, 2, <<Pddb(102, 1), Pddb(5, 1), Pddb(104, 1), Pddb(4, 1)>>), Iot(FALSE, 4, <<>>)>>,
         <<Iot(TRUE, 1, <<Pddb(5, 1)>>), Iot(TRUE, 2, <<Pddb(0, 0), Pddb(5, 0)>>)>>}
J(name, kind, iots, text, queue, jct) ==
    [name |-> name, kind |-> kind, iots |-> iots, spin |-> <<Iot(TRUE, 1, <<Pddb(105, 1), Pddb(106, 1)>>)>>,
     text |-> text, queue |-> queue, jct |-> jct]
MC_Jobs == {J("A", "JOB", i, t, "EXEC", TRUE) : i \in Iots, t \in JclTexts}
           \cup {J("B", "TSU", i, t, "EXEC", TRUE) : i \in {x \in Iots : Len(x[1].entries) = 1}, t \in JclTexts}
           \cup {J("SYSLOG", "STC", <<>>, <<>>, "EXEC", TRUE), J("A", "JOB", <<>>, <<>>, "FREE", TRUE),
                 J("A", "JOB", <<>>, <<>>, "EXEC", FALSE)}
MC_Checkpoints == {<<>>} \cup {<<j>> : j \in MC_Jobs} \cup {<<j, k>> : j, k \in {x \in MC_Jobs : x.kind # "JOB" \/ ~x.jct}}
                  \cup {<<j, k>> : j \in {x \in MC_Jobs : x.kind = "STC"}, k \in MC_Jobs}

\* Streams: data sets and devices, modes, names and the options of new ones.
Disk == [dev |-> "disk", max |-> 19069, missing |-> FALSE, spool |-> FALSE, dummy |-> FALSE, po |-> FALSE,
         jclmem |-> FALSE, found |-> TRUE, type |-> "", blocked |-> FALSE, lrecl |-> 0, blksize |-> 0,
         ncp |-> 0, tmp |-> TRUE]
Fmt(w, type, lrecl, blksize) ==
    [w EXCEPT !.type = type, !.lrecl = lrecl, !.blksize = blksize, !.blocked = blksize > lrecl]
Pds == [Fmt(Disk, "F", 80, 800) EXCEPT !.po = TRUE]
Others == {[Disk EXCEPT !.missing = TRUE], [Disk EXCEPT !.dummy = TRUE],
           [Disk EXCEPT !.dev = "unit", !.max = 80], [Fmt(Disk, "F", 80, 80) EXCEPT !.dev = "unit", !.max = 80],
           [Disk EXCEPT !.dev = "tape", !.max = 32760], [Disk EXCEPT !.dev = "tape", !.ncp = 32],
           [Disk EXCEPT !.dev = "tape", !.ncp = 65]}
Formats == {Disk, Fmt(Disk, "F", 80, 800), Fmt(Disk, "F", 80, 0), Fmt(Disk, "F", 100, 80), Fmt(Disk, "V", 136, 0),
            Fmt(Disk, "V", 255, 3120), Fmt(Disk, "V", 255, 255), Fmt(Disk, "U", 0, 6144), Fmt(Disk, "F", 0, 800)}
Members == {Pds, [Pds EXCEPT !.found = FALSE], [Pds EXCEPT !.jclmem = TRUE]}
AllWorlds == Others \cup Formats \cup Members
Mode(kind, plus, record, opts) ==
    [kind |-> kind, plus |-> plus, record |-> record, rlse |-> kind = "w", opts |-> opts]
PlainModes == {Mode(k, p, r, NoForce) : k \in {"r", "w", "a"}, p, r \in BOOLEAN}
ForcedModes == {Mode("w", FALSE, FALSE, [recfm |-> r, lrecl |-> l, blksize |-> b]) :
                   r \in {<<>>, <<"F", "B">>, <<"V">>, <<"U">>, <<"Q">>, <<"F", "A", "M">>},
                   l \in {0, 100, 32761}, b \in {0, 250, 32761}}
FileName(kind, dd, member, temp) ==
    [kind |-> kind, ddname |-> dd, member |-> member, temp |-> temp,
     dsn |-> L("A.B", 3, <<TextN(3), NoValue>>)]
NoOptions == [recfm |-> NoValue, lrecl |-> NoValue, blksize |-> NoValue, space |-> <<>>, unit |-> NoValue,
              volser |-> NoValue, mount |-> FALSE, class |-> NoValue]
ManyOptions == [recfm |-> L("FB", 2, <<"F", "B">>), lrecl |-> Q(80), blksize |-> Q(800),
                space |-> <<[unit |-> V("TRK", 3, 0), qty |-> L("1,2,3", 5, <<Q(1), Q(2), Q(3)>>)]>>,
                unit |-> TextN(4), volser |-> L("V1", 2, <<TextN(2)>>), mount |-> FALSE, class |-> TextN(1)]
Call(name, mode, world, al, tso, create, faults) ==
    [name |-> name, mode |-> mode, world |-> world, al |-> al, tso |-> tso, create |-> create, faults |-> faults,
     again |-> world.spool]
DdName == FileName("dd", <<"jcl", 1>>, FALSE, FALSE)
SpoolDd == [Fmt(Disk, "F", 80, 80) EXCEPT !.dev = "spool", !.spool = TRUE, !.max = 32760]
StarName(n) == FileName("star", IF n = 0 THEN NoDdname ELSE <<"jcl", n>>, FALSE, FALSE)
DataSetNames == {FileName("dsn", NoDdname, m, t) : m, t \in BOOLEAN}
MC_Opens ==
    {Call(DdName, m, w, NoOptions, FALSE, TRUE, FALSE) : m \in PlainModes, w \in AllWorlds}
    \cup {Call([DdName EXCEPT !.member = TRUE], m, w, NoOptions, FALSE, TRUE, FALSE) : m \in PlainModes, w \in Members \cup {Disk}}
    \cup {Call(DdName, m, w, NoOptions, FALSE, TRUE, FALSE) : m \in ForcedModes, w \in {Disk, Fmt(Disk, "F", 80, 800)}}
    \cup {Call([DdName EXCEPT !.ddname = <<"jcl", 2>>], m, SpoolDd, NoOptions, FALSE, TRUE, TRUE) :
             m \in {Mode("r", FALSE, FALSE, NoForce), Mode("w", FALSE, FALSE, NoForce)}}
    \cup {Call(DdName, m, w, NoOptions, FALSE, TRUE, TRUE) : m \in {x \in PlainModes : ~x.record}, w \in {Disk}}
    \cup {Call(n, m, Disk, NoOptions, FALSE, TRUE, FALSE) : n \in DataSetNames \cup {[DdName EXCEPT !.ddname = NoDdname], [DdName EXCEPT !.kind = "null"]},
             m \in PlainModes}
    \cup {Call(n, Mode("a", p, FALSE, NoForce), Pds, al, FALSE, TRUE, TRUE) : n \in DataSetNames, p \in BOOLEAN, al \in {NoOptions, ManyOptions}}
    \cup {Call(StarName(n), m, w, al, t, TRUE, TRUE) : n \in {0, 1}, m \in {Mode("w", FALSE, FALSE, NoForce)},
             w \in {Disk, [Disk EXCEPT !.missing = TRUE]}, al \in {NoOptions, ManyOptions}, t \in BOOLEAN}
    \cup {Call([DdName EXCEPT !.kind = k], m, w, NoOptions, FALSE, TRUE, TRUE) : k \in {"putline", "getline"},
             m \in {Mode(x, FALSE, FALSE, NoForce) : x \in {"r", "w"}}, w \in {Disk, [Disk EXCEPT !.tmp = FALSE]}}
NullFile(kind) == Call(FileName("dsn", NoDdname, FALSE, FALSE), Mode(kind, FALSE, FALSE, NoForce), [Disk EXCEPT !.dummy = TRUE],
                       NoOptions, FALSE, FALSE, TRUE)
MC_Standard ==
    [in |-> {<<Call([DdName EXCEPT !.ddname = <<"jcl", 2>>], Mode("r", FALSE, FALSE, NoForce), w, NoOptions, FALSE, FALSE, TRUE),
               NullFile("r")>> : w \in {SpoolDd, [SpoolDd EXCEPT !.missing = TRUE]}},
     out |-> {<<Call(StarName(3), Mode("w", FALSE, FALSE, NoForce), w, NoOptions, FALSE, FALSE, TRUE), NullFile("w")>> :
                 w \in {SpoolDd, [SpoolDd EXCEPT !.missing = TRUE]}},
     err |-> {<<Call(StarName(4), Mode("w", FALSE, FALSE, NoForce), SpoolDd, NoOptions, FALSE, FALSE, TRUE), NullFile("w")>>}]

\* Clusters: what they are opened as, and what the DD names.
VsamOf(type, access, mode, kind) ==
    [type |-> type, access |-> access, mode |-> mode, kind |-> kind, x |-> FALSE, any |-> FALSE, options |-> {}, password |-> 0]
VsamX(o, any, options) == [o EXCEPT !.x = TRUE, !.any = any, !.options = options]
VsamTypes == {"KSDS", "RRDS", "ESDS"}
VsamAccess == {"DIR", "SEQ", "DYNAM", "ADR"}
MC_VsamOpens ==
    {VsamOf(t, a, m, t) : t \in VsamTypes, a \in VsamAccess \ {"ADR"}, m \in {"IN", "UPD"}}
    \cup {VsamOf(t, "SEQ", "OUT", t) : t \in VsamTypes}
    \cup {VsamOf("ESDS", "ADR", "IN", "ESDS"), VsamOf("ANY", "SEQ", "IN", "KSDS"), VsamOf("KSDS", "BAD", "IN", "KSDS"),
          VsamOf("KSDS", "SEQ", "BAD", "KSDS"), VsamOf("KSDS", "SEQ", "IN", "none")}
    \cup {VsamX(VsamOf("KSDS", a, "UPD", k), TRUE, f) : a \in {"SEQ", "DYNAM", "ADR"}, k \in VsamTypes, f \in {{}, {"SKP"}}}
    \cup {VsamX(VsamOf("KSDS", "SEQ", "UPD", "KSDS"), FALSE, f) : f \in {{"RST"}, {"bad"}}}
    \cup {[VsamX(VsamOf("KSDS", "SEQ", "IN", "KSDS"), FALSE, {}) EXCEPT !.password = 9]}

\* Listings, allocations, volumes and directories.
DsEntry(kind, name, cat, vols) == [kind |-> kind, name |-> name, cat |-> cat, vols |-> vols]
DsKinds == {DsEntry("NONVSAM", "A", "C1", <<"V1">>), DsEntry("CLUSTER", "B", "C1", <<"V1", "V2">>), DsEntry("NONVSAM", "A", "C2", <<"******">>),
            DsEntry("PAGESPACE", "B", "", <<"V2">>), DsEntry("NONVSAM", "1X", "C1", <<"V1">>), DsEntry("USERCATALOG", "A", "C1", <<>>),
            DsEntry("NONVSAM", "B", "C2", <<"", "V1">>)}
MC_Listings == {<<>>} \cup UNION {[1 .. n -> DsKinds] : n \in 1 .. 2} \cup
               {<<a, b, c>> : a, b, c \in {DsEntry("NONVSAM", "A", x, <<"V1">>) : x \in {"C1", "C2", ""}}}
MC_Filters == {{}, {"A", "V1"}}
Dscb(am, dsorg, type, bits, noepv, extent) ==
    [am |-> am, dsorg |-> dsorg, type |-> type, flags |-> bits, created |-> IF am THEN 26 ELSE 99, noepv |-> noepv, extent |-> extent, cyl |-> am]
Ext(a, b, c, d) == [lo |-> <<a, b>>, hi |-> <<c, d>>]
MC_Vtoc == (<<"A", "V1">> :> Dscb(FALSE, "PS", "F", {"B"}, 3, <<Ext(1, 3, 1, 3), Ext(2, 0, 4, 29), Ext(6, 7, 8, 2)>>))
           @@ (<<"B", "V2">> :> Dscb(TRUE, "", "", {}, 1, <<Ext(1, 0, 2, 14)>>))
           @@ (<<"A", "V2">> :> Dscb(FALSE, "PO", "V", {"B", "A"}, 4, <<Ext(1, 0, 1, 1), Ext(1, 4, 1, 6), Ext(1, 8, 2, 1)>>))
MC_Cataloged == "A" :> "V2"
MC_DsGeometry == ("V1" :> 30) @@ ("V2" :> 15)
Ds(dd, flg1, catalog, spooled, dsn, vol, disp) ==
    [dd |-> dd, flg1 |-> flg1, catalog |-> catalog, jes |-> spooled,
     jfcb |-> [dsn |-> dsn, vol |-> vol, disp |-> disp, am |-> FALSE, dsorg |-> "PS", type |-> "F", flags |-> {}, created |-> 26]]
MC_DsAllocated ==
    {<<Ds("D1", {"PERM"}, FALSE, FALSE, "A", "V1", "SHR"), Ds("", {}, FALSE, FALSE, "B", "", "OLD"), Ds("D2", {"PERM", "INUSE"}, c, s, "A", "", "SHR"),
       Ds("", {"INUSE"}, FALSE, FALSE, "B", "V2", "MOD"), Ds("D1", {"INUSE"}, FALSE, FALSE, "A", "V2", "NEW")>> : c, s \in BOOLEAN}
Ucb(kind, online, vol, cuu) == [kind |-> kind, online |-> online, vol |-> vol, cuu |-> cuu]
MC_Units == {<<Ucb("disk", TRUE, "V1", 1), Ucb("tape", TRUE, "V1", 2), Ucb("disk", o, "V2", 3), Ucb("disk", TRUE, v, 4)>> :
                o \in BOOLEAN, v \in {"V1", "V2"}} \cup {<<>>}
MC_Comments == {<<>>, <<[volumes |-> {"V2"}, text |-> "spare"], [volumes |-> {"V1", "V2"}, text |-> "work"]>>}
Mem(name, udata) == [name |-> name, udata |-> udata]
DirBlock(len, nread, entries) == [len |-> len, nread |-> nread, error |-> FALSE, entries |-> entries]
MC_Directories ==
    {<<>>, <<[DirBlock(0, 0, <<>>) EXCEPT !.error = TRUE]>>,
     <<DirBlock(26, 256, <<Mem("A", 0), Mem("V1", 0)>>), DirBlock(14, 256, <<Mem("B", 0)>>), DirBlock(50, 256, <<Mem("A", 12), Mem("high", 0)>>),
       DirBlock(14, 256, <<Mem("B", 0)>>)>>,
     <<DirBlock(60, 40, <<Mem("A", 5), Mem("B", 10)>>), DirBlock(20, 256, <<Mem("B", 6)>>), DirBlock(14, 256, <<Mem("V1", 0)>>)>>,
     <<DirBlock(14, 256, <<Mem("A", 0)>>), [DirBlock(0, 0, <<>>) EXCEPT !.error = TRUE]>>}

\* Exit lists, extents and device types.
OsEntry(code, last) == [code |-> code, last |-> last]
MC_OsExits == {<<>>, <<OsEntry(5, TRUE)>>, <<OsEntry(5, FALSE), OsEntry(7, TRUE), OsEntry(9, TRUE)>>, [i \in 1 .. 11 |-> OsEntry(i, FALSE)]}
OsX(cc, hh, tracks) == [cc |-> cc, hh |-> hh, tracks |-> tracks]
MC_OsExtents == {<<>>, <<OsX(4, 1, 3)>>, <<OsX(4, 1, 1), OsX(7, 0, 0), OsX(9, 2, 4)>>}

\* Members, data sets and commands.
MC_OnVolumes == (<<"A", "V1">> :> ("X" :> 1)) @@ (<<"A", "V2">> :> (("X" :> 2) @@ ("Y" :> 3))) @@ (<<"G", "V2">> :> <<>>)
MC_InCatalog1 == ("A" :> "V1") @@ ("G" :> "V2")
Nm(dsn, paren, closed, memlen, alnum, name) ==
    [dsn |-> dsn, slash |-> FALSE, paren |-> paren, dsnlen |-> 1, closed |-> closed, memlen |-> memlen, alnum |-> alnum, gdg |-> FALSE,
     length |-> 1, mem |-> [name |-> name, lower |-> TRUE]]
MC_GivenNames ==
    {Nm(d, FALSE, FALSE, 0, FALSE, "") : d \in {"A", "B"}}
    \cup {Nm(d, TRUE, TRUE, 1, TRUE, n) : d \in {"A", "B"}, n \in {"X", "Y"}}
    \cup {[Nm("G", TRUE, TRUE, 2, FALSE, "") EXCEPT !.gdg = TRUE], Nm("A", TRUE, TRUE, 9, TRUE, "X"), Nm("A", TRUE, FALSE, 1, TRUE, "X"),
          [Nm("A", TRUE, TRUE, 1, TRUE, "X") EXCEPT !.slash = TRUE], [Nm("A", TRUE, TRUE, 1, TRUE, "X") EXCEPT !.dsnlen = 45],
          [Nm("A", FALSE, FALSE, 0, FALSE, "") EXCEPT !.length = 9]}
MC_Commands == UNION {[1 .. n -> {"a", " ", "'"}] : n \in 0 .. 7} \cup UNION {[1 .. n -> {"a", " ", "nl"}] : n \in 5 .. 8}

\* Sockets.
MC_SoReplies == UNION {[1 .. n -> {-2, -1, 0, 1, 3}] : n \in 1 .. 4}
Ecb(kind, at) == [kind |-> kind, at |-> at]
NoEcbs == [isarray |-> FALSE, ecbs |-> <<>>]
MC_EcbLists ==
    {NoEcbs, [isarray |-> TRUE, ecbs |-> <<Ecb("null", 0), Ecb("ecb", 1)>>], [isarray |-> FALSE, ecbs |-> <<Ecb("ecb", 9), Ecb("last", 2)>>],
     [isarray |-> FALSE, ecbs |-> <<Ecb("ecb", 2), Ecb("null", 0), Ecb("ecb", 0)>>], [isarray |-> FALSE, ecbs |-> <<Ecb("last", 9), Ecb("ecb", 0)>>]}
MC_SoWaits ==
    {[maxsock |-> m, timed |-> t, usec |-> u, ready |-> r, rc |-> rc, sets |-> sets] @@ e :
        m \in {2}, t \in BOOLEAN, u \in {0, 1, 79999, 80000, 80001, 300000}, r \in {0, 1, 2, 4, 9}, rc \in {-1, 1}, sets \in {{1}, {1, 2, 3}}, e \in MC_EcbLists}
    \cup {[maxsock |-> 1, timed |-> FALSE, usec |-> 0, ready |-> 9, rc |-> 1, sets |-> {}] @@ NoEcbs}
MC_SoTexts == UNION {[1 .. n -> {0, 1, 9, 10, 16, 17, 18}] : n \in 0 .. 4} \cup {<<a, 17, b, 17, c, 17, d>> : a, b, c, d \in {0, 7, 8, 17}}
            \cup {<<1, 2>> \o t : t \in [1 .. 3 -> {7, 8, 17}]} \cup {t \o <<0, 0, 0, 0, 0, 0>> : t \in [1 .. 3 -> {0, 2, 16}]}
MC_Addresses == [1 .. 4 -> {0, 9, 10, 127}]

\* Environment: names that differ in case or blanks only, values with a
\* blank in front, a DD with every kind of line.
EnvName(word, upper, blanks) == [word |-> word, upper |-> upper, blanks |-> blanks]
EnvValue(text, lead) == [text |-> text, lead |-> lead]
EnvLine(comment, equals, name, value, digits) ==
    [comment |-> comment, equals |-> equals, name |-> name, value |-> value, digits |-> digits]
MC_EnvNames == {EnvName("A", TRUE, FALSE), EnvName("A", FALSE, FALSE), EnvName("A", TRUE, TRUE), EnvName("", TRUE, TRUE)}
MC_EnvValues == {EnvValue("1", FALSE), EnvValue("2", TRUE)}
MC_EnvDds ==
    {[open |-> TRUE,
      lines |-> <<EnvLine(TRUE, TRUE, EnvName("A", TRUE, FALSE), EnvValue("3", FALSE), FALSE),
                  EnvLine(FALSE, FALSE, EnvName("A", TRUE, FALSE), EnvValue("3", FALSE), FALSE),
                  EnvLine(FALSE, TRUE, EnvName("A", TRUE, TRUE), EnvValue("4", TRUE), FALSE),
                  EnvLine(FALSE, TRUE, EnvName("B", TRUE, FALSE), EnvValue("4", FALSE), TRUE)>>]}

Init ==
    /\ call = Lib!Idle
    /\ LedgerInit /\ ArrayInit /\ StackInit /\ DynInit /\ JesInit /\ SpoolInit /\ StreamInit
    /\ VsamInit /\ DsInit /\ OsInit /\ MembersInit /\ SoInit /\ EnvInit /\ RtInit
    /\ of \in Components /\ (of # "jes" => jes.step = {}) /\ (of # "environment" => ~env.sysenv.open /\ ~env.environ.open)
Next ==
    \/ of = "numbers" /\ call = Lib!Idle /\ Lib!NumberCalls /\ UNCHANGED services
    \/ of = "times" /\ call = Lib!Idle /\ Lib!TimeCalls /\ UNCHANGED services
    \/ of = "text" /\ call = Lib!Idle /\ Lib!TextCalls /\ UNCHANGED services
    \/ of = "formats" /\ call = Lib!Idle /\ Lib!FormatCalls /\ UNCHANGED services
    \/ Lib!Return /\ UNCHANGED services
    \/ of = "array" /\ ArrayNext /\ UNCHANGED <<stack, dyn, jes, spool, files, vsam, lists, os, pds, so, env, rt, of, call>>
    \/ of = "cleanup" /\ StackNext /\ UNCHANGED <<arr, dyn, jes, spool, files, vsam, lists, os, pds, so, env, rt, of, call>>
    \/ of = "dynalloc" /\ DynNext /\ UNCHANGED <<arr, stack, jes, spool, files, vsam, lists, os, pds, so, env, rt, of, call>>
    \/ of = "jes" /\ JesNext /\ UNCHANGED <<arr, stack, dyn, spool, files, vsam, lists, os, pds, so, env, rt, of, call>>
    \/ of = "spool" /\ SpoolNext /\ UNCHANGED <<arr, stack, dyn, jes, files, vsam, lists, os, pds, so, env, rt, of, call>>
    \/ of = "streams" /\ StreamNext /\ UNCHANGED <<arr, stack, dyn, jes, spool, vsam, lists, os, pds, so, env, rt, of, call>>
    \/ of = "vsam" /\ VsamNext /\ UNCHANGED <<arr, stack, dyn, jes, spool, files, lists, os, pds, so, env, rt, of, call>>
    \/ of = "lists" /\ DsNext /\ UNCHANGED <<arr, stack, dyn, jes, spool, files, vsam, os, pds, so, env, rt, of, call>>
    \/ of = "osfiles" /\ OsNext /\ UNCHANGED <<arr, stack, dyn, jes, spool, files, vsam, lists, pds, so, env, rt, of, call>>
    \/ of = "members" /\ PdsNext /\ UNCHANGED <<arr, stack, dyn, jes, spool, files, vsam, lists, os, so, env, rt, of, call>>
    \/ of = "sockets" /\ SoNext /\ UNCHANGED <<arr, stack, dyn, jes, spool, files, vsam, lists, os, pds, env, rt, of, call>>
    \/ of = "environment" /\ EnvNext /\ UNCHANGED <<arr, stack, dyn, jes, spool, files, vsam, lists, os, pds, so, rt, of, call>>
    \/ of = "programs" /\ RtNext /\ UNCHANGED <<arr, stack, dyn, jes, spool, files, vsam, lists, os, pds, so, env, of, call>>
Spec == Init /\ [][Next]_<<call, services>>

\* JES2: a handle that was returned can be used and closed, the lines of a
\* spool data set are the ones that were written, spanned ones put together,
\* and the list of jobs is that of the checkpoint, each with the data sets
\* of its IOT chains: jesopen(), jesprint() and jesjob().
JesIsTrue == JesUsable /\ LinesAreTrue /\ JobsAreTrue

\* Data sets: what __listds() and its relatives return is what the catalog,
\* the VTOC, the TIOT and the directories hold, and a member, data set or
\* entry that was removed, renamed or changed is so everywhere, or nowhere;
\* and what the access methods answer is what happened to the data set.
DataSetsAreTrue == ListsAreTrue /\ MembersAreTrue /\ OsIsTrue

\* Every service gives back what it took, once, whichever request of it is
\* refused: what is held between calls is what the callers still own, with
\* the text units that arrayadd() could not take and the code drops.
NothingLost ==
    /\ ~ledger.twice
    /\ ledger.held = ArrayOwns \cup StackOwns \cup DynOwns \cup JesOwns \cup SpoolOwns \cup StreamOwns
                        \cup VsamOwns \cup DsOwns \cup OsOwns \cup SoOwns \cup EnvOwns \cup RtOwns
============================================================================
