------------------------------ MODULE MCStream ------------------------------
(* Instances of Stream for TLC. *)
EXTENDS Stream

In(names, b) == {[name |-> n, binary |-> b] : n \in names}
AllText == In(Names, FALSE)
AllBinary == In(Names, TRUE)
UpdateText == In({"r+"}, FALSE)
PlusText == In({"r+", "w+"}, FALSE)

A == <<"a">>
B == <<"b">>
AB == <<"a", "b">>

NoLines == {}
Lines == {<<"a", NL, "a">>}

OnlyGood == {Good}
Full == [Good EXCEPT !.cap = 1]
Bad(b) == [Good EXCEPT !.bad = b]
Short(a) == [Good EXCEPT !.alloc = a]
WriteFails == {Good, Full}
ReadFails == {Good, Bad({2})}
OpenFails == {Good, Short(<<FALSE>>), Short(<<FALSE, FALSE>>)}

At(o, w) == [off |-> o, whence |-> w]
AllSeeks == {At(o, "set") : o \in {0, 2, 4}} \cup {At(o, "cur") : o \in {-2, 1}}
                \cup {At(o, "end") : o \in {-1, 0}}
SomeSeeks == {At(0, "set"), At(4, "set"), At(0, "end")}

Job(recfm, lrecl, blksize, datasets, modes, strings, envs, maxpos) ==
    [recfm |-> recfm, lrecl |-> lrecl, blksize |-> blksize, blocked |-> TRUE,
     updatok |-> TRUE, datasets |-> datasets, modes |-> modes, strings |-> strings,
     envs |-> envs, maxpos |-> maxpos, seeks |-> AllSeeks]

(* Fixed-length records, two to a block; "r+" over three records in two    *)
(* blocks; variable-length records, an empty one among them; undefined-    *)
(* length records, each a block.  Most are empty at first, or not; one     *)
(* refuses UPDAT and one has one record to a block.                        *)
OneFixed == << <<AB>> >>
TwoFixed == << <<A, B>>, <<B>> >>
OneVar == << <<AB, <<>> >> >>
TwoUndef == << <<AB>>, <<B>> >>

FixedJob == Job("F", 2, 4, {<<>>, OneFixed}, AllText, NoLines, OnlyGood, 4)
BinaryJob == [FixedJob EXCEPT !.modes = AllBinary, !.seeks = SomeSeeks]
NoUpdatJob == [FixedJob EXCEPT !.modes = PlusText, !.updatok = FALSE]
UpdateJob == Job("F", 1, 2, {TwoFixed}, UpdateText, NoLines, OnlyGood, 6)
VarJob == Job("V", 2, 14, {<<>>, OneVar}, AllText, Lines, OnlyGood, 6)
UnblockedJob == [VarJob EXCEPT !.blocked = FALSE, !.datasets = {<<>>}, !.modes = PlusText]
UndefJob == Job("U", 2, 2, {<<>>, TwoUndef}, AllText, Lines, OnlyGood, 6)

GoodJobs == {FixedJob, BinaryJob, NoUpdatJob, UpdateJob, VarJob, UnblockedJob, UndefJob}

(* The second block finds no space or cannot be read or written; the       *)
(* opens that turn a "+" stream round find no storage.                     *)
OneBlock == {<< <<A, B>> >>}
TwoBlocks == {<< <<A>>, <<B>> >>}
Grows == In(Names \ {"w"}, FALSE)
Reads == In({"r", "r+", "a+"}, FALSE)

FailingJobs ==
    {[j EXCEPT !.seeks = SomeSeeks] :
        j \in {Job("F", 1, 2, OneBlock, Grows, NoLines, WriteFails, 5),
               Job("F", 1, 2, TwoBlocks, Reads, NoLines, ReadFails, 4),
               Job("F", 1, 2, TwoBlocks, PlusText, NoLines, OpenFails, 4)}}

AllJobs == GoodJobs \cup FailingJobs

KeptJobs == {Job("F", 2, 4, {OneFixed}, UpdateText, NoLines, OnlyGood, 4)}

(* States that differ in the history of the last call only are one state:  *)
(* no invariant reads call and no property reads it in the first state of  *)
(* a step.                                                                 *)
Stated == <<job, ds, fp, dcb, sick, abend>>
=============================================================================
