------------------------------ MODULE Programs -------------------------------
(***************************************************************************)
(* src/src/mvs/crt and src/src/mvs/recovery: C programs that call C        *)
(* programs in one task, their start and their end, and estae() and try(), *)
(* which survives the abend of a program it called.                        *)
(*                                                                         *)
(* A program has a PPA in front of its stack, and the word behind the      *)
(* first save area of the TCB names the PPA of the program that runs; the  *)
(* PPA keeps the word it replaced.  The PPA leads to the CRT and the GRT,  *)
(* and these to everything the runtime keeps.  A program that abends never *)
(* runs its own exit: try() in a program above it gives control to a       *)
(* recovery routine that puts the word back and frees what the dead        *)
(* programs left.                                                          *)
(*                                                                         *)
(* Frames is what the task has called: programs, functions under try() and *)
(* exit functions.  Routines is what MVS knows of the ESTAEs (external),   *)
(* each with the entry of CRTESTPL that MVS hands its routine.             *)
(***************************************************************************)
EXTENDS Environment
LOCAL INSTANCE SequencesExt

CONSTANTS
    MaxFrames,      \* bound: how deep the calls nest
    MaxWork,        \* bound: the programs, tries, routines, exit functions and files of a job
    MaxAbends,      \* bound: the abends of a job
    ESTAE_LEVELS,   \* 10: the entries of CRTESTPL
    AbendCodes      \* completion codes; 0 is the user code 0

VARIABLE rt         \* the task:
\*    next         the word at 8(TCBFSAB): the PPA of the program, or NULL
\*    ppas         the PPAs in storage, each with its CRT and GRT
\*    frames       the calls in progress, the newest last
\*    routines     the ESTAEs, the newest last
\*    dead         the PPA try() is about to free, or NULL
\*    work, fell   history: what the programs have asked for, abends
\*    lost         history: what an abend in the recovery left behind

NoSlot == [routine |-> "none", frame |-> 0]
NewPpa == [save |-> NULL, crts |-> NoArray, crt |-> NULL, grt |-> NULL, exit |-> NoArray, exita |-> NoArray,
           ptrs |-> NoArray, files |-> <<>>, variables |-> [array |-> NoArray, vars |-> <<>>],
           estct |-> 0, estpl |-> [i \in 0 .. ESTAE_LEVELS - 1 |-> NoSlot], soestae |-> FALSE,
           tryrc |-> 0, due |-> <<>>, stale |-> FALSE]
NoJob == [next |-> NULL, ppas |-> <<>>, frames |-> <<>>, routines |-> <<>>, dead |-> NULL,
          work |-> 0, fell |-> 0, lost |-> {}]
RtInit == rt = NoJob

RtCall(faults) == Begin(faults) @@ [array |-> NoArray, err |-> 0, rt |-> rt]
RtEnd(c, r) == rt' = c.rt /\ End(c, r)

\* A program asks for one thing more.
Busy == rt.work < MaxWork
RtAsks(faults) == LET c == RtCall(faults) IN [c EXCEPT !.rt.work = @ + 1]

\* The program that runs: @@PPAGET, and the CRT of the task in its list.
Current == rt.next
Mine(c) == c.rt.ppas[c.rt.next]
Top == Last(rt.frames)
Running == Ready /\ rt.dead = NULL /\ rt.frames # <<>> /\ (Top.kind = "exit" => Top.runs)
PpaWith(c, field, value) == [c EXCEPT !.rt.ppas[c.rt.next][field] = value]
On(c, field) == [c EXCEPT !.array = Mine(c)[field]]
PutBack(c, field) == PpaWith(c, field, c.array)

----------------------------------------------------------------------------
(* ESTAE (external): the newest routine is replaced, or removed, within    *)
(* the program that runs.                                                  *)

OfMine(c) == {i \in DOMAIN c.rt.routines : c.rt.routines[i].ppa = c.rt.next}
Established(c, slot) ==
    [c EXCEPT !.rt.routines = Append(@, [ppa |-> c.rt.next, slot |-> slot, frame |-> Len(c.rt.frames)])]
Overlaid(c, slot) ==
    IF OfMine(c) = {} THEN [PpaWith(c, "stale", TRUE) EXCEPT !.err = 8]
    ELSE [c EXCEPT !.err = 0, !.rt.routines[Len(c.rt.routines)].slot = slot]
Removed(c) ==
    IF OfMine(c) = {} THEN [c EXCEPT !.err = 8] ELSE [c EXCEPT !.err = 0, !.rt.routines = Front(@)]

----------------------------------------------------------------------------
(* __estae()                                                               *)

Slot(routine, c) == [routine |-> routine, frame |-> Len(c.rt.frames)]
SlotFilled(c, i, routine) == [c EXCEPT !.rt.ppas[c.rt.next].estpl[i] = Slot(routine, c)]
Counted(c, n) == PpaWith(c, "estct", n)
Lower(n) == IF n > 0 THEN n - 1 ELSE 0

\* ESTAE CT may be refused.
ESTAE_CREATE(c, routine) ==
    LET n == Mine(c).estct
    IN  IF n >= ESTAE_LEVELS THEN [c EXCEPT !.err = -1]
        ELSE IF Refused(c) THEN [Asked(SlotFilled(c, n, routine)) EXCEPT !.err = 20]
        ELSE [Counted(Established(Asked(SlotFilled(c, n, routine)), n), n + 1) EXCEPT !.err = 0]
ESTAE_OVERLAY(c, routine) ==
    LET n == Lower(Mine(c).estct) IN Counted(Overlaid(SlotFilled(c, n, routine), n), n + 1)
ESTAE_DELETE(c) == Removed(Counted(c, Lower(Mine(c).estct)))

\* A program's own use: it replaces or removes a routine of its own.
NewestIsOwn ==
    OfMine(RtCall({})) # {} =>
       /\ Last(rt.routines).frame = Len(rt.frames)
       /\ rt.ppas[Current].estpl[Last(rt.routines).slot].routine = "program"
estae ==
    /\ Running
    /\ \/ /\ Busy
          /\ \E faults \in OneFault(1) :
                LET c == ESTAE_CREATE(RtAsks(faults), "program") IN RtEnd(c, [op |-> "estae", err |-> c.err])
       \/ Busy /\ NewestIsOwn /\ LET c == ESTAE_OVERLAY(RtAsks({}), "program") IN RtEnd(c, [op |-> "estae", err |-> c.err])
       \/ NewestIsOwn /\ LET c == ESTAE_DELETE(RtCall({})) IN RtEnd(c, [op |-> "estae", err |-> c.err])

----------------------------------------------------------------------------
(* The start of a program: @@CRT0 and __start().                           *)

\* __crtset(): a CRT that the list has no room for is not freed.
CrtListed(c) == PutBack(arrayadd(On(c, "crts"), c.got), "crts")
__crtset(c) ==
    LET crt == Obtain(c, "crt")
        listed == CrtListed(crt)
    IN  IF crt.got = NULL THEN crt
        ELSE IF listed.err # 0 THEN [listed EXCEPT !.rt.lost = @ \cup {crt.got}]
        ELSE PpaWith(listed, "crt", crt.got)

\* __grtset() needs the CRT.
__grtset(c) ==
    LET g == Obtain(c, "grt")
    IN  IF Mine(c).crt = NULL THEN [c EXCEPT !.err = -1]
        ELSE IF g.got = NULL THEN [g EXCEPT !.err = -1]
        ELSE [PpaWith(g, "grt", g.got) EXCEPT !.err = 0]

\* The PPA and the stack in one block, and the word in the first save area.
Chained(c) ==
    [c EXCEPT !.rt.ppas = @ @@ (c.got :> [NewPpa EXCEPT !.save = c.rt.next]), !.rt.next = c.got,
              !.rt.frames = Append(@, [kind |-> "program", ppa |-> c.got])]
Anchored(c) == __grtset(__crtset(Chained(c)))

\* __soestae() is linked with the sockets; grtptrs has the words at R1.
Soestae(c) == LET e == ESTAE_CREATE(c, "soexit") IN IF e.err = 0 THEN PpaWith(e, "soestae", TRUE) ELSE e
Pointers(c) == PutBack(arrayadd(On(c, "ptrs"), <<"caller", 1>>), "ptrs")
Started(c, sockets) == Pointers(IF sockets THEN Soestae(c) ELSE c)

----------------------------------------------------------------------------
(* An abend.  MVS gives control to the newest routine; those of a program  *)
(* and of the sockets let it go on, the one of try() retries, and the      *)
(* programs below it are gone.  With no try() the task ends.               *)

\* A dead program's routines go with it, and one that let the abend go on.
Caught(c) == {i \in DOMAIN c.rt.routines : c.rt.ppas[c.rt.routines[i].ppa].estpl[c.rt.routines[i].slot].routine = "try"}
Newest(s) == CHOOSE i \in s : \A j \in s : j =< i

\* failed() gives the code to the code at RETRY, which puts the word back
\* before it frees anything.
Passed(c, i) == {j \in DOMAIN c.rt.routines : j > i /\ c.rt.routines[j].ppa = c.rt.routines[i].ppa}
Retry(c, i, code) ==
    LET try == c.rt.routines[i]
        frames == SubSeq(c.rt.frames, 1, try.frame)
    IN  [c EXCEPT !.rt.routines = SubSeq(@, 1, i), !.rt.frames = [frames EXCEPT ![try.frame].code = code],
                  !.rt.next = frames[try.frame].saved,
                  !.rt.dead = c.rt.next, !.rt.fell = @ + 1,
                  !.rt.ppas[try.ppa].stale = @ \/ Passed(c, i) # {}]

\* Nothing retries: MVS frees the storage of the task, and the next job
\* begins.
TaskEnds(c) == [c EXCEPT !.held = {}, !.rt = NoJob]
Code(code) == IF code = 0 THEN 16777215 ELSE code
Abend(c, code) == IF Caught(c) = {} THEN TaskEnds(c) ELSE Retry(c, Newest(Caught(c)), Code(code))

\* A program abends wherever it runs.
ProgramAbends ==
    /\ Running /\ rt.fell < MaxAbends
    /\ \E code \in AbendCodes :
          LET c == Abend(RtCall({}), code) IN RtEnd(c, [op |-> "abend"])

\* @@CRT0 and __start(): without a stack, a CRT or a GRT, abend U0801.
CRT0 ==
    /\ Ready /\ rt.dead = NULL /\ Busy /\ Len(rt.frames) < MaxFrames
    /\ rt.frames = <<>> \/ Running
    /\ \E faults \in OneFault(5), sockets \in BOOLEAN :
          LET p == Obtain(RtAsks(faults), "ppa")
              c == IF p.got = NULL THEN p ELSE Anchored(p)
          IN  RtEnd(IF p.got = NULL \/ c.err # 0 THEN Abend(c, 801) ELSE Started(c, sockets), [op |-> "starts"])

----------------------------------------------------------------------------
(* What a program keeps in its GRT.                                        *)

\* A fault: the function stays although its argument is not stored.
Unpaired_Stays(c) == c

\* on_exit() and atexit(): the two arrays stay paired (#85).
Unpaired(c) == PutBack([arraydel(On(c, "exit"), Mine(c).exit.count) EXCEPT !.err = -1], "exit")
WithArgument(c, arg) ==
    LET a == PutBack(arrayadd(On(c, "exita"), arg), "exita") IN IF a.err = 0 THEN a ELSE Unpaired(a)
Register(c, n) ==
    LET f == PutBack(arrayadd(On(c, "exit"), <<"exit function", n>>), "exit")
    IN  IF f.err = 0 THEN WithArgument(f, <<"exit argument", n>>) ELSE f
on_exit ==
    /\ Running /\ Busy
    /\ \E faults \in OneFault(2) :
          LET n == rt.work + 1
              c == Register(RtAsks(faults), n)
          IN  RtEnd([c EXCEPT !.rt.ppas[Current].due = IF c.err = 0 THEN Append(@, n) ELSE @], [op |-> "on_exit", err |-> c.err])

\* A file and a variable, as fopen() and setenv() leave them.
Keeps ==
    /\ Running /\ Busy /\ rt.ppas[Current].files = <<>>
    /\ LET f == Obtain(RtAsks({}), "file")
           c == setenv(rt.ppas[Current].variables @@ f @@ [map |-> {}],
                       [word |-> "x", upper |-> TRUE, blanks |-> FALSE], [text |-> "x", lead |-> FALSE], TRUE)
       IN  RtEnd(PpaWith(PpaWith(c, "files", <<f.got>>), "variables", [array |-> c.array, vars |-> c.vars]), [op |-> "keeps"])

----------------------------------------------------------------------------
(* try()                                                                   *)

\* call(): the routine is established, and func is called.
___try ==
    /\ Running /\ Busy /\ Len(rt.frames) < MaxFrames
    /\ \E faults \in OneFault(1) :
          LET frame == [kind |-> "try", saved |-> rt.next, code |-> 0]
              t == PpaWith(RtAsks(faults), "tryrc", 0)
              c == ESTAE_CREATE([t EXCEPT !.rt.frames = Append(@, frame)], "try")
          IN  RtEnd(IF c.err = 0 THEN c ELSE [c EXCEPT !.rt.frames = rt.frames],
                    [op |-> "try", err |-> IF c.err > 0 THEN -c.err ELSE c.err])

\* func returns, having removed the routines it established.
NewestIsTry == Last(rt.routines).frame = Len(rt.frames)
               /\ rt.ppas[Current].estpl[Last(rt.routines).slot].routine = "try"
TryReturns ==
    /\ Running /\ Top.kind = "try" /\ NewestIsTry
    /\ LET c == ESTAE_DELETE(RtCall({}))
       IN  RtEnd([c EXCEPT !.rt.frames = Front(@)], [op |-> "returned", abended |-> FALSE, rc |-> 0])

\* __ppahrv(): all that a dead program's GRT and CRTs lead to.
Owned(p) ==
    <<p.exit.block, p.exita.block>> \o p.files \o Items(p.variables)
    \o <<p.variables.array.block, p.ptrs.block, p.grt, p.crt, p.crts.block>>
Harvested(c, p) == ReleaseAll(c, Owned(p))

\* The walk from the newest dead PPA to the one try() had found: a PPA is
\* harvested, its saved word read, its block freed.
Walking == Ready /\ rt.dead # NULL
HarvestOne ==
    /\ Walking /\ rt.dead # Top.saved
    /\ LET c == Harvested(RtCall({}), rt.ppas[rt.dead])
           f == Release(c, rt.dead)
       IN  RtEnd([f EXCEPT !.rt.dead = rt.ppas[rt.dead].save, !.rt.ppas = [x \in DOMAIN @ \ {rt.dead} |-> @[x]]],
                 [op |-> "harvests"])

\* The rest: a FREEMAIN that fails ends the walk, and closing a file abends
\* and comes back to RETRY with the word already restored.
Rest(c) ==
    LET living == {c.rt.frames[i].ppa : i \in {j \in DOMAIN c.rt.frames : c.rt.frames[j].kind = "program"}}
        dead == DOMAIN c.rt.ppas \ living
    IN  [c EXCEPT !.rt.dead = Top.saved, !.rt.ppas = [x \in DOMAIN @ \ dead |-> @[x]],
                  !.rt.lost = @ \cup ((dead \cup UNION {Range(Owned(c.rt.ppas[p])) : p \in dead}) \cap c.held)]
HarvestFails ==
    /\ Walking /\ rt.dead # Top.saved
    /\ \/ RtEnd(Rest(Harvested(RtCall({}), rt.ppas[rt.dead])), [op |-> "harvests"])
       \/ /\ rt.ppas[rt.dead].files # <<>> /\ rt.fell < MaxAbends
          /\ \E code \in AbendCodes :
                LET c == ReleaseAll(RtCall({}), <<rt.ppas[rt.dead].exit.block, rt.ppas[rt.dead].exita.block>>)
                IN  RtEnd(Rest([c EXCEPT !.rt.frames[Len(rt.frames)].code = Code(code), !.rt.fell = @ + 1]),
                          [op |-> "harvests"])

\* The code is kept in the CRT, the routine removed, and try() returns.
TryFailed ==
    /\ Ready /\ rt.dead # NULL /\ rt.dead = Top.saved
    /\ LET c == ESTAE_DELETE(PpaWith(RtCall({}), "tryrc", Top.code))
       IN  RtEnd([c EXCEPT !.rt.frames = Front(@), !.rt.dead = NULL],
                 [op |-> "returned", abended |-> TRUE, rc |-> Top.code])

----------------------------------------------------------------------------
(* The end of a program: exit(), _Exit(), a return from main().            *)

\* The exit functions, the newest first; count is what __exit() counted.
InProgram == {i \in DOMAIN rt.frames : rt.frames[i].kind = "program"}
Ending == \E i \in DOMAIN rt.frames : i > Newest(InProgram) /\ rt.frames[i].kind = "exit"
__exit ==
    /\ Running /\ ~Ending
    /\ RtEnd([RtCall({}) EXCEPT !.rt.frames =
                 Append(@, [kind |-> "exit", runs |-> FALSE, count |-> rt.ppas[Current].exit.count,
                            todo |-> rt.ppas[Current].due])], [op |-> "exits"])
ArgumentAt(p, n) == IF n \in DOMAIN p.exita.slots THEN p.exita.slots[n] ELSE <<"outside the array">>
ExitFunction ==
    /\ Ready /\ rt.dead = NULL /\ rt.frames # <<>> /\ Top.kind = "exit" /\ ~Top.runs /\ Top.count > 0
    /\ LET p == rt.ppas[Current]
           n == Top.count
           func == p.exit.slots[n]
       IN  RtEnd([RtCall({}) EXCEPT !.rt.frames[Len(rt.frames)] =
                     IF func = NULL THEN [@ EXCEPT !.count = n - 1] ELSE [@ EXCEPT !.runs = TRUE]],
                 [op |-> "runs", func |-> func, arg |-> ArgumentAt(p, n), todo |-> Top.todo])

\* It returns, having removed the routines it established, and its entries
\* are cleared.
ExitReturns ==
    /\ Running /\ Top.kind = "exit" /\ \A i \in OfMine(RtCall({})) : rt.routines[i].frame < Len(rt.frames)
    /\ LET n == Top.count
           func == rt.ppas[Current].exit.slots[n]
       IN  RtEnd([RtCall({}) EXCEPT !.rt.ppas[Current].exit.slots[n] = NULL, !.rt.ppas[Current].exita.slots[n] = NULL,
                                    !.rt.ppas[Current].due = SelectSeq(@, LAMBDA x : <<"exit function", x>> # func),
                                    !.rt.frames[Len(rt.frames)] =
                                        [@ EXCEPT !.runs = FALSE, !.count = n - 1,
                                                  !.todo = SelectSeq(@, LAMBDA x : <<"exit function", x>> # func)]],
                 [op |-> "ran"])

\* The rest of __exit(): the files, the sockets, the variables, the lists;
\* then @@EXITA: GRT, CRT and its list, and the PPA with the stack.
SoexitGone(c) == IF Mine(c).soestae /\ Mine(c).estct = 1 THEN ESTAE_DELETE(c) ELSE c
EXITA(c) ==
    LET p == Mine(c)
        freed == Release(Harvested(c, p), c.rt.next)
        frames == SubSeq(rt.frames, 1, Newest(InProgram) - 1)
    IN  [freed EXCEPT !.rt.next = p.save, !.rt.ppas = [x \in DOMAIN @ \ {c.rt.next} |-> @[x]], !.rt.frames = frames,
                      !.rt.routines = SelectSeq(@, LAMBDA r : r.ppa # c.rt.next)]
ExitDone ==
    /\ Ready /\ rt.dead = NULL /\ rt.frames # <<>> /\ Top.kind = "exit" /\ ~Top.runs /\ Top.count = 0
    /\ RtEnd(EXITA(SoexitGone(RtCall({}))), [op |-> "exited", todo |-> Top.todo])

\* _Exit(), also in an exit function: the registrations are dropped first.
_Exit ==
    /\ Running
    /\ RtEnd(EXITA(SoexitGone(RtCall({}))), [op |-> "exited", todo |-> <<>>])

\* The job ends with its first program.
JobEnds ==
    /\ Ready /\ rt.frames = <<>> /\ rt # NoJob
    /\ RtEnd([RtCall({}) EXCEPT !.held = {}, !.rt = NoJob], [op |-> "job"])

RtNext ==
    \/ CRT0 \/ estae \/ ProgramAbends \/ on_exit \/ Keeps
    \/ ___try \/ TryReturns \/ HarvestOne \/ HarvestFails \/ TryFailed
    \/ __exit \/ ExitFunction \/ ExitReturns \/ ExitDone \/ _Exit \/ JobEnds
    \/ See /\ UNCHANGED rt

RtOwns == (rt.lost \cup DOMAIN rt.ppas \cup UNION {Range(Owned(rt.ppas[p])) : p \in DOMAIN rt.ppas}) \ {NULL}

\* The word of the first save area leads to the program that runs, whichever
\* programs below it were abandoned, at whatever point of their start or
\* their end: no PPA of a dead program is reachable, and none of a living
\* one, nor its CRT or GRT, is freed by the recovery.  Each ESTAE that MVS
\* has finds its own routine and frame in the parameter list, never those
\* of another level or of a try() that has returned, and the count is the
\* number of levels, unless one of them let an abend go on to try().  Exit
\* functions run in the reverse order, each with its argument, and a
\* program that ends by exit() has run all it registered before.  try()
\* never takes an abend for a return.
ProgramsAreTrue ==
    LET programs == {i \in DOMAIN rt.frames : rt.frames[i].kind = "program"}
        ppa(i) == rt.frames[i].ppa
        before(i) == {j \in programs : j < i}
        innermost(s) == IF s = {} THEN NULL ELSE ppa(Newest(s))
    IN  /\ rt.next = innermost(programs)
        /\ rt.dead = NULL => DOMAIN rt.ppas = {ppa(i) : i \in programs}
        /\ \A i \in programs :
              /\ rt.ppas[ppa(i)].save = innermost(before(i))
              /\ {ppa(i), rt.ppas[ppa(i)].crt, rt.ppas[ppa(i)].grt} \subseteq ledger.held
              /\ LET mine == {j \in DOMAIN rt.routines : rt.routines[j].ppa = ppa(i)}
                     list == rt.ppas[ppa(i)].estpl
                 IN  /\ \A j \in mine : /\ list[rt.routines[j].slot].frame = rt.routines[j].frame
                                        /\ list[rt.routines[j].slot].routine = "try" => rt.frames[rt.routines[j].frame].kind = "try"
                     /\ Cardinality({rt.routines[j].slot : j \in mine}) = Cardinality(mine)
                     /\ rt.ppas[ppa(i)].stale \/ rt.ppas[ppa(i)].estct = Cardinality(mine)
        /\ (result.op = "runs" /\ result.func # NULL) =>
              /\ result.todo # <<>>
              /\ result.func = <<"exit function", Last(result.todo)>>
              /\ result.arg = <<"exit argument", Last(result.todo)>>
        /\ result.op = "exited" => result.todo = <<>>
        /\ result.op = "returned" => result.abended = (result.rc # 0)
============================================================================
