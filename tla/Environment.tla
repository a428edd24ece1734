---------------------------- MODULE Environment -----------------------------
(***************************************************************************)
(* src/src/mvs/env, with setenv(), putenv() and unsetenv(): the variables  *)
(* of a program.                                                           *)
(*                                                                         *)
(* They are an array of the GRT that all tasks of the program use, each    *)
(* function in one section under its lock.  Removing a variable leaves a   *)
(* hole that a later one fills.  DD SYSENV (or ENVIRON) is read line by    *)
(* line on the first use after the start-up, by one task; a task that      *)
(* comes meanwhile waits for it at a lock of its own.                      *)
(***************************************************************************)
EXTENDS Array

CONSTANTS
    EnvNames,       \* names given to the functions: word, case, blanks
    EnvValues,      \* values: text, and whether blanks precede it
    EnvDds,         \* what a DD SYSENV or ENVIRON may be
    MaxVariables    \* bound: the longest array

\* A name by its word, its case and blanks around it; a line of a DD.
IsName(n) == n = [word |-> n.word, upper |-> n.upper, blanks |-> n.blanks]
IsValue(v) == v = [text |-> v.text, lead |-> v.lead]
EnvLines == UNION {{dd.lines[i] : i \in DOMAIN dd.lines} : dd \in EnvDds}

ASSUME EnvAssumption ==
    /\ \A name \in EnvNames : IsName(name)
    /\ \A value \in EnvValues : IsValue(value)
    /\ \A dd \in EnvDds : dd.lines \in Seq(EnvLines)
    /\ \A line \in EnvLines : IsName(line.name) /\ IsValue(line.value)

VARIABLE env        \* the variables and the load:
\*    array, vars  grtenv, and what each of its blocks holds
\*    lazy, tried, done   the flags of grtflag2; loading: a task has its lock
\*    sysenv, environ     the two DDs; left: the lines that task has to read
\*    map          history: the variables the program has set

NoEnvValue == [text |-> "none", lead |-> FALSE]
NoEnvDd == [open |-> FALSE, lines |-> <<>>]

EnvInit ==
    \E s, e \in EnvDds \cup {NoEnvDd} :
       env = [array |-> NoArray, vars |-> <<>>, lazy |-> FALSE, tried |-> FALSE, done |-> FALSE, loading |-> FALSE,
              sysenv |-> s, environ |-> e, left |-> <<>>, map |-> {}]
EnvCall(faults) ==
    [held |-> ledger.held, twice |-> ledger.twice, n |-> 0, faults |-> faults, got |-> NULL,
     array |-> env.array, vars |-> env.vars, map |-> env.map, err |-> 0]
EnvEnd(c, next, r) ==
    /\ env' = [next EXCEPT !.array = c.array, !.vars = c.vars, !.map = c.map]
    /\ End(c, r)

----------------------------------------------------------------------------
(* The array.                                                              *)

\* __findenv(): the first variable of that name, else the first hole.
SameName(a, b, nocase) ==
    a.word = b.word /\ a.blanks = b.blanks /\ (nocase \/ a.upper = b.upper)
Matches(c, name, nocase) ==
    {i \in DOMAIN Items(c) : Items(c)[i] # NULL /\ SameName(c.vars[Items(c)[i]].name, name, nocase)}
Holes(c) == {i \in DOMAIN Items(c) : Items(c)[i] = NULL}
Lowest(s) == IF s = {} THEN 0 ELSE CHOOSE i \in s : \A j \in s : i =< j
FoundAt(c, name, nocase) == Lowest(Matches(c, name, nocase))
__findenv(c, name, nocase) ==
    LET i == FoundAt(c, name, nocase)
    IN  IF i = 0 THEN NoEnvValue ELSE c.vars[Items(c)[i]].value

\* free() of a variable's block.
VariableGone(vars, r) == [x \in DOMAIN vars \ {r} |-> vars[x]]
ForgetVariable(c, r) == [Release(c, r) EXCEPT !.vars = VariableGone(c.vars, r)]
Recorded(c, name, value) == [c EXCEPT !.map = {v \in @ : v[1] # name} \cup {<<name, value>>}]

\* A fault: the name is looked up as it was given, blanks and all.
SlotFor_Untrimmed(c, name, given) ==
    IF FoundAt(c, given, FALSE) # 0 THEN FoundAt(c, given, FALSE) ELSE Lowest(Holes(c))

\* setenv(): name and value are trimmed, the block is built, and it takes
\* the place of the variable of that name, or a hole, or a new entry.
Trimmed(name) == [name EXCEPT !.blanks = FALSE]
Unled(value) == [value EXCEPT !.lead = FALSE]
SlotFor(c, name, given) ==
    IF FoundAt(c, name, FALSE) # 0 THEN FoundAt(c, name, FALSE) ELSE Lowest(Holes(c))
Slotted(a, i, r) == [a EXCEPT !.slots[i] = r]
Replaced(c, i, r) == [ForgetVariable(c, c.array.slots[i]) EXCEPT !.array = Slotted(c.array, i, r)]
Added(c, r) == LET a == arrayadd(c, r) IN IF a.err = 0 THEN a ELSE ForgetVariable(a, r)
KeepVariable(c, given, r, rewrite) ==
    LET name == c.vars[r].name
        i == SlotFor(c, name, given)
        set == IF i # 0 THEN Replaced(c, i, r) ELSE Added(c, r)
    IN  IF FoundAt(c, name, FALSE) # 0 /\ ~rewrite THEN ForgetVariable(c, r)
        ELSE IF set.err # 0 THEN set ELSE Recorded(set, name, c.vars[r].value)
VariableNew(vars, r, v) == [x \in DOMAIN vars \cup {r} |-> IF x = r THEN v ELSE vars[x]]
BuildVariable(c, name, value, rewrite) ==
    LET v == [name |-> Trimmed(name), value |-> Unled(value)]
    IN  IF c.got = NULL THEN [c EXCEPT !.err = 1]
        ELSE KeepVariable([c EXCEPT !.vars = VariableNew(c.vars, c.got, v)], name, c.got, rewrite)
setenv(c, name, value, rewrite) ==
    IF name.word = "" \/ value = NoEnvValue THEN [c EXCEPT !.err = 1]
    ELSE BuildVariable(Obtain([c EXCEPT !.err = 0], "variable"), name, value, rewrite)

\* unsetenv(): every variable of exactly that name.
UnsetAt(c, i, name) == IF i \in Matches(c, name, FALSE) THEN Replaced(c, i, NULL) ELSE c
UnsetUpTo(c, n, name) ==
    LET seen[i \in 0 .. n] == IF i = 0 THEN c ELSE UnsetAt(seen[i - 1], i, name) IN seen[n]
unsetenv(c, name) ==
    [UnsetUpTo(c, c.array.count, name) EXCEPT !.map = {v \in c.map : v[1] # name}]

----------------------------------------------------------------------------
(* The DDs.                                                                *)

\* __envln(): comments and lines without "=" are dropped, a sequence number
\* and trailing blanks are cut off; the last eight digits of a value that
\* ends the line are taken for a sequence number.
LineValue(line) == IF line.digits THEN [line.value EXCEPT !.text = "cut"] ELSE line.value
__envln(c, line) == IF line.comment \/ ~line.equals THEN c ELSE setenv(c, line.name, LineValue(line), TRUE)

\* Line after line.
ReadLines(c, lines) ==
    LET read[i \in 0 .. Len(lines)] == IF i = 0 THEN c ELSE __envln(read[i - 1], lines[i]) IN read[Len(lines)]

\* __envlz(): the first call of a task after the start-up.  __envdd() has
\* nothing of a DD it cannot open: the other DD is read.
Idle == Ready /\ ~env.loading
__envlz ==
    /\ Idle /\ env.lazy /\ ~env.tried
    /\ EnvEnd(EnvCall({}), [env EXCEPT !.tried = TRUE, !.loading = TRUE,
                                       !.left = IF env.sysenv.open THEN env.sysenv.lines ELSE env.environ.lines],
              [op |-> "loads"])
LoadLine ==
    /\ Ready /\ env.loading /\ env.left # <<>>
    /\ \E faults \in OneFault(2) :
          EnvEnd(__envln(EnvCall(faults), Head(env.left)), [env EXCEPT !.left = Tail(@)], [op |-> "line"])
LoadDone ==
    /\ Ready /\ env.loading /\ env.left = <<>>
    /\ EnvEnd(EnvCall({}), [env EXCEPT !.done = TRUE, !.loading = FALSE], [op |-> "loaded"])

\* __rtinit(): from now on the environment is loaded on first use.
__rtinit ==
    Ready /\ ~env.lazy /\ EnvEnd(EnvCall({}), [env EXCEPT !.lazy = TRUE], [op |-> "started"])

\* A function of a task that has come through __envlz().
Usable == Ready /\ (env.lazy => env.done)

RoomForVariable == Cardinality(env.map) < MaxVariables
SetVariable ==
    /\ Usable
    /\ \E name \in EnvNames, value \in EnvValues \cup {NoEnvValue}, rewrite \in BOOLEAN, faults \in OneFault(2) :
          LET c == setenv(EnvCall(faults), name, value, rewrite)
          IN  /\ RoomForVariable \/ c.array.count = env.array.count
              /\ EnvEnd(c, env, [op |-> "setenv", err |-> c.err, same |-> c.map = env.map])
UnsetVariable ==
    Usable /\ \E name \in EnvNames : EnvEnd(unsetenv(EnvCall({}), name), env, [op |-> "unsetenv"])
getenv ==
    /\ Usable
    /\ \E name \in EnvNames, nocase \in BOOLEAN :
          EnvEnd(EnvCall({}), env, [op |-> "getenv", name |-> name, nocase |-> nocase,
                                    value |-> __findenv(EnvCall({}), name, nocase)])

\* loadenv(): the lines of a file the program names.
loadenv ==
    /\ Usable /\ RoomForVariable
    /\ \E dd \in EnvDds, faults \in OneFault(2) :
          EnvEnd(ReadLines(EnvCall(faults), dd.lines), env, [op |-> "loadenv"])

\* The end of the program: __exit() frees the variables and the array.
EnvProgramEnds ==
    /\ Idle
    /\ LET c == ReleaseAll(EnvCall({}), Items(EnvCall({})))
       IN  EnvEnd([arrayfree([c EXCEPT !.map = {}]) EXCEPT !.vars = <<>>],
                  [env EXCEPT !.lazy = FALSE, !.tried = FALSE, !.done = FALSE], [op |-> "unloaded"])

EnvNext ==
    \/ __rtinit \/ __envlz \/ LoadLine \/ LoadDone \/ SetVariable \/ UnsetVariable \/ getenv \/ loadenv
    \/ EnvProgramEnds
    \/ See /\ UNCHANGED env

EnvSpec == LedgerInit /\ EnvInit /\ [][EnvNext]_<<ledger, result, env>>

EnvOwns == ({env.array.block} \cup {env.array.slots[i] : i \in DOMAIN env.array.slots}) \ {NULL}

\* A lookup finds a value of that name, if there is one, and no task looks
\* while the variables are loaded.
LookupIsTrue ==
    result.op = "getenv" =>
       LET values == {v[2] : v \in {w \in env.map : SameName(w[1], result.name, result.nocase)}}
       IN  /\ IF values = {} THEN result.value = NoEnvValue ELSE result.value \in values
           /\ ~env.loading

\* A variable has the value it was given last, by the program or by the one
\* load of its DD, which no later use of the environment overwrites: the
\* array holds each name once, holes and refused requests or not, and
\* nothing besides.  A lookup finds that value and, when case does not
\* count, the value of a name that differs in case only.  No task sees the
\* variables while they are loaded.
EnvironmentIsTrue ==
    /\ LET used == {i \in DOMAIN Items(env) : Items(env)[i] # NULL}
       IN  /\ {<<env.vars[Items(env)[i]].name, env.vars[Items(env)[i]].value>> : i \in used} = env.map
           /\ Cardinality(used) = Cardinality({v[1] : v \in env.map})
    /\ LookupIsTrue
============================================================================
