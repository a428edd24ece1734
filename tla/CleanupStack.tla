--------------------------- MODULE CleanupStack ----------------------------
(***************************************************************************)
(* The stack of cleanup functions of a task: cthread_push(), cthread_pop() *)
(* and what @@CTEXIT does with it when a thread ends (cleanup_thread() in  *)
(* src/mvs/thread/@@ctcrtx.c).                                             *)
(*                                                                         *)
(* The functions and their arguments are two dynamic arrays of the task's  *)
(* CRT.  No other task uses them, so one task is modelled.  The n-th       *)
(* function pushed is Func(n) and is pushed with the argument Arg(n).  A   *)
(* cleanup function is code of the program: it may call the same functions *)
(* again.                                                                  *)
(***************************************************************************)
EXTENDS Array

CONSTANT MaxPush        \* bound: how many functions a thread pushes

VARIABLE stack          \* the two arrays and the end of the thread:
\*    push, args  crtpush and crtargs
\*    pc          "user", "cleanup" (the loop of cleanup_thread()), "ended"
\*    count       the variable of that loop
\*    ran         the loop has begun to call the functions
\*    pushes      history: the number of cthread_push() calls so far
\*    due         history: the functions pushed (0 was returned), not popped
\*    late        history: the functions pushed since the loop began

Func(n) == <<"function", n>>
Arg(n) == <<"argument", n>>

StackInit ==
    stack = [push |-> NoArray, args |-> NoArray, pc |-> "user", count |-> 0, ran |-> FALSE,
             pushes |-> 0, due |-> <<>>, late |-> 0]
StackCall(faults) ==
    [held |-> ledger.held, twice |-> ledger.twice, n |-> 0, faults |-> faults, got |-> NULL,
     array |-> NoArray, push |-> stack.push, args |-> stack.args, err |-> 0, func |-> NULL]
StackEnd(c, next, r) ==
    /\ stack' = [next EXCEPT !.push = c.push, !.args = c.args]
    /\ End(c, r)

Using(c, which) == [c EXCEPT !.array = c[which]]
Keeping(c, which) == [c EXCEPT ![which] = c.array]

\* The program runs: the thread function, or a cleanup function that
\* cleanup_thread() has called.
ProgramRuns == Ready /\ (stack.pc = "user" \/ (stack.pc = "cleanup" /\ stack.ran))

----------------------------------------------------------------------------
(* cthread_push(): the two arrays stay paired (#85).                       *)

\* A fault: the function stays although its argument is not stored.
Paired_Not(c) == c

Paired(c) ==
    IF c.err = 0 THEN c ELSE Keeping(arraydel(Using(c, "push"), c.push.count), "push")
PushArg(c, n) ==
    IF c.err # 0 THEN c ELSE Paired(Keeping(arrayadd(Using(c, "args"), Arg(n)), "args"))
Pushed(c, n) == PushArg(Keeping(arrayadd(Using(c, "push"), Func(n)), "push"), n)

cthread_push ==
    /\ ProgramRuns /\ stack.pushes < MaxPush
    /\ \E faults \in OneFault(2) :
          LET n == stack.pushes + 1
              c == Pushed(StackCall(faults), n)
          IN  StackEnd(c, IF c.err # 0 THEN [stack EXCEPT !.pushes = n]
                          ELSE [stack EXCEPT !.pushes = n, !.due = Append(@, n),
                                             !.late = IF stack.pc = "cleanup" THEN @ + 1 ELSE @],
                       [op |-> "pushed", err |-> c.err])

----------------------------------------------------------------------------
(* cthread_pop(): the section under lock(&crt->crtpush).  The call of the  *)
(* function, if the type asks for one, follows.                            *)

PopArg(c, n) == [Keeping(arraydel(Using(c, "args"), n), "args") EXCEPT !.func = c.got]
PopFunc(c, n) == PopArg(Keeping(arraydel(Using(c, "push"), n), "push"), n)
Popped(c) == IF c.push.count = 0 THEN c ELSE PopFunc(c, c.push.count)
StillDue(due, func) ==
    LET at(k) == Func(due[k]) = func
    IN  IF \E k \in DOMAIN due : at(k) THEN Without(due, CHOOSE k \in DOMAIN due : at(k)) ELSE due
Pop(next) ==
    LET c == Popped(StackCall({}))
    IN  StackEnd(c, [next EXCEPT !.due = StillDue(@, c.func)],
                 [op |-> "popped", func |-> c.func, arg |-> IF c.func = NULL THEN NULL ELSE c.got, due |-> stack.due])

\* The program pops, with any type.
cthread_pop == ProgramRuns /\ Pop(stack)

----------------------------------------------------------------------------
(* The end of a thread.                                                    *)

\* @@CTEXIT: the thread function returns or calls cthread_exit(), or a
\* cleanup function calls cthread_exit(), which starts the cleanup again.
CTEXIT ==
    /\ ProgramRuns
    /\ StackEnd(StackCall({}), [stack EXCEPT !.pc = "cleanup", !.count = stack.push.count, !.ran = FALSE, !.late = 0],
                [op |-> "exits"])

\* cleanup_thread(): cthread_pop(CTHDPOP_TRY), as often as there were
\* functions when it began; try() catches an abend of the function.
cleanup_thread ==
    /\ Ready /\ stack.pc = "cleanup" /\ stack.count > 0
    /\ Pop([stack EXCEPT !.count = @ - 1, !.ran = stack.push.count > 0])

\* The two arrays are freed, whatever they hold, and the thread ends.
Freed(c, which) == Keeping(arrayfree(Using(c, which)), which)
CleanupDone ==
    /\ Ready /\ stack.pc = "cleanup" /\ stack.count = 0
    /\ StackEnd(IF stack.push.block = NULL THEN StackCall({}) ELSE Freed(Freed(StackCall({}), "push"), "args"),
                [stack EXCEPT !.pc = "ended"], [op |-> "cleaned"])

\* The next thread of the program gets a CRT of its own.
NewThread ==
    /\ Ready /\ stack.pc = "ended"
    /\ StackEnd(StackCall({}), [stack EXCEPT !.pc = "user", !.ran = FALSE, !.pushes = 0, !.due = <<>>, !.late = 0], [op |-> "created"])

StackNext ==
    \/ cthread_push \/ cthread_pop \/ CTEXIT \/ cleanup_thread \/ CleanupDone \/ NewThread
    \/ See /\ UNCHANGED stack

StackSpec == LedgerInit /\ StackInit /\ [][StackNext]_<<ledger, result, stack>>

StackOwns == {stack.push.block, stack.args.block} \ {NULL}

\* What a pop took is what was pushed last, and with it its argument.
TakesLast(r) ==
    IF r.due = <<>> THEN r.func = NULL
    ELSE r.func = Func(r.due[Len(r.due)]) /\ r.arg = Arg(r.due[Len(r.due)])

\* cthread_pop() takes the function pushed last among those still on the
\* stack, and with it the argument it was pushed with: also after a push
\* that found no storage for one of the two arrays, and in every nesting of
\* pushes and pops in cleanup functions.  When a thread ends, the functions
\* on its stack have been popped, by cleanup_thread() or by the program:
\* no more are missed than cleanup functions pushed during the loop, which
\* pops as many as there were when it began (the book says that functions
\* not yet popped are called, so the code falls short by just these).
StackIsPopped ==
    /\ result.op = "popped" => TakesLast(result)
    /\ stack.pc = "ended" \/ Items([array |-> stack.push]) = [i \in 1 .. Len(stack.due) |-> Func(stack.due[i])]
    /\ stack.pc = "ended" => Len(stack.due) =< stack.late
============================================================================
