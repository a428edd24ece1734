------------------------------- MODULE Timer -------------------------------
(***************************************************************************)
(* The timer service of <mvs/timer.h> (src/mvs/timer): requests (TQEs) in  *)
(* a dynamic array, the timer thread that posts or calls them when they    *)
(* are due, and tmr_start() and tmr_stop(), which create and end that      *)
(* thread.                                                                 *)
(*                                                                         *)
(* A section under lock(tmr) is one step.  The timer thread holds the lock *)
(* for a whole pass over the array, in which it calls the functions of the *)
(* program: those may use the service themselves, since lock() of a lock   *)
(* the task has already is no wait.  A time is abstracted to whether it    *)
(* has come: due means expires <= now.                                     *)
(***************************************************************************)
EXTENDS Integers, Sequences

CONSTANTS
    Clients,    \* tasks that use the service
    Threads,    \* handles of timer threads
    Tqes,       \* heap addresses of TQEs
    None,       \* NULL
    Ids,        \* identifiers, what tmr_id() makes of rand()
    Intervals,  \* bintvl: 0, and 1 for every other
    CallOps,    \* what the functions of requests do with the service
    Stops,      \* TRUE: the program calls tmr_stop()
    MemFails,   \* TRUE: calloc() and ATTACH may fail
    SlowStart,  \* TRUE: a new thread may need more than tmr_start()'s tries
    TimerFails  \* TRUE: STIMER may fail

ASSUME NoneAssumption     == None \notin Threads \cup Tqes \cup Ids
ASSUME IntervalAssumption == Intervals \subseteq {0, 1}
ASSUME OpAssumption       ==
    CallOps \subseteq {"purge", "disable", "enable", "request"}
ASSUME SwitchAssumption   ==
    {Stops, MemFails, SlowStart, TimerFails} \subseteq BOOLEAN

VARIABLES
    flags,      \* tmr->flags without INIT
    task,       \* tmr->task
    thread,     \* thread[h]: where the thread of handle h is
    timeout,    \* tmr->timeout is posted
    timer,      \* a STIMER interval of the timer thread is running
    n,          \* the index of the pass
    tmr,        \* tmr->tqe, the TQEs and whether tmr->wakeup is posted
    pc,         \* pc[c]: where client c is
    local       \* local[c]: the variables of the call c is in

vars == <<flags, task, thread, timeout, timer, n, tmr, pc, local>>

Kinds  == {"once", "keep", "every"}
Places == {"none", "new", "top", "wait", "pass", "exit", "leaving", "ended"}
Labels == {"idle", "start", "tries", "nostart", "new", "add",
           "quiesce", "shutdown", "pick", "join", "delete", "detach"}

(* A TQE.  st is history: "made" (tqe_new()), "queued" (its id returned),  *)
(* "gone" (purged, or fired for good); stopped is history: tmr_stop() has  *)
(* been called since it was queued.                                        *)
NoTqe == [alloc |-> FALSE, id |-> None, kind |-> "once", bintvl |-> 0,
          due |-> FALSE, disabled |-> FALSE, st |-> "gone", stopped |-> FALSE]

NoLocal == [tqe |-> None, task |-> None]

(* The state tmr_init() makes of the zeroed anchor. *)
Init ==
    /\ flags   = {}
    /\ task    = None
    /\ thread  = [h \in Threads |-> "none"]
    /\ timeout = FALSE /\ timer = FALSE /\ n = 0
    /\ tmr     = [tqe |-> <<>>, wakeup |-> FALSE, at |-> [q \in Tqes |-> NoTqe]]
    /\ pc      = [c \in Clients |-> "idle"]
    /\ local   = [c \in Clients |-> NoLocal]

Goto(c, label) == pc' = [pc EXCEPT ![c] = label]
Move(h, place) == thread' = [thread EXCEPT ![h] = place]

(* lock(tmr) can be had: no pass is under way. *)
LockFree == \A h \in Threads : thread[h] # "pass"

----------------------------------------------------------------------------
(* The operations on the requests, as functions of the value s of tmr.     *)

arrayadd(a, x) == Append(a, x)

arraydel(a, i) ==
    IF i \in 1 .. Len(a)
    THEN [j \in 1 .. Len(a) - 1 |-> IF j < i THEN a[j] ELSE a[j + 1]]
    ELSE a

(* The loop of every tqe_ function: the first TQE with this id, or 0. *)
Index(s, id) ==
    LET found == {i \in 1 .. Len(s.tqe) : s.at[s.tqe[i]].id = id}
    IN  IF found = {} THEN 0 ELSE CHOOSE i \in found : \A j \in found : i <= j

tqe_purge(s, id) ==
    LET i == Index(s, id) IN
    IF i = 0 THEN s
    ELSE [s EXCEPT !.tqe = arraydel(@, i), !.at[s.tqe[i]] = NoTqe]

tqe_disable(s, id) ==
    LET i == Index(s, id) IN
    IF i = 0 THEN s ELSE [s EXCEPT !.at[s.tqe[i]].disabled = TRUE]

tqe_enable(s, id) ==
    LET i == Index(s, id)
        q == s.at[s.tqe[i]]
    IN  IF i = 0 THEN s
        ELSE [s EXCEPT !.at[s.tqe[i]] = [q EXCEPT !.disabled = FALSE,
                                         !.due = q.bintvl = 0 /\ q.due],
                       !.wakeup = @ \/ q.bintvl # 0]

tqe_reset(s, id, bintvl) ==
    LET i == Index(s, id)
        q == s.at[s.tqe[i]]
        anew == ~q.disabled /\ bintvl # 0
    IN  IF i = 0 THEN s
        ELSE [s EXCEPT !.at[s.tqe[i]] = [q EXCEPT !.bintvl = bintvl,
                                         !.due = q.due /\ ~anew],
                       !.wakeup = @ \/ anew]

(* tmr_id(): an identifier no queued request has. *)
Unique(s, id) == Index(s, id) = 0

(* tqe_new(). *)
tqe_new(s, q, kind, bintvl, id) ==
    [s EXCEPT !.at[q] = [NoTqe EXCEPT !.alloc = TRUE, !.id = id, !.kind = kind,
                                      !.bintvl = bintvl, !.due = bintvl = 0,
                                      !.st = "made"]]

Stopping == \E c \in Clients :
                pc[c] \in {"quiesce", "shutdown", "pick", "join",
                           "delete", "detach"}

(* The section that ends every request function. *)
Queue(s, q) ==
    [s EXCEPT !.tqe = arrayadd(@, q), !.wakeup = TRUE,
              !.at[q].st = "queued", !.at[q].stopped = Stopping]

----------------------------------------------------------------------------
(* tmr_ecb(), tmr_func() and their _keep and _every forms: tmr_start(). *)
Request(c) ==
    /\ pc[c] = "idle"
    /\ Goto(c, "start")
    /\ UNCHANGED <<flags, task, thread, timeout, timer, n, tmr, local>>

(* tmr_start(): a thread is created unless there is a handle of one. *)
tmr_start(c) ==
    /\ pc[c] = "start" /\ LockFree
    /\ \/ /\ task # None
          /\ Goto(c, "new")
          /\ UNCHANGED <<task, thread, local>>
       \/ \E h \in Threads :
            /\ task = None /\ thread[h] = "none"
            /\ task' = h /\ Move(h, "new")
            /\ local' = [local EXCEPT ![c].task = h]
            /\ Goto(c, "tries")
       \/ /\ MemFails /\ task = None
          /\ local' = [local EXCEPT ![c] = NoLocal]
          /\ Goto(c, "idle")
          /\ UNCHANGED <<task, thread>>
    /\ UNCHANGED <<flags, timeout, timer, n, tmr>>

(* The loop that waits for the thread to begin ... *)
Started(c) ==
    /\ pc[c] = "tries" /\ LockFree /\ "RUNNING" \in flags
    /\ Goto(c, "new")
    /\ UNCHANGED <<flags, task, thread, timeout, timer, n, tmr, local>>

(* ... a hundred times. *)
NotStarted(c) ==
    /\ pc[c] = "tries" /\ LockFree /\ "RUNNING" \notin flags
    /\ SlowStart \/ thread[local[c].task] \in {"none", "ended"}
    /\ Goto(c, "nostart")
    /\ UNCHANGED <<flags, task, thread, timeout, timer, n, tmr, local>>

(* cthread_delete(&tmr->task), which refuses a thread that has not ended. *)
cthread_delete(t) ==
    IF t # None /\ thread[t] = "ended"
    THEN task' = None /\ Move(t, "none")
    ELSE UNCHANGED <<task, thread>>

GiveUp(c) ==
    /\ pc[c] = "nostart" /\ LockFree
    /\ cthread_delete(task)
    /\ flags' = flags \ {"RUNNING"}
    /\ local' = [local EXCEPT ![c] = NoLocal]
    /\ Goto(c, "idle")
    /\ UNCHANGED <<timeout, timer, n, tmr>>

(* tqe_new(), with the kind and the interval of the request, and in it      *)
(* tmr_id(), whose section ends before the request is queued.              *)
NewTqe(c) ==
    /\ pc[c] = "new" /\ LockFree
    /\ \E q \in Tqes, kind \in Kinds, bintvl \in Intervals, id \in Ids :
        /\ ~tmr.at[q].alloc /\ Unique(tmr, id)
        /\ tmr' = tqe_new(tmr, q, kind, bintvl, id)
        /\ local' = [local EXCEPT ![c].tqe = q]
    /\ Goto(c, "add")
    /\ UNCHANGED <<flags, task, thread, timeout, timer, n>>

AddTqe(c) ==
    /\ pc[c] = "add" /\ LockFree
    /\ tmr' = Queue(tmr, local[c].tqe)
    /\ local' = [local EXCEPT ![c] = NoLocal]
    /\ Goto(c, "idle")
    /\ UNCHANGED <<flags, task, thread, timeout, timer, n>>

(* calloc() fails, or array_add(), and the TQE is freed: 0 is returned. *)
NoStorage(c) ==
    /\ MemFails \/ \A q \in Tqes : tmr.at[q].alloc
    /\ \/ pc[c] = "new" /\ UNCHANGED tmr
       \/ /\ pc[c] = "add" /\ LockFree
          /\ tmr' = [tmr EXCEPT !.at[local[c].tqe] = NoTqe]
    /\ local' = [local EXCEPT ![c] = NoLocal]
    /\ Goto(c, "idle")
    /\ UNCHANGED <<flags, task, thread, timeout, timer, n>>

(* tqe_purge(), tqe_disable(), tqe_enable() and tqe_reset(). *)
TqeCall(c) ==
    /\ pc[c] = "idle" /\ LockFree
    /\ \E id \in Ids :
        tmr' \in {tqe_purge(tmr, id), tqe_disable(tmr, id), tqe_enable(tmr, id)}
                    \cup {tqe_reset(tmr, id, b) : b \in Intervals}
    /\ UNCHANGED <<flags, task, thread, timeout, timer, n, pc, local>>

----------------------------------------------------------------------------
(* tmr_stop(), section by section. *)
tmr_stop(c) ==
    /\ Stops /\ pc[c] = "idle"
    /\ tmr' = [tmr EXCEPT !.at = [q \in Tqes |-> [@[q] EXCEPT !.stopped = TRUE]]]
    /\ Goto(c, "quiesce")
    /\ UNCHANGED <<flags, task, thread, timeout, timer, n, local>>

Tell(c, flag) ==
    IF task # None /\ "RUNNING" \in flags
    THEN flags' = flags \cup {flag} /\ tmr' = [tmr EXCEPT !.wakeup = TRUE]
    ELSE UNCHANGED <<flags, tmr>>

Quiesce(c) ==
    /\ pc[c] = "quiesce" /\ LockFree
    /\ Tell(c, "QUIESCE")
    /\ Goto(c, "shutdown")
    /\ UNCHANGED <<task, thread, timeout, timer, n, local>>

Shutdown(c) ==
    /\ pc[c] = "shutdown" /\ LockFree
    /\ Tell(c, "SHUTDOWN")
    /\ Goto(c, "pick")
    /\ UNCHANGED <<task, thread, timeout, timer, n, local>>

(* The handle to wait for is taken under the lock ... *)
Pick(c) ==
    /\ pc[c] = "pick" /\ LockFree
    /\ LET join == task # None /\ "SHUTDOWN" \in flags IN
        /\ local' = [local EXCEPT ![c].task = IF join THEN task ELSE None]
        /\ Goto(c, IF join THEN "join" ELSE "delete")
    /\ UNCHANGED <<flags, task, thread, timeout, timer, n, tmr>>

(* ... and waited for without it, for 5 seconds or until the timer fails. *)
Join(c) ==
    /\ pc[c] = "join"
    /\ Goto(c, "delete")
    /\ UNCHANGED <<flags, task, thread, timeout, timer, n, tmr, local>>

Delete(c) ==
    /\ pc[c] = "delete" /\ LockFree
    /\ IF "SHUTDOWN" \in flags THEN cthread_delete(task)
       ELSE UNCHANGED <<task, thread>>
    /\ Goto(c, "detach")
    /\ UNCHANGED <<flags, timeout, timer, n, tmr, local>>

(* cthread_detach() of a thread that was not told to shut down: the handle *)
(* is dropped, not freed, unless the thread runs.                          *)
Detach(c) ==
    /\ pc[c] = "detach" /\ LockFree
    /\ IF task # None /\ "SHUTDOWN" \notin flags /\ thread[task] = "ended"
       THEN task' = None /\ Move(task, "none")
       ELSE UNCHANGED <<task, thread>>
    /\ local' = [local EXCEPT ![c] = NoLocal]
    /\ Goto(c, "idle")
    /\ UNCHANGED <<flags, timeout, timer, n, tmr>>

----------------------------------------------------------------------------
(* tmr_thread() begins. *)
Begin(h) ==
    /\ thread[h] = "new" /\ LockFree
    /\ flags' = flags \cup {"RUNNING"}
    /\ timeout' = FALSE
    /\ tmr' = [tmr EXCEPT !.wakeup = tmr.tqe # <<>>]
    /\ Move(h, "top")
    /\ UNCHANGED <<task, timer, n, pc, local>>

(* Mutant: QUIESCE and SHUTDOWN are looked at only after a wait. *)
Top_NoShutdown(h) ==
    /\ thread[h] = "top"
    /\ Move(h, "wait")
    /\ timer' \in (IF TimerFails THEN BOOLEAN ELSE {TRUE})
    /\ UNCHANGED <<flags, task, timeout, n, tmr, pc, local>>

(* The top of its loop; timed_waitlist() sets the interval and, when       *)
(* STIMER fails, waits without one.                                        *)
Top(h) ==
    /\ thread[h] = "top"
    /\ Move(h, IF "SHUTDOWN" \in flags THEN "exit" ELSE "wait")
    /\ timer' \in (IF "SHUTDOWN" \in flags THEN {timer}
                   ELSE IF TimerFails THEN BOOLEAN ELSE {TRUE})
    /\ UNCHANGED <<flags, task, timeout, n, tmr, pc, local>>

(* EXITDRVR: the interval, 2 seconds at most, has passed. *)
TimerPops(h) ==
    /\ thread[h] = "wait" /\ timer
    /\ timeout' = TRUE /\ timer' = FALSE
    /\ UNCHANGED <<flags, task, thread, n, tmr, pc, local>>

(* Mutant: an empty queue is enough to end. *)
Woken_Empty(h) ==
    /\ thread[h] = "wait" /\ LockFree
    /\ timeout \/ tmr.wakeup
    /\ timeout' = FALSE /\ timer' = FALSE
    /\ tmr' = [tmr EXCEPT !.wakeup = FALSE]
    /\ n' = Len(tmr.tqe)
    /\ Move(h, IF tmr.tqe = <<>> THEN "exit" ELSE "pass")
    /\ UNCHANGED <<flags, task, pc, local>>

(* The wait ends, TTIMER CANCEL, and under the lock both ECBs are cleared. *)
Woken(h) ==
    /\ thread[h] = "wait" /\ LockFree
    /\ timeout \/ tmr.wakeup
    /\ timeout' = FALSE /\ timer' = FALSE
    /\ tmr' = [tmr EXCEPT !.wakeup = FALSE]
    /\ n' = Len(tmr.tqe)
    /\ Move(h, IF "QUIESCE" \in flags /\ tmr.tqe = <<>> THEN "exit" ELSE "pass")
    /\ UNCHANGED <<flags, task, pc, local>>

(* What a function of the program may do with the service when it is       *)
(* called for the request.                                                 *)
Called(s) ==
    {s} \cup
    (IF "purge" \in CallOps THEN {tqe_purge(s, id) : id \in Ids} ELSE {}) \cup
    (IF "disable" \in CallOps THEN {tqe_disable(s, id) : id \in Ids} ELSE {}) \cup
    (IF "enable" \in CallOps THEN {tqe_enable(s, id) : id \in Ids} ELSE {}) \cup
    (IF "request" \in CallOps
     THEN {Queue(tqe_new(s, w[1], w[2], w[3], w[4]), w[1]) :
              w \in {v \in Tqes \X Kinds \X Intervals \X Ids :
                        ~s.at[v[1]].alloc /\ Unique(s, v[4])}}
     ELSE {})

(* Mutant: the element is deleted one place off. *)
Settle_OffByOne(s, i, q, kind) ==
    CASE kind = "once"  -> [s EXCEPT !.at[q] = NoTqe,
                                     !.tqe = arraydel(@, i - 1)]
      [] kind = "keep"  -> [s EXCEPT !.at[q].disabled = TRUE]
      [] kind = "every" -> [s EXCEPT !.at[q].due = FALSE]

(* What becomes of a request of this kind after it has fired: it is freed  *)
(* and the element at its index deleted, or it is disabled, or starts      *)
(* anew.  When its function has purged it, this is a use of freed storage, *)
(* in which the flags are still found as they were.                        *)
Settle(s, i, q, kind) ==
    CASE kind = "once"  -> [s EXCEPT !.at[q] = NoTqe,
                                     !.tqe = arraydel(@, i)]
      [] kind = "keep"  -> [s EXCEPT !.at[q].disabled = TRUE]
      [] kind = "every" -> [s EXCEPT !.at[q].due = FALSE]

(* The pass, one element from the end to the first: it is disabled or not  *)
(* yet due, or its ECB is posted or its function called.                   *)
Element(h) ==
    /\ thread[h] = "pass" /\ n > 0
    /\ n' = n - 1
    /\ IF n > Len(tmr.tqe) THEN UNCHANGED tmr
       ELSE LET q == tmr.tqe[n] IN
            IF tmr.at[q].disabled \/ ~tmr.at[q].due THEN UNCHANGED tmr
            ELSE \E s \in Called(tmr) : tmr' = Settle(s, n, q, tmr.at[q].kind)
    /\ UNCHANGED <<flags, task, thread, timeout, timer, pc, local>>

PassDone(h) ==
    /\ thread[h] = "pass" /\ n = 0
    /\ Move(h, "top")
    /\ UNCHANGED <<flags, task, timeout, timer, n, tmr, pc, local>>

(* tmr_thread() returns ... *)
Exit(h) ==
    /\ thread[h] = "exit" /\ LockFree
    /\ flags' = flags \ {"RUNNING"}
    /\ Move(h, "leaving")
    /\ UNCHANGED <<task, timeout, timer, n, tmr, pc, local>>

(* ... and MVS ends the task and posts the handle's termecb. *)
TaskEnds(h) ==
    /\ thread[h] = "leaving"
    /\ Move(h, "ended")
    /\ UNCHANGED <<flags, task, timeout, timer, n, tmr, pc, local>>

(* The time of a request comes. *)
TimePasses(q) ==
    /\ tmr.at[q].alloc /\ ~tmr.at[q].due
    /\ tmr' = [tmr EXCEPT !.at[q].due = TRUE]
    /\ UNCHANGED <<flags, task, thread, timeout, timer, n, pc, local>>

----------------------------------------------------------------------------
InRequest(c) ==
    \/ tmr_start(c) \/ Started(c) \/ NotStarted(c) \/ GiveUp(c)
    \/ NewTqe(c) \/ AddTqe(c) \/ NoStorage(c)

InStop(c) ==
    Quiesce(c) \/ Shutdown(c) \/ Pick(c) \/ Join(c) \/ Delete(c) \/ Detach(c)

Client(c) ==
    \/ Request(c)
    \/ InRequest(c)
    \/ TqeCall(c)
    \/ tmr_stop(c)
    \/ InStop(c)

TimerThread(h) ==
    \/ Begin(h) \/ Top(h) \/ TimerPops(h) \/ Woken(h)
    \/ Element(h) \/ PassDone(h) \/ Exit(h) \/ TaskEnds(h)

Next ==
    \/ \E c \in Clients : Client(c)
    \/ \E h \in Threads : TimerThread(h)
    \/ \E q \in Tqes : TimePasses(q)

Spec == Init /\ [][Next]_vars

(* MVS dispatches the timer thread and the clients inside a call, and a    *)
(* lock that is free again and again is granted (ENQ queues its waiters).  *)
(* Clients need not call anything, and time need not pass.                 *)
FairSpec ==
    /\ Spec
    /\ \A h \in Threads : SF_vars(TimerThread(h))
    /\ \A c \in Clients : SF_vars(InRequest(c)) /\ SF_vars(InStop(c))

----------------------------------------------------------------------------
Tqe ==
    [alloc : BOOLEAN, id : Ids \cup {None}, kind : Kinds, bintvl : {0, 1},
     due : BOOLEAN, disabled : BOOLEAN, st : {"made", "queued", "gone"},
     stopped : BOOLEAN]

(* Every variable holds a value of its kind. *)
TypeOK ==
    /\ flags \subseteq {"RUNNING", "QUIESCE", "SHUTDOWN"}
    /\ task \in Threads \cup {None}
    /\ thread \in [Threads -> Places]
    /\ timeout \in BOOLEAN /\ timer \in BOOLEAN /\ n \in Nat
    /\ tmr.tqe \in Seq(Tqes) /\ tmr.wakeup \in BOOLEAN
    /\ tmr.at \in [Tqes -> Tqe]
    /\ pc \in [Clients -> Labels]
    /\ local \in [Clients -> [tqe : Tqes \cup {None},
                              task : Threads \cup {None}]]

(* A request whose identifier was returned stays in the array until it is  *)
(* purged or, when it is a one-shot, fires; and the array holds nothing    *)
(* else, no TQE twice and none that is freed: tmr_thread() walks it while  *)
(* the functions it calls add to it.                                       *)
QueueIsExact ==
    /\ \A i, j \in 1 .. Len(tmr.tqe) : tmr.tqe[i] = tmr.tqe[j] => i = j
    /\ {tmr.tqe[i] : i \in 1 .. Len(tmr.tqe)}
            = {q \in Tqes : tmr.at[q].st = "queued"}

(* There is one timer thread, and tmr->task is its handle until it has     *)
(* ended, whatever tmr_start() and tmr_stop() do at the same time.         *)
OneThread ==
    \A h \in Threads : thread[h] \notin {"none", "ended"} => task = h

(* The queue and the thread that serves it, together: no request is lost   *)
(* or kept, and no second thread walks the array.                          *)
ServiceIsExact == QueueIsExact /\ OneThread

(* A request that is due and enabled fires (or is purged, disabled or      *)
(* reset), unless the program stops the timer service after it was made.   *)
Waiting(q) ==
    tmr.at[q].st = "queued" /\ tmr.at[q].due /\ ~tmr.at[q].disabled
        /\ ~tmr.at[q].stopped
DueFires == \A q \in Tqes : Waiting(q) ~> ~Waiting(q)

(* Until tmr_stop() first finds the thread running, nothing is left        *)
(* waiting: the thread that any of several starters created, at any time,  *)
(* also while another task is in tmr_stop(), fires what is due.            *)
NeverTold == flags \cap {"QUIESCE", "SHUTDOWN"} = {}
FiresUntilStopped ==
    \A q \in Tqes : Waiting(q) /\ NeverTold ~> ~(Waiting(q) /\ NeverTold)

(* A timer thread that tmr_stop() has told to shut down ends. *)
StopEndsThread ==
    \A h \in Threads : (task = h /\ "SHUTDOWN" \in flags)
                            ~> thread[h] \in {"none", "ended"}
=============================================================================
