--------------------------- MODULE ThreadManager ---------------------------
(***************************************************************************)
(* The worker thread pool of <mvs/thread.h>: the thread manager CTHDMGR,   *)
(* its dispatcher thread, its workers and cthread_manager_term()           *)
(* (src/mvs/thread/@@cm*.c).                                               *)
(*                                                                         *)
(* A section under the manager's lock is one step: what other tasks may do *)
(* meanwhile (a worker storing its own state, a POST) commutes with it.    *)
(* The lock is a variable all the same, because dispatch_thread_create()   *)
(* sleeps with it.  Only the dispatcher changes mgr->worker.               *)
(***************************************************************************)
EXTENDS Integers, Sequences, FiniteSets

CONSTANTS
    Workers,     \* storage for CTHDWORK objects, each with its thread
    Items,       \* what programs queue
    NoItem,      \* work->queue is NULL
    Counts,      \* counts cthread_manager_init() is called with
    Opts,        \* the values of work->opt a worker function may set
    Tries,       \* bound: the tries of the first join loop
    Outlasts,    \* what 50 tries outlast: "nothing", the library's own "calls",
                 \* or the worker "functions" as well
    Quits,       \* TRUE: a worker function may return (or abend) unasked
    MemFails,    \* TRUE: calloc(), arrayadd() and ATTACH may find no storage
    TimerFails   \* TRUE: STIMER may fail, and a timed wait does not wait

ASSUME CountsAssumption == Counts \subseteq Nat \ {0}
ASSUME ItemAssumption   == NoItem \notin Items
ASSUME TriesAssumption  == Tries \in Nat
ASSUME FlagsAssumption  == {Quits, MemFails, TimerFails} \subseteq BOOLEAN
ASSUME OutlastsAssumption == Outlasts \in {"nothing", "calls", "functions"}

VARIABLES
    mgr,        \* "none": *cthdmgr is NULL; "live": the storage exists
    maxtask,    \* fields of the CTHDMGR: maxtask, state, wait, queue,
    mstate,     \* worker, start
    mwait,
    queue,
    worker,
    start,
    lock,       \* the ENQ on the manager: "free" or "dispatcher"
    alloc,      \* the CTHDWORK objects that are allocated
    wstate,     \* their fields state, wait, queue, opt; late[w]: wait_time is
    wwait,      \* a second ago
    wqueue,
    wopt,
    late,
    wpc,        \* wpc[w]: where the thread of worker w is
    wrc,        \* wrc[w]: what its cthread_wait() returned
    dpc,        \* where the dispatcher is, and its variables
    drc,
    quiesce,
    pending,
    timer,
    n,
    tpc,        \* where the caller of cthread_manager_term() is
    tries,
    stale,      \* its unserialized test of mgr->state
    orphans,    \* the running workers whose manager it freed
    fate        \* history: what became of each item

mvars == <<mgr, maxtask, mstate, mwait, queue, worker, start, lock>>
wvars == <<alloc, wstate, wwait, wqueue, wopt, late, wpc, wrc>>
dvars == <<dpc, drc, quiesce, pending, timer, n>>
tvars == <<tpc, tries, stale, orphans>>
vars  == <<mvars, wvars, dvars, tvars, fate>>

(* CTHDMGR_STATE_...: the code compares them as numbers. *)
INIT    == 0
RUNNING == 1
QUIESCE == 2
STOPPED == 3
WAITING == 4

(* An ECB is unposted or has a post code; POST of a complete ECB has no    *)
(* effect (external: SVC 2).                                               *)
Unposted == "unposted"
Post(ecb, code) == IF ecb = Unposted THEN code ELSE ecb

mintask == IF maxtask > 5 THEN 3 ELSE IF maxtask > 3 THEN 1 ELSE 0

(* termecb of a worker's task is posted. *)
Ended(w) == wpc[w] = "ended"

Refuses == mstate \in {QUIESCE, STOPPED}

InitManager ==
    /\ mgr = "none" /\ maxtask = 0 /\ mstate = INIT /\ mwait = Unposted
    /\ queue = <<>> /\ worker = <<>> /\ start = 0 /\ lock = "free"

Init ==
    /\ InitManager
    /\ alloc  = {}
    /\ wstate = [w \in Workers |-> "INIT"]
    /\ wwait  = [w \in Workers |-> Unposted]
    /\ wqueue = [w \in Workers |-> NoItem]
    /\ wopt   = [w \in Workers |-> {}]
    /\ late   = [w \in Workers |-> FALSE]
    /\ wpc    = [w \in Workers |-> "ended"]
    /\ wrc    = [w \in Workers |-> "REQUEST"]
    /\ dpc = "ended" /\ drc = "DATA" /\ quiesce = FALSE /\ pending = FALSE
    /\ timer = TRUE /\ n = 0
    /\ tpc = "idle" /\ tries = 0 /\ stale = FALSE /\ orphans = {}
    /\ fate = [i \in Items |-> "new"]

----------------------------------------------------------------------------
(* cthread_manager_init(): a count of 0 is refused, and when storage or    *)
(* the dispatcher thread cannot be had nothing is left behind.             *)
cthread_manager_init(count) ==
    /\ mgr = "none" /\ tpc = "idle"
    /\ mgr' = "live" /\ maxtask' = count
    /\ dpc' = "init"
    /\ UNCHANGED <<mstate, mwait, queue, worker, start, lock, wvars, drc, quiesce,
                   pending, timer, n, tvars, fate>>

(* cthread_queue_add(), by any task that has the manager.  Nobody looks at *)
(* what arrayadd() returns.                                                *)
cthread_queue_add(i) ==
    /\ mgr = "live" /\ lock = "free" /\ fate[i] = "new"
    /\ IF Refuses
       THEN fate' = [fate EXCEPT ![i] = "refused"] /\ UNCHANGED <<queue, mwait>>
       ELSE /\ mwait' = Post(mwait, "DATA")
            /\ \/ /\ queue' = Append(queue, i)
                  /\ fate'  = [fate EXCEPT ![i] = "queued"]
               \/ /\ MemFails
                  /\ UNCHANGED queue
                  /\ fate'  = [fate EXCEPT ![i] = "lost"]
    /\ UNCHANGED <<mgr, maxtask, mstate, worker, start, lock, wvars, dvars, tvars>>

----------------------------------------------------------------------------
(* arrayadd(&mgr->worker, work): nobody looks at what it returns.          *)
AddToArray(w) ==
    \/ worker' = Append(worker, w)
    \/ MemFails /\ UNCHANGED worker

(* cthread_worker_add(): the thread of the new worker starts, whether or   *)
(* not the worker could be put into the array; an unlisted one is known to *)
(* nobody but itself.  Nothing changes while the manager stops, or when    *)
(* there is no storage for the CTHDWORK or no thread: then what was made   *)
(* is deleted.                                                             *)
cthread_worker_add ==
    IF Refuses \/ Workers \subseteq alloc
    THEN UNCHANGED <<worker, wvars>>
    ELSE \/ MemFails /\ UNCHANGED <<worker, wvars>>
         \/ \E w \in Workers \ alloc :
               /\ alloc' = alloc \cup {w}
               /\ AddToArray(w)
               /\ wpc'   = [wpc EXCEPT ![w] = "func"]
               /\ UNCHANGED <<wstate, wwait, wqueue, wopt, late, wrc>>

arraydel(a, k) == [j \in 1 .. Len(a) - 1 |-> IF j < k THEN a[j] ELSE a[j + 1]]

(* cthread_worker_del() of a worker that has ended: the item it was given  *)
(* goes with it.  A free CTHDWORK has the values calloc() gives it.        *)
cthread_worker_del(w) ==
    /\ worker' = arraydel(worker, CHOOSE k \in 1 .. Len(worker) : worker[k] = w)
    /\ alloc'  = alloc \ {w}
    /\ wstate' = [wstate EXCEPT ![w] = "INIT"]
    /\ wwait'  = [wwait EXCEPT ![w] = Unposted]
    /\ wqueue' = [wqueue EXCEPT ![w] = NoItem]
    /\ wopt'   = [wopt EXCEPT ![w] = {}]
    /\ late'   = [late EXCEPT ![w] = FALSE]
    /\ fate'   = IF wqueue[w] = NoItem THEN fate
                 ELSE [fate EXCEPT ![wqueue[w]] =
                          IF @ = "given" THEN "done" ELSE "dropped"]

----------------------------------------------------------------------------
(* The worker: cthread_worker_wait() in a loop. *)

(* The worker function sets its options before it waits for the first time *)
(* and calls cthread_worker_wait().                                        *)
CallWait(w) ==
    /\ wpc[w] = "func"
    /\ IF wstate[w] = "INIT" THEN \E o \in Opts : wopt' = [wopt EXCEPT ![w] = o]
                             ELSE UNCHANGED wopt
    /\ wpc' = [wpc EXCEPT ![w] = "qdel"]
    /\ UNCHANGED <<mvars, alloc, wstate, wwait, wqueue, late, wrc, dvars, tvars, fate>>

(* cthread_queue_del(&work->queue): needs the lock when there is an item. *)
cthread_queue_del(w) ==
    /\ wpc[w] = "qdel"
    /\ IF wqueue[w] = NoItem
       THEN UNCHANGED <<wqueue, fate>>
       ELSE /\ lock = "free"
            /\ fate'   = [fate EXCEPT ![wqueue[w]] = "done"]
            /\ wqueue' = [wqueue EXCEPT ![w] = NoItem]
    /\ wpc' = [wpc EXCEPT ![w] = "mark"]
    /\ UNCHANGED <<mvars, alloc, wstate, wwait, wopt, late, wrc, dvars, tvars>>

MarkWaiting(w) ==
    /\ wpc[w] = "mark"
    /\ wstate' = [wstate EXCEPT ![w] = "WAITING"]
    /\ late'   = [late EXCEPT ![w] = FALSE]
    /\ wpc'    = [wpc EXCEPT ![w] = "post"]
    /\ UNCHANGED <<mvars, alloc, wwait, wqueue, wopt, wrc, dvars, tvars, fate>>

(* Mutant: the ECB is cleared before the wait. *)
PostManager_Clears(w) ==
    /\ wpc[w] = "post"
    /\ mwait' = Post(mwait, "WAIT")
    /\ wpc'   = [wpc EXCEPT ![w] = "wait"]
    /\ wwait' = [wwait EXCEPT ![w] = Unposted]
    /\ UNCHANGED <<mgr, maxtask, mstate, queue, worker, start, lock, alloc,
                   wstate, wqueue, wopt, late, wrc, dvars, tvars, fate>>

(* An orphan posts storage that was freed: that of no manager, or that of  *)
(* the next one.                                                           *)
PostManager(w) ==
    /\ wpc[w] = "post"
    /\ \/ mgr = "live" /\ mwait' = Post(mwait, "WAIT")
       \/ w \in orphans /\ UNCHANGED mwait
    /\ wpc'   = [wpc EXCEPT ![w] = "wait"]
    /\ UNCHANGED <<mgr, maxtask, mstate, queue, worker, start, lock, alloc,
                   wstate, wwait, wqueue, wopt, late, wrc, dvars, tvars, fate>>

(* cthread_wait(): WAIT, then the ECB is read and cleared by one CS. *)
cthread_wait(w) ==
    /\ wpc[w] = "wait" /\ wwait[w] # Unposted
    /\ wrc'   = [wrc EXCEPT ![w] = wwait[w]]
    /\ wwait' = [wwait EXCEPT ![w] = Unposted]
    /\ wpc'   = [wpc EXCEPT ![w] = "woken"]
    /\ UNCHANGED <<mvars, alloc, wstate, wqueue, wopt, late, dvars, tvars, fate>>

(* The end of cthread_worker_wait(): the item goes to the worker function, *)
(* which returns when it is told to.                                       *)
Receive(w) ==
    /\ wpc[w] = "woken"
    /\ wstate' = [wstate EXCEPT ![w] =
                     IF wrc[w] = "SHUTDOWN" THEN "SHUTDOWN" ELSE "RUNNING"]
    /\ fate' = IF wqueue[w] = NoItem THEN fate
               ELSE [fate EXCEPT ![wqueue[w]] =
                        IF @ = "queued" THEN "given" ELSE "twice"]
    /\ wpc' = [wpc EXCEPT ![w] = IF wrc[w] = "SHUTDOWN" THEN "end" ELSE "func"]
    /\ wrc' = [wrc EXCEPT ![w] = "REQUEST"]     \* not used any more
    /\ UNCHANGED <<mvars, alloc, wwait, wqueue, wopt, late, dvars, tvars>>

(* The thread ends and MVS posts termecb. *)
ThreadEnds(w) ==
    /\ wpc[w] = "end" \/ (wpc[w] = "func" /\ Quits)
    /\ wpc' = [wpc EXCEPT ![w] = "ended"]
    /\ UNCHANGED <<mvars, alloc, wstate, wwait, wqueue, wopt, late, wrc, dvars,
                   tvars, fate>>

(* A second has passed since wait_time. *)
SecondPasses(w) ==
    /\ wstate[w] = "WAITING" /\ "TIMER" \in wopt[w] /\ ~ late[w] /\ w \in alloc
    /\ late' = [late EXCEPT ![w] = TRUE]
    /\ UNCHANGED <<mvars, alloc, wstate, wwait, wqueue, wopt, wpc, wrc, dvars,
                   tvars, fate>>
----------------------------------------------------------------------------
(* The dispatcher.  It never waits for the lock: the other sections are    *)
(* single steps, and RET=HAVE lets it nest its own.                        *)
Goto(label) == dpc' = label

(* dispatch_thread_init(): state RUNNING, then the first workers, under    *)
(* the lock.                                                               *)
dispatch_thread_init ==
    /\ dpc = "init"
    /\ lock' = "dispatcher" /\ mstate' = RUNNING
    /\ Goto("init_add")
    /\ UNCHANGED <<mgr, maxtask, mwait, queue, worker, start, wvars, drc,
                   quiesce, pending, timer, n, tvars, fate>>

InitAdd ==
    /\ dpc = "init_add"
    /\ IF n < mintask
       THEN cthread_worker_add /\ n' = n + 1 /\ UNCHANGED <<dpc, lock>>
       ELSE Goto("wait") /\ lock' = "free" /\ n' = 0 /\ UNCHANGED <<worker, wvars>>
    /\ UNCHANGED <<mgr, maxtask, mstate, mwait, queue, start, drc, quiesce,
                   pending, timer, tvars, fate>>

(* The top of dispatch_thread_timed_wait(): with items pending and no      *)
(* worker that starts or waits, another worker is created.  (How long the  *)
(* wait will be depends on quiesce, pending and timer; here it may always  *)
(* run out.)                                                               *)
NoneFree == \A k \in 1 .. Len(worker) : wstate[worker[k]] \notin {"INIT", "WAITING"}

dispatch_thread_timed_wait ==
    /\ dpc = "wait"
    /\ IF ~ quiesce /\ pending
       THEN Goto(IF NoneFree THEN "create" ELSE "sleep")
       ELSE Goto("sleep")
    /\ UNCHANGED <<mvars, wvars, drc, quiesce, pending, timer, n, tvars, fate>>

(* The pool may grow. *)
BelowMax == Len(worker) < maxtask

(* dispatch_thread_create() sleeps in cthread_yield() with the lock. *)
dispatch_thread_create ==
    /\ dpc = "create"
    /\ IF BelowMax THEN cthread_worker_add ELSE UNCHANGED <<worker, wvars>>
    /\ lock' = "dispatcher"
    /\ Goto("yield")
    /\ UNCHANGED <<mgr, maxtask, mstate, mwait, queue, start, drc, quiesce,
                   pending, timer, n, tvars, fate>>

Yield ==
    /\ dpc = "yield"
    /\ lock' = "free"
    /\ Goto("sleep")
    /\ UNCHANGED <<mgr, maxtask, mstate, mwait, queue, worker, start, wvars, drc,
                   quiesce, pending, timer, n, tvars, fate>>

MarkManager ==
    /\ dpc = "sleep"
    /\ mstate' = WAITING
    /\ Goto("waiting")
    /\ UNCHANGED <<mgr, maxtask, mwait, queue, worker, start, lock, wvars, drc,
                   quiesce, pending, timer, n, tvars, fate>>

(* cthread_timed_wait(): the timer exit posts the same ECB. *)
TimeIsUp ==
    /\ dpc = "waiting" /\ mwait = Unposted
    /\ mwait' = "TIMER"
    /\ UNCHANGED <<mgr, maxtask, mstate, queue, worker, start, lock, wvars, dvars,
                   tvars, fate>>

(* After the WAIT the ECB is read, then cleared by a second instruction.   *)
(* When STIMER failed there was no WAIT, and 0 is CTHDMGR_POST_DATA.       *)
cthread_timed_wait ==
    /\ dpc = "waiting" /\ (mwait # Unposted \/ TimerFails)
    /\ drc' = IF mwait = Unposted THEN "DATA" ELSE mwait
    /\ Goto("clear")
    /\ UNCHANGED <<mvars, wvars, quiesce, pending, timer, n, tvars, fate>>

ClearEcb ==
    /\ dpc = "clear"
    /\ mwait' = Unposted
    /\ Goto("run")
    /\ UNCHANGED <<mgr, maxtask, mstate, queue, worker, start, lock, wvars, drc,
                   quiesce, pending, timer, n, tvars, fate>>

(* Mutant: CTHDMGR_POST_SHUTDOWN is not looked at. *)
AfterWait_NoShutdown == "check"

(* Where dispatch_thread() goes after its wait. *)
AfterWait == IF drc = "SHUTDOWN" THEN "term" ELSE "check"

(* The rest of dispatch_thread_timed_wait(), and what dispatch_thread()    *)
(* does with its answer.                                                   *)
dispatch_thread ==
    /\ dpc = "run"
    /\ mstate' = RUNNING
    /\ quiesce' = (quiesce \/ drc = "QUIESCE")
    /\ Goto(AfterWait)
    /\ drc' = "DATA"                            \* not used any more
    /\ UNCHANGED <<mgr, maxtask, mwait, queue, worker, start, lock, wvars,
                   pending, timer, n, tvars, fate>>

(* Mutant: the options are not looked at. *)
WantsTimer_Never == FALSE

(* A worker wants timer posts. *)
WantsTimer == \E k \in 1 .. Len(worker) : "TIMER" \in wopt[worker[k]]

(* dispatch_thread_check(): the first worker that has ended is deleted.    *)
(* The answer says that a worker up to there wants timer posts, or that    *)
(* one was deleted.                                                        *)
dispatch_thread_check ==
    /\ dpc = "check"
    /\ LET Dead == {k \in 1 .. Len(worker) : Ended(worker[k])} IN
       IF Dead = {}
       THEN /\ timer' = WantsTimer
            /\ UNCHANGED <<worker, alloc, wstate, wwait, wqueue, wopt, late, fate>>
       ELSE /\ timer'  = TRUE
            /\ cthread_worker_del(worker[CHOOSE k \in Dead : \A j \in Dead : k <= j])
    /\ Goto(IF quiesce THEN "quiesce" ELSE "work")
    /\ UNCHANGED <<mgr, maxtask, mstate, mwait, queue, start, lock, wpc, wrc,
                   drc, quiesce, pending, n, tvars>>

(* dispatch_thread_work(), up to its loops over the workers: another one   *)
(* is created below the minimum, and the loops are entered when there may  *)
(* be something to do.  (Workers above maxtask would be stopped here;      *)
(* PoolBound says that there are none.)                                    *)
dispatch_thread_work ==
    /\ dpc = "work"
    /\ IF Len(worker) < mintask THEN cthread_worker_add ELSE UNCHANGED <<worker, wvars>>
    /\ lock' = "dispatcher"
    /\ IF (timer \/ queue # <<>>) /\ worker' # <<>>
       THEN n' = 0 /\ start' = IF start + 1 >= Len(worker') THEN 0 ELSE start + 1
       ELSE n' = Len(worker') /\ UNCHANGED start
    /\ timer' = TRUE                            \* not used any more
    /\ Goto("dispatch")
    /\ UNCHANGED <<mgr, maxtask, mstate, mwait, queue, drc, quiesce, pending,
                   tvars, fate>>

(* dispatch_work(): a worker that waits is given the first item, if it     *)
(* takes items; else it is posted if it wants it and a second has passed.  *)
Waiting(w) == wstate[w] = "WAITING" /\ ~ Ended(w)

dispatch_work(w) ==
    LET Takes == "NOWORK" \notin wopt[w] /\ queue # <<>>
    IN
    IF Waiting(w) /\ (Takes \/ late[w])
    THEN /\ wstate' = [wstate EXCEPT ![w] = "DISPATCH"]
         /\ queue'  = IF Takes THEN Tail(queue) ELSE queue
         /\ wqueue' = [wqueue EXCEPT ![w] = IF Takes THEN Head(queue) ELSE NoItem]
         /\ wwait'  = [wwait EXCEPT ![w] = Post(@, IF Takes THEN "REQUEST" ELSE "TIMER")]
    ELSE UNCHANGED <<queue, wstate, wqueue, wwait>>

(* The two loops: every worker once, from mgr->start on. *)
NextWorker ==
    worker[IF start + n < Len(worker) THEN start + n + 1
                                      ELSE start + n + 1 - Len(worker)]

DispatchNext ==
    /\ dpc = "dispatch" /\ n < Len(worker)
    /\ dispatch_work(NextWorker)
    /\ n' = n + 1
    /\ UNCHANGED <<mgr, maxtask, mstate, mwait, worker, start, lock, alloc, wopt,
                   late, wpc, wrc, dpc, drc, quiesce, pending, timer, tvars, fate>>

(* Mutant: without workers nothing is pending (#700). *)
StillQueued_NoWorkers == queue # <<>> /\ worker # <<>>

(* dispatch_thread_work() could not hand out every item. *)
StillQueued == queue # <<>>

Dispatched ==
    /\ dpc = "dispatch" /\ n = Len(worker)
    /\ pending' = StillQueued
    /\ lock' = "free" /\ n' = 0
    /\ Goto("wait")
    /\ UNCHANGED <<mgr, maxtask, mstate, mwait, queue, worker, start, wvars, drc,
                   quiesce, timer, tvars, fate>>

----------------------------------------------------------------------------
(* cthread_worker_shutdown() of worker[n], from dispatch_thread_quiesce()  *)
(* ("q_shut") and dispatch_thread_term() ("t_shut"); the lock is not held. *)
Cur == worker[n]

(* It posts again every 0.1 seconds until the thread has ended. *)
ShutPost ==
    /\ dpc \in {"q_shut", "t_shut"} /\ ~ Ended(Cur)
    /\ wwait' = [wwait EXCEPT ![Cur] = Post(@, "SHUTDOWN")]
    /\ UNCHANGED <<mvars, alloc, wstate, wqueue, wopt, late, wpc, wrc, dvars,
                   tvars, fate>>

(* After 50 tries, five seconds, it gives up.  When they outlast the       *)
(* library's own calls this happens only to a worker that is in its        *)
(* function or waits for the lock.                                         *)
MayGiveUp(w) ==
    \/ Outlasts = "nothing"
    \/ Outlasts = "calls" /\ wpc[w] = "func"
    \/ wpc[w] = "qdel" /\ wqueue[w] # NoItem /\ lock # "free"

(* Mutant: the worker that did not stop is deleted. *)
ShutGiveUp_Deletes ==
    /\ dpc \in {"q_shut", "t_shut"} /\ ~ Ended(Cur) /\ wwait[Cur] # Unposted
    /\ MayGiveUp(Cur)
    /\ cthread_worker_del(Cur)
    /\ Goto(IF dpc = "q_shut" THEN "q_next" ELSE "t_next")
    /\ n' = n - 1
    /\ UNCHANGED <<mgr, maxtask, mstate, mwait, queue, start, lock, wpc, wrc, drc,
                   quiesce, pending, timer, tvars>>

ShutGiveUp ==
    /\ dpc \in {"q_shut", "t_shut"} /\ ~ Ended(Cur) /\ wwait[Cur] # Unposted
    /\ MayGiveUp(Cur)
    /\ wstate' = [wstate EXCEPT ![Cur] = "STUCK"]
    /\ Goto(IF dpc = "q_shut" THEN "q_next" ELSE "t_next")
    /\ n' = n - 1
    /\ UNCHANGED <<mvars, alloc, wwait, wqueue, wopt, late, wpc, wrc, drc, quiesce,
                   pending, timer, tvars, fate>>

(* The worker ended: dispatch_thread_quiesce() leaves it to the next       *)
(* dispatch_thread_check(), dispatch_thread_term() deletes it.             *)
ShutDone ==
    /\ dpc \in {"q_shut", "t_shut"} /\ Ended(Cur)
    /\ IF dpc = "q_shut"
       THEN /\ Goto("q_next")
            /\ UNCHANGED <<worker, alloc, wstate, wwait, wqueue, wopt, late, fate>>
       ELSE Goto("t_next") /\ cthread_worker_del(Cur)
    /\ n' = n - 1
    /\ UNCHANGED <<mgr, maxtask, mstate, mwait, queue, start, lock, wpc, wrc, drc,
                   quiesce, pending, timer, tvars>>

(* dispatch_thread_quiesce(): the workers that wait are stopped, the last  *)
(* one first; without workers the dispatcher ends.                         *)
dispatch_thread_quiesce ==
    /\ dpc = "quiesce"
    /\ n' = Len(worker)
    /\ Goto(IF worker = <<>> THEN "term" ELSE "q_next")
    /\ UNCHANGED <<mvars, wvars, drc, quiesce, pending, timer, tvars, fate>>

QuiesceNext ==
    /\ dpc = "q_next"
    /\ IF n = 0 THEN Goto("wait") /\ UNCHANGED n
       ELSE IF Waiting(Cur) THEN Goto("q_shut") /\ UNCHANGED n
       ELSE n' = n - 1 /\ UNCHANGED dpc
    /\ UNCHANGED <<mvars, wvars, drc, quiesce, pending, timer, tvars, fate>>

(* Mutant: the lock is held across the waits for the workers (#11). *)
dispatch_thread_term_Locked ==
    /\ dpc = "term"
    /\ mstate' = QUIESCE
    /\ n' = Len(worker) /\ lock' = "dispatcher"
    /\ Goto("t_next")
    /\ quiesce' = FALSE /\ pending' = FALSE /\ timer' = TRUE    \* not used any more
    /\ UNCHANGED <<mgr, maxtask, mwait, queue, worker, start, wvars, drc,
                   tvars, fate>>

(* dispatch_thread_term(): every worker is stopped, the last one first,    *)
(* then the dispatcher returns and MVS posts its termecb.                  *)
dispatch_thread_term ==
    /\ dpc = "term"
    /\ mstate' = QUIESCE
    /\ n' = Len(worker)
    /\ Goto("t_next")
    /\ quiesce' = FALSE /\ pending' = FALSE /\ timer' = TRUE    \* not used any more
    /\ UNCHANGED <<mgr, maxtask, mwait, queue, worker, start, lock, wvars, drc,
                   tvars, fate>>

TermNext ==
    /\ dpc = "t_next"
    /\ IF n = 0 THEN mstate' = STOPPED /\ lock' = "free" /\ Goto("ended")
                ELSE UNCHANGED <<mstate, lock>> /\ Goto("t_shut")
    /\ UNCHANGED <<mgr, maxtask, mwait, queue, worker, start, wvars, drc,
                   quiesce, pending, timer, n, tvars, fate>>

----------------------------------------------------------------------------
(* cthread_manager_term(), by the program.  A call that returned -1 kept   *)
(* the manager and may be repeated.                                        *)
cthread_manager_term ==
    /\ mgr = "live" /\ tpc = "idle" /\ lock = "free"
    /\ mstate' = IF mstate < QUIESCE THEN QUIESCE ELSE mstate
    /\ mwait'  = Post(mwait, "QUIESCE")
    /\ tpc' = "join" /\ tries' = 0
    /\ UNCHANGED <<mgr, maxtask, queue, worker, start, lock, wvars, dvars, stale,
                   orphans, fate>>

(* The first join loop goes on. *)
TriesLeft == tries < Tries

(* Phase 1: wait for the end of the dispatcher; after 0.1 seconds look at  *)
(* the state again, without the lock.                                      *)
Join ==
    /\ tpc = "join"
    /\ IF dpc = "ended" THEN tpc' = "cleanup" /\ UNCHANGED <<tries, stale, mwait>>
       ELSE IF TriesLeft
            THEN tpc' = "store" /\ stale' = (mstate < QUIESCE) /\ UNCHANGED <<tries, mwait>>
       ELSE tpc' = "join2" /\ mwait' = Post(mwait, "SHUTDOWN") /\ UNCHANGED <<tries, stale>>
    /\ UNCHANGED <<mgr, maxtask, mstate, queue, worker, start, lock, wvars, dvars,
                   orphans, fate>>

JoinStore ==
    /\ tpc = "store"
    /\ mstate' = IF stale THEN QUIESCE ELSE mstate
    /\ tpc' = "post" /\ stale' = FALSE
    /\ UNCHANGED <<mgr, maxtask, mwait, queue, worker, start, lock, wvars, dvars,
                   tries, orphans, fate>>

JoinPost ==
    /\ tpc = "post"
    /\ mwait' = Post(mwait, "QUIESCE")
    /\ tpc' = "join" /\ tries' = tries + 1
    /\ UNCHANGED <<mgr, maxtask, mstate, queue, worker, start, lock, wvars, dvars,
                   stale, orphans, fate>>

(* Phase 2: the same with CTHDMGR_POST_SHUTDOWN.  Its tries outlast the    *)
(* dispatcher's 50 for each worker, unless they outlast nothing.           *)
Join2Post ==
    /\ tpc = "join2" /\ dpc # "ended"
    /\ mwait' = Post(mwait, "SHUTDOWN")
    /\ UNCHANGED <<mgr, maxtask, mstate, queue, worker, start, lock, wvars, dvars,
                   tvars, fate>>

Join2End ==
    /\ tpc = "join2"
    /\ \/ dpc = "ended" /\ tpc' = "cleanup"
       \/ Outlasts = "nothing" /\ dpc # "ended" /\ tpc' = "idle"    \* returns -1
    /\ UNCHANGED <<mvars, wvars, dvars, tries, stale, orphans, fate>>

(* Mutant: only the end of the dispatcher counts. *)
StillRunning_Ignored == FALSE

(* A listed worker that did not stop. *)
StillRunning == \E k \in 1 .. Len(worker) : ~ Ended(worker[k])

(* The dispatcher has ended.  A listed worker that has not keeps the       *)
(* manager alive (-1); otherwise the items never handed out and the        *)
(* manager are freed, also under a worker that is not in the array.        *)
(* mgr->worker and a worker that ended late are not freed.                 *)
Cleanup ==
    /\ tpc = "cleanup" /\ lock = "free"
    /\ IF StillRunning
       THEN UNCHANGED <<mgr, maxtask, mstate, mwait, queue, worker, start, orphans, fate>>
       ELSE /\ orphans' = {w \in Workers : ~ Ended(w)}
            /\ mgr' = "none" /\ maxtask' = 0 /\ mstate' = INIT /\ mwait' = Unposted
            /\ queue' = <<>> /\ worker' = <<>> /\ start' = 0
            /\ fate' = [i \in Items |->
                  IF \E k \in 1 .. Len(queue) : queue[k] = i THEN "dropped" ELSE fate[i]]
    /\ tpc' = "idle" /\ tries' = 0
    /\ UNCHANGED <<lock, wvars, dvars, stale>>

----------------------------------------------------------------------------
WorkerStep(w) ==
    \/ CallWait(w) \/ cthread_queue_del(w) \/ MarkWaiting(w) \/ PostManager(w)
    \/ cthread_wait(w) \/ Receive(w)

Dispatcher ==
    \/ dispatch_thread_init \/ InitAdd \/ dispatch_thread_timed_wait
    \/ dispatch_thread_create \/ Yield \/ MarkManager \/ TimeIsUp
    \/ cthread_timed_wait \/ ClearEcb \/ dispatch_thread
    \/ dispatch_thread_check \/ dispatch_thread_work
    \/ DispatchNext \/ Dispatched
    \/ dispatch_thread_quiesce \/ QuiesceNext \/ ShutPost \/ ShutGiveUp \/ ShutDone
    \/ dispatch_thread_term \/ TermNext

TermStep == Join \/ JoinStore \/ JoinPost \/ Join2Post \/ Join2End \/ Cleanup

Next ==
    \/ \E count \in Counts : cthread_manager_init(count)
    \/ \E i \in Items : cthread_queue_add(i)
    \/ \E w \in Workers : WorkerStep(w) \/ ThreadEnds(w) \/ SecondPasses(w)
    \/ Dispatcher
    \/ cthread_manager_term
    \/ TermStep

Spec == Init /\ [][Next]_vars

(* Fairness.  Every task that can run is dispatched by MVS, timers run     *)
(* out, and a worker function comes back (to cthread_worker_wait(), or to  *)
(* its caller after a shutdown post).  The second join loop posts every    *)
(* 0.1 seconds, no less often than the dispatcher's shortest wait runs     *)
(* out: one of its posts finds the dispatcher waiting.                     *)
Fairness ==
    /\ WF_vars(Dispatcher)
    /\ WF_vars(TermStep)
    /\ SF_vars(Join2Post)
    /\ \A w \in Workers :
          WF_vars(WorkerStep(w)) /\ WF_vars(ThreadEnds(w)) /\ WF_vars(SecondPasses(w))

FairSpec == Spec /\ Fairness
----------------------------------------------------------------------------
TypeOK ==
    /\ mgr \in {"none", "live"} /\ maxtask \in Nat /\ mstate \in 0 .. 4
    /\ mwait \in {Unposted, "DATA", "WAIT", "QUIESCE", "SHUTDOWN", "TIMER"}
    /\ queue \in Seq(Items) /\ worker \in Seq(Workers) /\ start \in Nat
    /\ lock \in {"free", "dispatcher"}
    /\ alloc \subseteq Workers
    /\ wqueue \in [Workers -> Items \cup {NoItem}]
    /\ n \in 0 .. Len(worker) \/ dpc \notin {"q_shut", "t_shut", "dispatch"}
    /\ tries \in 0 .. Tries
    /\ fate \in [Items -> {"new", "refused", "queued", "given", "done",
                           "dropped", "lost", "twice"}]

(* The manager is freed only when no thread can reach it any more: the     *)
(* dispatcher and every worker have ended (#11).  It takes the array of    *)
(* the workers to be complete, so arrayadd() must have found storage.      *)
FreedUnused ==
    mgr = "none" => dpc = "ended" /\ \A w \in Workers : Ended(w)

(* The CTHDWORK of a running thread is allocated and in mgr->worker, where *)
(* cthread_manager_term() sees it.                                         *)
LiveIsListed ==
    \A w \in Workers :
        ~ Ended(w) => w \in alloc /\ \E k \in 1 .. Len(worker) : worker[k] = w

(* The pool never holds more than count workers. *)
PoolBound == Len(worker) <= maxtask

(* As long as arrayadd() finds storage, every worker that runs is one the  *)
(* manager knows of, and there are no more of them than it was told to     *)
(* have, however a worker's end races its shutdown.                        *)
WorkersAreKnown == LiveIsListed /\ PoolBound

(* The place of an item: in the queue once, or with one worker. *)
InQueue(i) == {k \in 1 .. Len(queue) : queue[k] = i}
Holders(i) == {w \in alloc : wqueue[w] = i}

(* Every item that was accepted is in exactly one place until it is done,  *)
(* reaches one worker function once, and is dropped only by the end of the *)
(* pool.                                                                   *)
ItemsAccounted ==
    \A i \in Items :
        /\ Cardinality(InQueue(i)) + Cardinality(Holders(i)) =
              IF fate[i] \in {"queued", "given"} THEN 1 ELSE 0
        /\ InQueue(i) # {} => fate[i] = "queued"
        /\ fate[i] \notin {"lost", "twice"}
        /\ fate[i] = "dropped" => Holders(i) = {}

(* A worker that was handed an item has been told so, and keeps it: no     *)
(* post that was sent before makes it miss the item.                       *)
GivenIsReceived ==
    \A w \in alloc :
        wqueue[w] # NoItem /\ fate[wqueue[w]] = "queued" =>
            \/ wpc[w] \in {"post", "wait"} /\ wwait[w] = "REQUEST"
            \/ wpc[w] = "woken" /\ wrc[w] = "REQUEST"

(* No item is lost, doubled or left with a worker that will not see it,    *)
(* whichever of the posts on its way is lost or late.                      *)
ItemsAreKept == ItemsAccounted /\ GivenIsReceived

(* A worker is declared stuck only while it is in its own function: the    *)
(* shutdown of the pool never blocks a worker that came back (#11).        *)
StuckIsBusy ==
    [][\A w \in Workers : wstate[w] # "STUCK" /\ wstate'[w] = "STUCK"
                            => wpc[w] = "func"]_vars

(* Every item is handed out, unless the pool is shut down. *)
ItemServed ==
    \A i \in Items : fate[i] = "queued" ~> fate[i] # "queued" \/ tpc # "idle"

(* A worker that asked for timer posts is woken. *)
TimerPosted ==
    \A w \in Workers :
        wpc[w] = "wait" /\ "TIMER" \in wopt[w] ~> wpc[w] # "wait"

(* cthread_manager_term() frees the pool when the worker functions return. *)
TermFrees == tpc # "idle" ~> mgr = "none"
=============================================================================
