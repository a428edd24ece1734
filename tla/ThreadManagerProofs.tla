------------------------ MODULE ThreadManagerProofs -------------------------
(***************************************************************************)
(* The safety properties of ThreadManager for any number of workers and    *)
(* items.                                                                  *)
(***************************************************************************)
EXTENDS ThreadManager, ArrayFacts

Labels == {"init", "init_add", "wait", "create", "yield", "sleep", "waiting",
           "clear", "run", "check", "work", "dispatch", "quiesce", "q_next",
           "q_shut", "term", "t_next", "t_shut", "ended"}
Ecbs   == {Unposted, "DATA", "WAIT", "QUIESCE", "SHUTDOWN", "TIMER", "REQUEST"}

TypeInv ==
    /\ TypeOK
    /\ dpc \in Labels /\ quiesce \in BOOLEAN /\ n \in Nat
    /\ tpc \in {"idle", "join", "store", "post", "join2", "cleanup"}
    /\ wpc \in [Workers -> {"func", "qdel", "mark", "post", "wait", "woken", "end",
                            "ended"}]
    /\ wstate \in [Workers -> {"INIT", "WAITING", "RUNNING", "SHUTDOWN", "DISPATCH",
                               "STUCK"}]
    /\ wwait \in [Workers -> Ecbs] /\ wrc \in [Workers -> Ecbs]

(* The life of the manager: who reaches it, and what the dispatcher's      *)
(* labels say of its variables.                                            *)
LifeInv ==
    /\ mgr = "none" => dpc = "ended" /\ tpc = "idle" /\ worker = <<>> /\ queue = <<>>
    /\ tpc = "cleanup" => dpc = "ended"
    /\ tpc \in {"store", "post"} => tries < Tries
    /\ dpc \in {"init", "ended"} => n = 0
    /\ dpc \in {"init", "t_next", "t_shut", "ended"} => ~ quiesce
    /\ dpc = "init" => worker = <<>>
    /\ dpc \in {"quiesce", "q_next", "q_shut"} => quiesce
    /\ dpc \in {"work", "dispatch"} => ~ quiesce
    /\ lock = "dispatcher" => dpc \in {"init_add", "yield", "dispatch"}

(* The array of workers, and the dispatcher's way through it.  A worker    *)
(* that runs is in the array if arrayadd() always finds storage.           *)
PoolInv ==
    /\ Distinct(worker) /\ Len(worker) <= maxtask
    /\ \A w \in Workers : Has(worker, w) \/ ~ Ended(w) => w \in alloc
    /\ \A w \in Workers : ~ Ended(w) => Has(worker, w) \/ MemFails

(* Nobody posts a running worker that is not in the array. *)
UnlistedInv ==
    \A w \in Workers :
        ~ Ended(w) /\ ~ Has(worker, w) => wwait[w] = Unposted /\ wpc[w] # "woken"

IndexInv ==
    /\ dpc = "init_add" => Len(worker) <= n
    /\ dpc \in {"dispatch", "q_next", "q_shut", "t_next", "t_shut"} => n <= Len(worker)
    /\ dpc \in {"q_shut", "t_shut"} => n >= 1
    /\ dpc = "dispatch" /\ n < Len(worker) => start < Len(worker)

(* The dispatcher hands out no more items, and SHUTDOWN may be posted. *)
Stopping == quiesce \/ dpc \in {"term", "t_next", "t_shut", "ended"}

(* A worker that waits has nothing, and what it is posted before the       *)
(* shutdown it is posted together with the state DISPATCH.                 *)
WorkerInv ==
    \A w \in Workers :
        /\ w \notin alloc => wstate[w] = "INIT" /\ wwait[w] = Unposted /\ wqueue[w] = NoItem
        /\ wstate[w] \in {"WAITING", "DISPATCH"} => wpc[w] \in {"post", "wait", "woken"}
        /\ wstate[w] = "WAITING" => wqueue[w] = NoItem
        /\ ~ Stopping /\ ~ Ended(w) /\ wwait[w] # Unposted =>
              wstate[w] = "DISPATCH" /\ wpc[w] \in {"post", "wait"}
        /\ ~ Stopping /\ wpc[w] = "woken" => wstate[w] = "DISPATCH"

(* An accepted item has one place: the queue, or one worker. *)
ItemInv ==
    /\ Distinct(queue)
    /\ \A i \in Items : Has(queue, i) => fate[i] = "queued"
    /\ \A w \in Workers : wqueue[w] # NoItem =>
          fate[wqueue[w]] \in {"queued", "given"} /\ ~ Has(queue, wqueue[w])
    /\ \A w, v \in Workers : wqueue[w] = wqueue[v] /\ wqueue[w] # NoItem => w = v
    /\ \A i \in Items : fate[i] \in {"queued", "given"} =>
          Has(queue, i) \/ \E w \in Workers : wqueue[w] = i
    /\ \A i \in Items : fate[i] # "twice"

(* A worker that holds an item has been told, or has taken it. *)
HeldInv ==
    \A w \in Workers : wqueue[w] # NoItem =>
        \/ fate[wqueue[w]] = "queued" /\ wpc[w] \in {"post", "wait"}
           /\ wwait[w] = "REQUEST"
        \/ fate[wqueue[w]] = "queued" /\ wpc[w] = "woken" /\ wrc[w] = "REQUEST"
        \/ fate[wqueue[w]] = "given" /\ wpc[w] \in {"func", "qdel", "ended"}

NoneLost == \A i \in Items : fate[i] # "lost"

IndInv ==
    /\ TypeInv /\ LifeInv /\ PoolInv /\ UnlistedInv /\ IndexInv /\ WorkerInv
    /\ ItemInv /\ HeldInv

----------------------------------------------------------------------------
(* The two functions that change mgr->worker. *)

(* w is a new worker, in the array if there was storage for it. *)
Joins(w) ==
    /\ w \in Workers \ alloc
    /\ worker' \in Seq(Workers) /\ Distinct(worker')
    /\ Len(worker') \in {Len(worker), Len(worker) + 1}
    /\ \A v \in Workers : Has(worker, v) => Has(worker', v)
    /\ \A v \in Workers : Has(worker', v) => Has(worker, v) \/ v = w
    /\ Has(worker', w) \/ MemFails
    /\ alloc' = alloc \cup {w} /\ wpc' = [wpc EXCEPT ![w] = "func"]

LEMMA AddFacts ==
    ASSUME IndInv, cthread_worker_add
    PROVE  /\ UNCHANGED <<wstate, wwait, wqueue, wopt, late, wrc>>
           /\ UNCHANGED <<worker, alloc, wpc>> \/ \E w \in Workers : Joins(w)
<1>1. CASE UNCHANGED <<worker, wvars>>
  BY <1>1 DEF wvars
<1>2. ASSUME NEW w \in Workers \ alloc, AddToArray(w),
             alloc' = alloc \cup {w}, wpc' = [wpc EXCEPT ![w] = "func"]
      PROVE  Joins(w)
  <2>1. worker \in Seq(Workers) /\ Distinct(worker) /\ ~ Has(worker, w)
    BY DEF IndInv, TypeInv, TypeOK, PoolInv
  <2>2. CASE worker' = Append(worker, w)
    BY <1>2, <2>1, <2>2, AddedFacts DEF Joins
  <2>3. CASE MemFails /\ UNCHANGED worker
    BY <1>2, <2>1, <2>3 DEF Joins
  <2>4. QED BY <1>2, <2>2, <2>3 DEF AddToArray
<1>3. QED BY <1>1, <1>2 DEF cthread_worker_add

(* w, and nothing else, goes out of the array. *)
Leaves(w) ==
    /\ worker' \in Seq(Workers) /\ Len(worker') = Len(worker) - 1 /\ Distinct(worker')
    /\ \A v \in Workers : Has(worker', v) <=> Has(worker, v) /\ v # w

LEMMA DelFacts ==
    ASSUME IndInv, NEW w \in Workers, Has(worker, w), cthread_worker_del(w)
    PROVE  Leaves(w)
<1> DEFINE k == CHOOSE k \in 1 .. Len(worker) : worker[k] = w
<1>1. k \in 1 .. Len(worker) /\ worker[k] = w
  BY DEF Has
<1>2. worker' = Removed(worker, k)
  BY DEF cthread_worker_del, arraydel, Removed
<1> HIDE DEF k
<1>3. worker \in Seq(Workers) /\ Distinct(worker)
  BY DEF IndInv, TypeInv, TypeOK, PoolInv
<1>4. QED BY <1>1, <1>2, <1>3, RemovedFacts DEF Leaves

(* The worker the dispatcher deletes, shuts down or hands an item to is    *)
(* one of the array.                                                       *)
LEMMA CheckFacts ==
    ASSUME IndInv, dispatch_thread_check
    PROVE  \/ UNCHANGED <<worker, alloc, wstate, wwait, wqueue, wopt, late, fate>>
           \/ \E w \in Workers : Has(worker, w) /\ Ended(w) /\ cthread_worker_del(w)
<1> DEFINE Dead == {k \in 1 .. Len(worker) : Ended(worker[k])}
           d    == CHOOSE k \in Dead : \A j \in Dead : k <= j
<1>1. CASE Dead = {}
  BY <1>1 DEF dispatch_thread_check
<1>2. CASE Dead # {}
  <2>1. Dead \subseteq Nat
    OBVIOUS
  <2>2. d \in Dead
    BY <1>2, <2>1, Least
  <2>3. cthread_worker_del(worker[d])
    BY <1>2 DEF dispatch_thread_check
  <2>4. d \in 1 .. Len(worker) /\ Ended(worker[d])
    BY <2>2
  <2> HIDE DEF d
  <2>5. worker[d] \in Workers /\ Has(worker, worker[d])
    BY <2>4 DEF Has, IndInv, TypeInv, TypeOK
  <2>6. QED BY <2>3, <2>4, <2>5
<1>3. QED BY <1>1, <1>2

LEMMA CurFacts ==
    ASSUME IndInv, dpc \in {"q_shut", "t_shut"}
    PROVE  Cur \in Workers /\ Has(worker, Cur)
  BY DEF Cur, Has, IndInv, TypeInv, TypeOK, IndexInv

LEMMA NextWorkerFacts ==
    ASSUME IndInv, dpc = "dispatch", n < Len(worker)
    PROVE  NextWorker \in Workers /\ Has(worker, NextWorker)
<1> DEFINE k == IF start + n < Len(worker) THEN start + n + 1
                                           ELSE start + n + 1 - Len(worker)
<1>1. worker \in Seq(Workers) /\ n \in Nat /\ start \in Nat /\ start < Len(worker)
  BY DEF IndInv, TypeInv, TypeOK, IndexInv
<1>2. Len(worker) \in Nat
  BY <1>1
<1>3. k \in 1 .. Len(worker)
  BY <1>1, <1>2
<1>4. NextWorker = worker[k]
  BY DEF NextWorker
<1>5. QED BY <1>1, <1>3, <1>4 DEF Has

(* The first item goes out of the queue. *)
LEMMA FirstGone ==
    ASSUME NEW S, NEW a \in Seq(S), a # <<>>, Distinct(a)
    PROVE  /\ Head(a) \in S /\ Distinct(Tail(a)) /\ Has(a, Head(a))
           /\ \A x : Has(Tail(a), x) <=> Has(a, x) /\ x # Head(a)
<1> DEFINE b == Tail(a)
           h == Head(a)
<1>1. Len(a) \in Nat /\ Len(a) > 0 /\ h = a[1] /\ h \in S
  OBVIOUS
<1>2. Len(b) = Len(a) - 1 /\ \A j \in 1 .. Len(b) : b[j] = a[j + 1]
  OBVIOUS
<1> HIDE DEF b, h
<1>3. Distinct(b) /\ Has(a, h)
  BY <1>1, <1>2 DEF Distinct, Has
<1>4. ASSUME NEW x, Has(b, x) PROVE Has(a, x) /\ x # h
  BY <1>1, <1>2, <1>4 DEF Distinct, Has
<1>5. ASSUME NEW x, Has(a, x), x # h PROVE Has(b, x)
  <2>1. PICK j \in 1 .. Len(a) : a[j] = x
    BY <1>5 DEF Has
  <2>2. j - 1 \in 1 .. Len(b) /\ b[j - 1] = x
    BY <1>1, <1>2, <1>5, <2>1
  <2>3. QED BY <2>2 DEF Has
<1>6. QED BY <1>1, <1>3, <1>4, <1>5 DEF b, h

(* What a worker holds goes with it, or is done. *)
GivesUp(w) ==
    /\ wqueue' = [wqueue EXCEPT ![w] = NoItem]
    /\ \A i \in Items : IF i = wqueue[w] THEN fate'[i] \in {"done", "dropped"}
                                         ELSE fate'[i] = fate[i]

LEMMA GiveUpFacts ==
    ASSUME IndInv, NEW w \in Workers, GivesUp(w), queue' = queue
    PROVE  ItemInv'
<1>1. \A v \in Workers : wqueue'[v] = IF v = w THEN NoItem ELSE wqueue[v]
  BY DEF GivesUp, IndInv, TypeInv, TypeOK
<1>2. \A v \in Workers : wqueue[v] # NoItem => wqueue[v] \in Items
  BY DEF IndInv, TypeInv, TypeOK
<1>3. Distinct(queue)'
  BY DEF IndInv, ItemInv
<1>4. \A i \in Items : Has(queue, i)' => fate'[i] = "queued"
  BY <1>2, ItemAssumption DEF GivesUp, IndInv, ItemInv
<1>5. \A v \in Workers : wqueue'[v] # NoItem =>
          fate'[wqueue'[v]] \in {"queued", "given"} /\ ~ Has(queue', wqueue'[v])
  BY <1>1, <1>2 DEF GivesUp, IndInv, ItemInv
<1>6. \A u, v \in Workers : wqueue'[u] = wqueue'[v] /\ wqueue'[u] # NoItem => u = v
  BY <1>1 DEF IndInv, ItemInv
<1>7. \A i \in Items : fate'[i] \in {"queued", "given"} =>
          Has(queue, i)' \/ \E v \in Workers : wqueue'[v] = i
  BY <1>1, <1>2, ItemAssumption DEF GivesUp, IndInv, ItemInv
<1>8. \A i \in Items : fate'[i] # "twice"
  BY DEF GivesUp, IndInv, ItemInv
<1>9. QED BY <1>3, <1>4, <1>5, <1>6, <1>7, <1>8 DEF ItemInv

----------------------------------------------------------------------------
(* Every step preserves each part of the invariant. *)
(* The life of the manager. *)
LEMMA LifeNext ==
    ASSUME IndInv, [Next]_vars
    PROVE  LifeInv'
<1>1. ASSUME NEW count \in Counts, cthread_manager_init(count) PROVE LifeInv'
  BY <1>1 DEF cthread_manager_init, Goto, mvars, wvars, dvars, tvars, IndInv, LifeInv,
     TypeInv, TypeOK, AfterWait, TriesLeft
<1>2. ASSUME NEW i \in Items, cthread_queue_add(i) PROVE LifeInv'
  BY <1>2 DEF cthread_queue_add, Goto, mvars, wvars, dvars, tvars, IndInv, LifeInv,
     TypeInv, TypeOK, AfterWait, TriesLeft
<1>3. ASSUME NEW w \in Workers, CallWait(w) PROVE LifeInv'
  BY <1>3 DEF CallWait, Goto, mvars, wvars, dvars, tvars, IndInv, LifeInv, TypeInv,
     TypeOK, AfterWait, TriesLeft
<1>4. ASSUME NEW w \in Workers, cthread_queue_del(w) PROVE LifeInv'
  BY <1>4 DEF cthread_queue_del, Goto, mvars, wvars, dvars, tvars, IndInv, LifeInv,
     TypeInv, TypeOK, AfterWait, TriesLeft
<1>5. ASSUME NEW w \in Workers, MarkWaiting(w) PROVE LifeInv'
  BY <1>5 DEF MarkWaiting, Goto, mvars, wvars, dvars, tvars, IndInv, LifeInv, TypeInv,
     TypeOK, AfterWait, TriesLeft
<1>6. ASSUME NEW w \in Workers, PostManager(w) PROVE LifeInv'
  BY <1>6 DEF PostManager, Goto, mvars, wvars, dvars, tvars, IndInv, LifeInv, TypeInv,
     TypeOK, AfterWait, TriesLeft
<1>7. ASSUME NEW w \in Workers, cthread_wait(w) PROVE LifeInv'
  BY <1>7 DEF cthread_wait, Goto, mvars, wvars, dvars, tvars, IndInv, LifeInv, TypeInv,
     TypeOK, AfterWait, TriesLeft
<1>8. ASSUME NEW w \in Workers, Receive(w) PROVE LifeInv'
  BY <1>8 DEF Receive, Goto, mvars, wvars, dvars, tvars, IndInv, LifeInv, TypeInv,
     TypeOK, AfterWait, TriesLeft
<1>9. ASSUME NEW w \in Workers, ThreadEnds(w) PROVE LifeInv'
  BY <1>9 DEF ThreadEnds, Goto, mvars, wvars, dvars, tvars, IndInv, LifeInv, TypeInv,
     TypeOK, AfterWait, TriesLeft
<1>10. ASSUME NEW w \in Workers, SecondPasses(w) PROVE LifeInv'
  BY <1>10 DEF SecondPasses, Goto, mvars, wvars, dvars, tvars, IndInv, LifeInv,
     TypeInv, TypeOK, AfterWait, TriesLeft
<1>11. CASE dispatch_thread_init
  BY <1>11 DEF dispatch_thread_init, Goto, mvars, wvars, dvars, tvars, IndInv, LifeInv,
     TypeInv, TypeOK, AfterWait, TriesLeft
<1>12. CASE InitAdd
  BY <1>12 DEF InitAdd, Goto, mvars, wvars, dvars, tvars, IndInv, LifeInv, TypeInv,
     TypeOK, AfterWait, TriesLeft
<1>13. CASE dispatch_thread_timed_wait
  BY <1>13 DEF dispatch_thread_timed_wait, Goto, mvars, wvars, dvars, tvars, IndInv,
     LifeInv, TypeInv, TypeOK, AfterWait, TriesLeft
<1>14. CASE dispatch_thread_create
  BY <1>14 DEF dispatch_thread_create, Goto, mvars, wvars, dvars, tvars, IndInv,
     LifeInv, TypeInv, TypeOK, AfterWait, TriesLeft
<1>15. CASE Yield
  BY <1>15 DEF Yield, Goto, mvars, wvars, dvars, tvars, IndInv, LifeInv, TypeInv,
     TypeOK, AfterWait, TriesLeft
<1>16. CASE MarkManager
  BY <1>16 DEF MarkManager, Goto, mvars, wvars, dvars, tvars, IndInv, LifeInv, TypeInv,
     TypeOK, AfterWait, TriesLeft
<1>17. CASE TimeIsUp
  BY <1>17 DEF TimeIsUp, Goto, mvars, wvars, dvars, tvars, IndInv, LifeInv, TypeInv,
     TypeOK, AfterWait, TriesLeft
<1>18. CASE cthread_timed_wait
  BY <1>18 DEF cthread_timed_wait, Goto, mvars, wvars, dvars, tvars, IndInv, LifeInv,
     TypeInv, TypeOK, AfterWait, TriesLeft
<1>19. CASE ClearEcb
  BY <1>19 DEF ClearEcb, Goto, mvars, wvars, dvars, tvars, IndInv, LifeInv, TypeInv,
     TypeOK, AfterWait, TriesLeft
<1>20. CASE dispatch_thread
  BY <1>20 DEF dispatch_thread, Goto, mvars, wvars, dvars, tvars, IndInv, LifeInv,
     TypeInv, TypeOK, AfterWait, TriesLeft
<1>21. CASE dispatch_thread_check
  BY <1>21 DEF dispatch_thread_check, Goto, mvars, wvars, dvars, tvars, IndInv,
     LifeInv, TypeInv, TypeOK, AfterWait, TriesLeft
<1>22. CASE dispatch_thread_work
  BY <1>22 DEF dispatch_thread_work, Goto, mvars, wvars, dvars, tvars, IndInv, LifeInv,
     TypeInv, TypeOK, AfterWait, TriesLeft
<1>23. CASE DispatchNext
  BY <1>23 DEF DispatchNext, Goto, mvars, wvars, dvars, tvars, IndInv, LifeInv,
     TypeInv, TypeOK, AfterWait, TriesLeft
<1>24. CASE Dispatched
  BY <1>24 DEF Dispatched, Goto, mvars, wvars, dvars, tvars, IndInv, LifeInv, TypeInv,
     TypeOK, AfterWait, TriesLeft
<1>25. CASE dispatch_thread_quiesce
  BY <1>25 DEF dispatch_thread_quiesce, Goto, mvars, wvars, dvars, tvars, IndInv,
     LifeInv, TypeInv, TypeOK, AfterWait, TriesLeft
<1>26. CASE QuiesceNext
  BY <1>26 DEF QuiesceNext, Goto, mvars, wvars, dvars, tvars, IndInv, LifeInv, TypeInv,
     TypeOK, AfterWait, TriesLeft
<1>27. CASE ShutPost
  BY <1>27 DEF ShutPost, Goto, mvars, wvars, dvars, tvars, IndInv, LifeInv, TypeInv,
     TypeOK, AfterWait, TriesLeft
<1>28. CASE ShutGiveUp
  BY <1>28 DEF ShutGiveUp, Goto, mvars, wvars, dvars, tvars, IndInv, LifeInv, TypeInv,
     TypeOK, AfterWait, TriesLeft
<1>29. CASE ShutDone
  BY <1>29 DEF ShutDone, Goto, mvars, wvars, dvars, tvars, IndInv, LifeInv, TypeInv,
     TypeOK, AfterWait, TriesLeft
<1>30. CASE dispatch_thread_term
  BY <1>30 DEF dispatch_thread_term, Goto, mvars, wvars, dvars, tvars, IndInv, LifeInv,
     TypeInv, TypeOK, AfterWait, TriesLeft
<1>31. CASE TermNext
  BY <1>31 DEF TermNext, Goto, mvars, wvars, dvars, tvars, IndInv, LifeInv, TypeInv,
     TypeOK, AfterWait, TriesLeft
<1>32. CASE cthread_manager_term
  BY <1>32 DEF cthread_manager_term, Goto, mvars, wvars, dvars, tvars, IndInv, LifeInv,
     TypeInv, TypeOK, AfterWait, TriesLeft
<1>33. CASE Join
  BY <1>33 DEF Join, Goto, mvars, wvars, dvars, tvars, IndInv, LifeInv, TypeInv,
     TypeOK, AfterWait, TriesLeft
<1>34. CASE JoinStore
  BY <1>34 DEF JoinStore, Goto, mvars, wvars, dvars, tvars, IndInv, LifeInv, TypeInv,
     TypeOK, AfterWait, TriesLeft
<1>35. CASE JoinPost
  BY <1>35 DEF JoinPost, Goto, mvars, wvars, dvars, tvars, IndInv, LifeInv, TypeInv,
     TypeOK, AfterWait, TriesLeft
<1>36. CASE Join2Post
  BY <1>36 DEF Join2Post, Goto, mvars, wvars, dvars, tvars, IndInv, LifeInv, TypeInv,
     TypeOK, AfterWait, TriesLeft
<1>37. CASE Join2End
  BY <1>37 DEF Join2End, Goto, mvars, wvars, dvars, tvars, IndInv, LifeInv, TypeInv,
     TypeOK, AfterWait, TriesLeft
<1>38. CASE Cleanup
  BY <1>38 DEF Cleanup, Goto, mvars, wvars, dvars, tvars, IndInv, LifeInv, TypeInv,
     TypeOK, AfterWait, TriesLeft
<1>39. CASE UNCHANGED vars
  BY <1>39 DEF vars, mvars, wvars, dvars, tvars, IndInv, LifeInv, TypeInv, TypeOK,
     AfterWait, TriesLeft
<1>40. QED
  BY <1>1, <1>2, <1>3, <1>4, <1>5, <1>6, <1>7, <1>8, <1>9, <1>10, <1>11, <1>12, <1>13,
     <1>14, <1>15, <1>16, <1>17, <1>18, <1>19, <1>20, <1>21, <1>22, <1>23, <1>24,
     <1>25, <1>26, <1>27, <1>28, <1>29, <1>30, <1>31, <1>32, <1>33, <1>34, <1>35,
     <1>36, <1>37, <1>38, <1>39 DEF Next, WorkerStep, Dispatcher, TermStep

(* The array of workers. *)
LEMMA PoolNext ==
    ASSUME IndInv, [Next]_vars
    PROVE  PoolInv'
<1>1. ASSUME NEW count \in Counts, cthread_manager_init(count) PROVE PoolInv'
  BY <1>1, CountsAssumption DEF cthread_manager_init, wvars, IndInv, PoolInv, LifeInv,
     Ended, TypeInv, TypeOK, Distinct, Has
<1>2. ASSUME NEW i \in Items, cthread_queue_add(i) PROVE PoolInv'
  BY <1>2 DEF cthread_queue_add, Goto, mvars, wvars, dvars, tvars, IndInv, PoolInv,
     Ended, TypeInv, TypeOK, mintask, BelowMax
<1>3. ASSUME NEW w \in Workers, CallWait(w) PROVE PoolInv'
  BY <1>3 DEF CallWait, Goto, mvars, wvars, dvars, tvars, IndInv, PoolInv, Ended,
     TypeInv, TypeOK, mintask, BelowMax
<1>4. ASSUME NEW w \in Workers, cthread_queue_del(w) PROVE PoolInv'
  BY <1>4 DEF cthread_queue_del, Goto, mvars, wvars, dvars, tvars, IndInv, PoolInv,
     Ended, TypeInv, TypeOK, mintask, BelowMax
<1>5. ASSUME NEW w \in Workers, MarkWaiting(w) PROVE PoolInv'
  BY <1>5 DEF MarkWaiting, Goto, mvars, wvars, dvars, tvars, IndInv, PoolInv, Ended,
     TypeInv, TypeOK, mintask, BelowMax
<1>6. ASSUME NEW w \in Workers, PostManager(w) PROVE PoolInv'
  BY <1>6 DEF PostManager, Goto, mvars, wvars, dvars, tvars, IndInv, PoolInv, Ended,
     TypeInv, TypeOK, mintask, BelowMax
<1>7. ASSUME NEW w \in Workers, cthread_wait(w) PROVE PoolInv'
  BY <1>7 DEF cthread_wait, Goto, mvars, wvars, dvars, tvars, IndInv, PoolInv, Ended,
     TypeInv, TypeOK, mintask, BelowMax
<1>8. ASSUME NEW w \in Workers, Receive(w) PROVE PoolInv'
  BY <1>8 DEF Receive, Goto, mvars, wvars, dvars, tvars, IndInv, PoolInv, Ended,
     TypeInv, TypeOK, mintask, BelowMax
<1>9. ASSUME NEW w \in Workers, ThreadEnds(w) PROVE PoolInv'
  BY <1>9 DEF ThreadEnds, Goto, mvars, wvars, dvars, tvars, IndInv, PoolInv, Ended,
     TypeInv, TypeOK, mintask, BelowMax
<1>10. ASSUME NEW w \in Workers, SecondPasses(w) PROVE PoolInv'
  BY <1>10 DEF SecondPasses, Goto, mvars, wvars, dvars, tvars, IndInv, PoolInv, Ended,
     TypeInv, TypeOK, mintask, BelowMax
<1>11. CASE dispatch_thread_init
  BY <1>11 DEF dispatch_thread_init, Goto, mvars, wvars, dvars, tvars, IndInv, PoolInv,
     Ended, TypeInv, TypeOK, mintask, BelowMax
<1>12. CASE InitAdd
  <2>1. UNCHANGED <<worker, alloc, wpc>> \/ \E w \in Workers : Joins(w)
    BY <1>12, AddFacts DEF InitAdd, wvars
  <2>2. CASE UNCHANGED <<worker, alloc, wpc>>
    BY <1>12, <2>2 DEF InitAdd, IndInv, PoolInv, Ended
  <2>3. ASSUME NEW w \in Workers, Joins(w) PROVE PoolInv'
    <3>1. Len(worker) < maxtask
      BY <1>12, <2>3, CountsAssumption DEF InitAdd, Joins, wvars, IndInv, TypeInv, TypeOK,
         mintask, IndexInv, BelowMax
    <3>2. maxtask' = maxtask
      BY <1>12 DEF InitAdd
    <3>3. QED BY <2>3, <3>1, <3>2 DEF Joins, IndInv, PoolInv, Ended, TypeInv, TypeOK
  <2>4. QED BY <2>1, <2>2, <2>3
<1>13. CASE dispatch_thread_timed_wait
  BY <1>13 DEF dispatch_thread_timed_wait, Goto, mvars, wvars, dvars, tvars, IndInv,
     PoolInv, Ended, TypeInv, TypeOK, mintask, BelowMax
<1>14. CASE dispatch_thread_create
  <2>1. UNCHANGED <<worker, alloc, wpc>> \/ \E w \in Workers : Joins(w)
    BY <1>14, AddFacts DEF dispatch_thread_create, wvars
  <2>2. CASE UNCHANGED <<worker, alloc, wpc>>
    BY <1>14, <2>2 DEF dispatch_thread_create, IndInv, PoolInv, Ended
  <2>3. ASSUME NEW w \in Workers, Joins(w) PROVE PoolInv'
    <3>1. Len(worker) < maxtask
      BY <1>14, <2>3, CountsAssumption DEF dispatch_thread_create, Joins, wvars, IndInv,
         TypeInv, TypeOK, mintask, IndexInv, BelowMax
    <3>2. maxtask' = maxtask
      BY <1>14 DEF dispatch_thread_create
    <3>3. QED BY <2>3, <3>1, <3>2 DEF Joins, IndInv, PoolInv, Ended, TypeInv, TypeOK
  <2>4. QED BY <2>1, <2>2, <2>3
<1>15. CASE Yield
  BY <1>15 DEF Yield, Goto, mvars, wvars, dvars, tvars, IndInv, PoolInv, Ended,
     TypeInv, TypeOK, mintask, BelowMax
<1>16. CASE MarkManager
  BY <1>16 DEF MarkManager, Goto, mvars, wvars, dvars, tvars, IndInv, PoolInv, Ended,
     TypeInv, TypeOK, mintask, BelowMax
<1>17. CASE TimeIsUp
  BY <1>17 DEF TimeIsUp, Goto, mvars, wvars, dvars, tvars, IndInv, PoolInv, Ended,
     TypeInv, TypeOK, mintask, BelowMax
<1>18. CASE cthread_timed_wait
  BY <1>18 DEF cthread_timed_wait, Goto, mvars, wvars, dvars, tvars, IndInv, PoolInv,
     Ended, TypeInv, TypeOK, mintask, BelowMax
<1>19. CASE ClearEcb
  BY <1>19 DEF ClearEcb, Goto, mvars, wvars, dvars, tvars, IndInv, PoolInv, Ended,
     TypeInv, TypeOK, mintask, BelowMax
<1>20. CASE dispatch_thread
  BY <1>20 DEF dispatch_thread, Goto, mvars, wvars, dvars, tvars, IndInv, PoolInv,
     Ended, TypeInv, TypeOK, mintask, BelowMax
<1>21. CASE dispatch_thread_check
  <2>1. \/ UNCHANGED <<worker, alloc>>
        \/ \E w \in Workers : Has(worker, w) /\ Ended(w) /\ cthread_worker_del(w)
    BY <1>21, CheckFacts DEF dispatch_thread_check
  <2>2. UNCHANGED <<maxtask, wpc>>
    BY <1>21 DEF dispatch_thread_check
  <2>3. CASE UNCHANGED <<worker, alloc>>
    BY <2>2, <2>3 DEF IndInv, PoolInv, Ended
  <2>4. ASSUME NEW w \in Workers, Has(worker, w), Ended(w), cthread_worker_del(w)
        PROVE  PoolInv'
    <3>1. Leaves(w) /\ alloc' = alloc \ {w}
      BY <2>4, DelFacts DEF cthread_worker_del
    <3>2. QED BY <2>2, <2>4, <3>1 DEF Leaves, IndInv, PoolInv, Ended, TypeInv, TypeOK
  <2>5. QED BY <2>1, <2>3, <2>4
<1>22. CASE dispatch_thread_work
  <2>1. UNCHANGED <<worker, alloc, wpc>> \/ \E w \in Workers : Joins(w)
    BY <1>22, AddFacts DEF dispatch_thread_work, wvars
  <2>2. CASE UNCHANGED <<worker, alloc, wpc>>
    BY <1>22, <2>2 DEF dispatch_thread_work, IndInv, PoolInv, Ended
  <2>3. ASSUME NEW w \in Workers, Joins(w) PROVE PoolInv'
    <3>1. Len(worker) < maxtask
      BY <1>22, <2>3, CountsAssumption DEF dispatch_thread_work, Joins, wvars, IndInv,
         TypeInv, TypeOK, mintask, IndexInv, BelowMax
    <3>2. maxtask' = maxtask
      BY <1>22 DEF dispatch_thread_work
    <3>3. QED BY <2>3, <3>1, <3>2 DEF Joins, IndInv, PoolInv, Ended, TypeInv, TypeOK
  <2>4. QED BY <2>1, <2>2, <2>3
<1>23. CASE DispatchNext
  BY <1>23 DEF DispatchNext, Goto, mvars, wvars, dvars, tvars, IndInv, PoolInv, Ended,
     TypeInv, TypeOK, mintask, BelowMax
<1>24. CASE Dispatched
  BY <1>24 DEF Dispatched, Goto, mvars, wvars, dvars, tvars, IndInv, PoolInv, Ended,
     TypeInv, TypeOK, mintask, BelowMax
<1>25. CASE dispatch_thread_quiesce
  BY <1>25 DEF dispatch_thread_quiesce, Goto, mvars, wvars, dvars, tvars, IndInv,
     PoolInv, Ended, TypeInv, TypeOK, mintask, BelowMax
<1>26. CASE QuiesceNext
  BY <1>26 DEF QuiesceNext, Goto, mvars, wvars, dvars, tvars, IndInv, PoolInv, Ended,
     TypeInv, TypeOK, mintask, BelowMax
<1>27. CASE ShutPost
  BY <1>27 DEF ShutPost, Goto, mvars, wvars, dvars, tvars, IndInv, PoolInv, Ended,
     TypeInv, TypeOK, mintask, BelowMax
<1>28. CASE ShutGiveUp
  BY <1>28 DEF ShutGiveUp, Goto, mvars, wvars, dvars, tvars, IndInv, PoolInv, Ended,
     TypeInv, TypeOK, mintask, BelowMax
<1>29. CASE ShutDone
  <2>1. \/ UNCHANGED <<worker, alloc>>
        \/ \E w \in Workers : Has(worker, w) /\ Ended(w) /\ cthread_worker_del(w)
    BY <1>29, CurFacts DEF ShutDone
  <2>2. UNCHANGED <<maxtask, wpc>>
    BY <1>29 DEF ShutDone
  <2>3. CASE UNCHANGED <<worker, alloc>>
    BY <2>2, <2>3 DEF IndInv, PoolInv, Ended
  <2>4. ASSUME NEW w \in Workers, Has(worker, w), Ended(w), cthread_worker_del(w)
        PROVE  PoolInv'
    <3>1. Leaves(w) /\ alloc' = alloc \ {w}
      BY <2>4, DelFacts DEF cthread_worker_del
    <3>2. QED BY <2>2, <2>4, <3>1 DEF Leaves, IndInv, PoolInv, Ended, TypeInv, TypeOK
  <2>5. QED BY <2>1, <2>3, <2>4
<1>30. CASE dispatch_thread_term
  BY <1>30 DEF dispatch_thread_term, Goto, mvars, wvars, dvars, tvars, IndInv, PoolInv,
     Ended, TypeInv, TypeOK, mintask, BelowMax
<1>31. CASE TermNext
  BY <1>31 DEF TermNext, Goto, mvars, wvars, dvars, tvars, IndInv, PoolInv, Ended,
     TypeInv, TypeOK, mintask, BelowMax
<1>32. CASE cthread_manager_term
  BY <1>32 DEF cthread_manager_term, Goto, mvars, wvars, dvars, tvars, IndInv, PoolInv,
     Ended, TypeInv, TypeOK, mintask, BelowMax
<1>33. CASE Join
  BY <1>33 DEF Join, Goto, mvars, wvars, dvars, tvars, IndInv, PoolInv, Ended, TypeInv,
     TypeOK, mintask, BelowMax
<1>34. CASE JoinStore
  BY <1>34 DEF JoinStore, Goto, mvars, wvars, dvars, tvars, IndInv, PoolInv, Ended,
     TypeInv, TypeOK, mintask, BelowMax
<1>35. CASE JoinPost
  BY <1>35 DEF JoinPost, Goto, mvars, wvars, dvars, tvars, IndInv, PoolInv, Ended,
     TypeInv, TypeOK, mintask, BelowMax
<1>36. CASE Join2Post
  BY <1>36 DEF Join2Post, Goto, mvars, wvars, dvars, tvars, IndInv, PoolInv, Ended,
     TypeInv, TypeOK, mintask, BelowMax
<1>37. CASE Join2End
  BY <1>37 DEF Join2End, Goto, mvars, wvars, dvars, tvars, IndInv, PoolInv, Ended,
     TypeInv, TypeOK, mintask, BelowMax
<1>38. CASE Cleanup
  <2>1. CASE StillRunning
    BY <1>38, <2>1 DEF Cleanup, wvars, IndInv, PoolInv, Ended
  <2>2. CASE ~ StillRunning
    <3>1. \A w \in Workers : ~ Ended(w) => w \in alloc /\ MemFails
      BY <2>2 DEF StillRunning, IndInv, PoolInv, Has
    <3>2. worker' = <<>> /\ maxtask' = 0 /\ UNCHANGED <<alloc, wpc>>
      BY <1>38, <2>2 DEF Cleanup, wvars
    <3>3. QED BY <3>1, <3>2 DEF PoolInv, Ended, Distinct, Has
  <2>3. QED BY <2>1, <2>2
<1>39. CASE UNCHANGED vars
  BY <1>39 DEF vars, mvars, wvars, dvars, tvars, IndInv, PoolInv, Ended, TypeInv,
     TypeOK, mintask, BelowMax
<1>40. QED
  BY <1>1, <1>2, <1>3, <1>4, <1>5, <1>6, <1>7, <1>8, <1>9, <1>10, <1>11, <1>12, <1>13,
     <1>14, <1>15, <1>16, <1>17, <1>18, <1>19, <1>20, <1>21, <1>22, <1>23, <1>24,
     <1>25, <1>26, <1>27, <1>28, <1>29, <1>30, <1>31, <1>32, <1>33, <1>34, <1>35,
     <1>36, <1>37, <1>38, <1>39 DEF Next, WorkerStep, Dispatcher, TermStep

(* The workers nobody posts. *)
LEMMA UnlistedNext ==
    ASSUME IndInv, [Next]_vars
    PROVE  UnlistedInv'
<1> USE DEF Ended
<1>1. CASE UNCHANGED <<worker, wwait, wpc>>
  BY <1>1 DEF IndInv, UnlistedInv
<1>2. ASSUME NEW w \in Workers,
             CallWait(w) \/ cthread_queue_del(w) \/ MarkWaiting(w) \/ PostManager(w)
             \/ ThreadEnds(w)
      PROVE  UnlistedInv'
  BY <1>2 DEF CallWait, cthread_queue_del, MarkWaiting, PostManager, ThreadEnds, mvars,
     IndInv, UnlistedInv, TypeInv
<1>3. ASSUME NEW w \in Workers, cthread_wait(w) \/ Receive(w) PROVE UnlistedInv'
  BY <1>3 DEF cthread_wait, Receive, mvars, IndInv, UnlistedInv, TypeInv
<1>4. ASSUME NEW w \in Workers, Joins(w), wwait' = wwait PROVE UnlistedInv'
  BY <1>4 DEF Joins, IndInv, UnlistedInv, WorkerInv, TypeInv
<1>5. CASE InitAdd \/ dispatch_thread_create \/ dispatch_thread_work
  <2>1. wwait' = wwait /\ (UNCHANGED <<worker, wpc>> \/ \E w \in Workers : Joins(w))
    BY <1>5, AddFacts DEF InitAdd, dispatch_thread_create, dispatch_thread_work, wvars
  <2>2. QED BY <1>1, <1>4, <2>1
<1>6. ASSUME NEW w \in Workers, Has(worker, w), Ended(w), cthread_worker_del(w),
             wpc' = wpc
      PROVE  UnlistedInv'
  <2>1. Leaves(w)
    BY <1>6, DelFacts
  <2>2. QED BY <1>6, <2>1 DEF Leaves, cthread_worker_del, IndInv, UnlistedInv, TypeInv
<1>7. CASE dispatch_thread_check
  BY <1>1, <1>6, <1>7, CheckFacts DEF dispatch_thread_check
<1>8. CASE ShutDone
  BY <1>1, <1>6, <1>8, CurFacts DEF ShutDone
<1>9. CASE ShutPost
  BY <1>9, CurFacts DEF ShutPost, mvars, IndInv, UnlistedInv, TypeInv
<1>10. CASE DispatchNext
  <2>1. NextWorker \in Workers /\ Has(worker, NextWorker) /\ dispatch_work(NextWorker)
    BY <1>10, NextWorkerFacts DEF DispatchNext
  <2>2. \A v \in Workers : v # NextWorker => wwait'[v] = wwait[v]
    BY <2>1 DEF dispatch_work, IndInv, TypeInv
  <2>3. UNCHANGED <<worker, wpc>>
    BY <1>10 DEF DispatchNext
  <2>4. QED BY <2>1, <2>2, <2>3 DEF IndInv, UnlistedInv
<1>11. CASE Cleanup
  <2>1. CASE StillRunning
    BY <1>1, <1>11, <2>1 DEF Cleanup, wvars
  <2>2. CASE ~ StillRunning
    <3>1. \A w \in Workers : ~ Ended(w) => ~ Has(worker, w)
      BY <2>2 DEF StillRunning, Has
    <3>2. UNCHANGED <<wwait, wpc>>
      BY <1>11 DEF Cleanup, wvars
    <3>3. QED BY <3>1, <3>2 DEF IndInv, UnlistedInv
  <2>3. QED BY <2>1, <2>2
<1>12. ASSUME NEW count \in Counts, cthread_manager_init(count)
       PROVE  UNCHANGED <<worker, wwait, wpc>>
  BY <1>12 DEF cthread_manager_init, wvars
<1>13. ASSUME NEW i \in Items, cthread_queue_add(i)
       PROVE  UNCHANGED <<worker, wwait, wpc>>
  BY <1>13 DEF cthread_queue_add, wvars
<1>14. ASSUME NEW w \in Workers, SecondPasses(w) PROVE UNCHANGED <<worker, wwait, wpc>>
  BY <1>14 DEF SecondPasses, mvars
<1>15. ASSUME dispatch_thread_init \/ dispatch_thread_timed_wait \/ Yield \/ MarkManager
              \/ TimeIsUp \/ cthread_timed_wait \/ ClearEcb \/ dispatch_thread
              \/ Dispatched \/ dispatch_thread_quiesce \/ QuiesceNext \/ ShutGiveUp
              \/ dispatch_thread_term \/ TermNext \/ cthread_manager_term \/ Join
              \/ JoinStore \/ JoinPost \/ Join2Post \/ Join2End
       PROVE  UNCHANGED <<worker, wwait, wpc>>
  BY <1>15 DEF dispatch_thread_init, dispatch_thread_timed_wait, Yield, MarkManager,
     TimeIsUp, cthread_timed_wait, ClearEcb, dispatch_thread, Dispatched,
     dispatch_thread_quiesce, QuiesceNext, ShutGiveUp, dispatch_thread_term, TermNext,
     cthread_manager_term, Join, JoinStore, JoinPost, Join2Post, Join2End, mvars, wvars
<1>16. CASE UNCHANGED vars
  BY <1>1, <1>16 DEF vars, mvars, wvars
<1> HIDE DEF Ended
<1>17. QED
  BY <1>1, <1>2, <1>3, <1>5, <1>7, <1>8, <1>9, <1>10, <1>11, <1>12, <1>13, <1>14, <1>15,
     <1>16 DEF Next, WorkerStep, Dispatcher, TermStep

(* The dispatcher's way through the array. *)
LEMMA IndexNext ==
    ASSUME IndInv, [Next]_vars
    PROVE  IndexInv'
<1>1. ASSUME NEW count \in Counts, cthread_manager_init(count) PROVE IndexInv'
  BY <1>1 DEF cthread_manager_init, IndexInv
<1>2. ASSUME NEW i \in Items, cthread_queue_add(i) PROVE IndexInv'
  BY <1>2 DEF cthread_queue_add, Goto, mvars, wvars, dvars, tvars, IndInv, IndexInv,
     TypeInv, TypeOK, LifeInv, AfterWait
<1>3. ASSUME NEW w \in Workers, CallWait(w) PROVE IndexInv'
  BY <1>3 DEF CallWait, Goto, mvars, wvars, dvars, tvars, IndInv, IndexInv, TypeInv,
     TypeOK, LifeInv, AfterWait
<1>4. ASSUME NEW w \in Workers, cthread_queue_del(w) PROVE IndexInv'
  BY <1>4 DEF cthread_queue_del, Goto, mvars, wvars, dvars, tvars, IndInv, IndexInv,
     TypeInv, TypeOK, LifeInv, AfterWait
<1>5. ASSUME NEW w \in Workers, MarkWaiting(w) PROVE IndexInv'
  BY <1>5 DEF MarkWaiting, Goto, mvars, wvars, dvars, tvars, IndInv, IndexInv, TypeInv,
     TypeOK, LifeInv, AfterWait
<1>6. ASSUME NEW w \in Workers, PostManager(w) PROVE IndexInv'
  BY <1>6 DEF PostManager, Goto, mvars, wvars, dvars, tvars, IndInv, IndexInv, TypeInv,
     TypeOK, LifeInv, AfterWait
<1>7. ASSUME NEW w \in Workers, cthread_wait(w) PROVE IndexInv'
  BY <1>7 DEF cthread_wait, Goto, mvars, wvars, dvars, tvars, IndInv, IndexInv,
     TypeInv, TypeOK, LifeInv, AfterWait
<1>8. ASSUME NEW w \in Workers, Receive(w) PROVE IndexInv'
  BY <1>8 DEF Receive, Goto, mvars, wvars, dvars, tvars, IndInv, IndexInv, TypeInv,
     TypeOK, LifeInv, AfterWait
<1>9. ASSUME NEW w \in Workers, ThreadEnds(w) PROVE IndexInv'
  BY <1>9 DEF ThreadEnds, Goto, mvars, wvars, dvars, tvars, IndInv, IndexInv, TypeInv,
     TypeOK, LifeInv, AfterWait
<1>10. ASSUME NEW w \in Workers, SecondPasses(w) PROVE IndexInv'
  BY <1>10 DEF SecondPasses, Goto, mvars, wvars, dvars, tvars, IndInv, IndexInv,
     TypeInv, TypeOK, LifeInv, AfterWait
<1>11. CASE dispatch_thread_init
  BY <1>11 DEF dispatch_thread_init, Goto, mvars, wvars, dvars, tvars, IndInv,
     IndexInv, TypeInv, TypeOK, LifeInv, AfterWait
<1>12. CASE InitAdd
  <2>1. UNCHANGED <<worker, alloc, wpc>> \/ \E w \in Workers : Joins(w)
    BY <1>12, AddFacts DEF InitAdd, wvars
  <2>2. Len(worker) \in Nat /\ Len(worker') \in Len(worker) .. Len(worker) + 1
    BY <2>1 DEF Joins, IndInv, TypeInv, TypeOK
  <2>3. QED BY <1>12, <2>1, <2>2 DEF InitAdd, Goto, IndInv, IndexInv, TypeInv, TypeOK
<1>13. CASE dispatch_thread_timed_wait
  BY <1>13 DEF dispatch_thread_timed_wait, Goto, mvars, wvars, dvars, tvars, IndInv,
     IndexInv, TypeInv, TypeOK, LifeInv, AfterWait
<1>14. CASE dispatch_thread_create
  <2>1. UNCHANGED <<worker, alloc, wpc>> \/ \E w \in Workers : Joins(w)
    BY <1>14, AddFacts DEF dispatch_thread_create, wvars
  <2>2. Len(worker) \in Nat /\ Len(worker') \in Len(worker) .. Len(worker) + 1
    BY <2>1 DEF Joins, IndInv, TypeInv, TypeOK
  <2>3. QED BY <1>14, <2>1, <2>2 DEF dispatch_thread_create, Goto, IndInv, IndexInv,
               TypeInv, TypeOK
<1>15. CASE Yield
  BY <1>15 DEF Yield, Goto, mvars, wvars, dvars, tvars, IndInv, IndexInv, TypeInv,
     TypeOK, LifeInv, AfterWait
<1>16. CASE MarkManager
  BY <1>16 DEF MarkManager, Goto, mvars, wvars, dvars, tvars, IndInv, IndexInv,
     TypeInv, TypeOK, LifeInv, AfterWait
<1>17. CASE TimeIsUp
  BY <1>17 DEF TimeIsUp, Goto, mvars, wvars, dvars, tvars, IndInv, IndexInv, TypeInv,
     TypeOK, LifeInv, AfterWait
<1>18. CASE cthread_timed_wait
  BY <1>18 DEF cthread_timed_wait, Goto, mvars, wvars, dvars, tvars, IndInv, IndexInv,
     TypeInv, TypeOK, LifeInv, AfterWait
<1>19. CASE ClearEcb
  BY <1>19 DEF ClearEcb, Goto, mvars, wvars, dvars, tvars, IndInv, IndexInv, TypeInv,
     TypeOK, LifeInv, AfterWait
<1>20. CASE dispatch_thread
  BY <1>20 DEF dispatch_thread, Goto, mvars, wvars, dvars, tvars, IndInv, IndexInv,
     TypeInv, TypeOK, LifeInv, AfterWait
<1>21. CASE dispatch_thread_check
  BY <1>21 DEF dispatch_thread_check, Goto, IndexInv
<1>22. CASE dispatch_thread_work
  <2>1. UNCHANGED <<worker, alloc, wpc>> \/ \E w \in Workers : Joins(w)
    BY <1>22, AddFacts DEF dispatch_thread_work, wvars
  <2>2. worker' \in Seq(Workers)
    BY <2>1 DEF Joins, IndInv, TypeInv, TypeOK
  <2>3. Len(worker') \in Nat /\ (worker' # <<>> => Len(worker') > 0)
    BY <2>2
  <2>4. QED BY <1>22, <2>3 DEF dispatch_thread_work, Goto, IndInv, IndexInv, TypeInv,
               TypeOK
<1>23. CASE DispatchNext
  BY <1>23 DEF DispatchNext, Goto, mvars, wvars, dvars, tvars, IndInv, IndexInv,
     TypeInv, TypeOK, LifeInv, AfterWait
<1>24. CASE Dispatched
  BY <1>24 DEF Dispatched, Goto, mvars, wvars, dvars, tvars, IndInv, IndexInv, TypeInv,
     TypeOK, LifeInv, AfterWait
<1>25. CASE dispatch_thread_quiesce
  BY <1>25 DEF dispatch_thread_quiesce, Goto, mvars, wvars, dvars, tvars, IndInv,
     IndexInv, TypeInv, TypeOK, LifeInv, AfterWait
<1>26. CASE QuiesceNext
  BY <1>26 DEF QuiesceNext, Goto, mvars, wvars, dvars, tvars, IndInv, IndexInv,
     TypeInv, TypeOK, LifeInv, AfterWait
<1>27. CASE ShutPost
  BY <1>27 DEF ShutPost, Goto, mvars, wvars, dvars, tvars, IndInv, IndexInv, TypeInv,
     TypeOK, LifeInv, AfterWait
<1>28. CASE ShutGiveUp
  BY <1>28 DEF ShutGiveUp, Goto, mvars, wvars, dvars, tvars, IndInv, IndexInv, TypeInv,
     TypeOK, LifeInv, AfterWait
<1>29. CASE ShutDone
  <2>1. \/ worker' = worker
        \/ dpc = "t_shut" /\ Len(worker') = Len(worker) - 1
    BY <1>29, CurFacts, DelFacts DEF ShutDone, Leaves
  <2>2. Len(worker) \in Nat /\ n \in 1 .. Len(worker) /\ n' = n - 1 /\ dpc' \in {"q_next", "t_next"}
    BY <1>29 DEF ShutDone, Goto, IndInv, TypeInv, TypeOK, IndexInv
  <2>3. n' <= Len(worker')
    BY <2>1, <2>2
  <2>4. QED BY <2>2, <2>3 DEF IndexInv
<1>30. CASE dispatch_thread_term
  BY <1>30 DEF dispatch_thread_term, Goto, mvars, wvars, dvars, tvars, IndInv,
     IndexInv, TypeInv, TypeOK, LifeInv, AfterWait
<1>31. CASE TermNext
  BY <1>31 DEF TermNext, Goto, mvars, wvars, dvars, tvars, IndInv, IndexInv, TypeInv,
     TypeOK, LifeInv, AfterWait
<1>32. CASE cthread_manager_term
  BY <1>32 DEF cthread_manager_term, Goto, mvars, wvars, dvars, tvars, IndInv,
     IndexInv, TypeInv, TypeOK, LifeInv, AfterWait
<1>33. CASE Join
  BY <1>33 DEF Join, Goto, mvars, wvars, dvars, tvars, IndInv, IndexInv, TypeInv,
     TypeOK, LifeInv, AfterWait
<1>34. CASE JoinStore
  BY <1>34 DEF JoinStore, Goto, mvars, wvars, dvars, tvars, IndInv, IndexInv, TypeInv,
     TypeOK, LifeInv, AfterWait
<1>35. CASE JoinPost
  BY <1>35 DEF JoinPost, Goto, mvars, wvars, dvars, tvars, IndInv, IndexInv, TypeInv,
     TypeOK, LifeInv, AfterWait
<1>36. CASE Join2Post
  BY <1>36 DEF Join2Post, Goto, mvars, wvars, dvars, tvars, IndInv, IndexInv, TypeInv,
     TypeOK, LifeInv, AfterWait
<1>37. CASE Join2End
  BY <1>37 DEF Join2End, Goto, mvars, wvars, dvars, tvars, IndInv, IndexInv, TypeInv,
     TypeOK, LifeInv, AfterWait
<1>38. CASE Cleanup
  BY <1>38 DEF Cleanup, dvars, IndInv, LifeInv, IndexInv
<1>39. CASE UNCHANGED vars
  BY <1>39 DEF vars, mvars, wvars, dvars, tvars, IndInv, IndexInv, TypeInv, TypeOK,
     LifeInv, AfterWait
<1>40. QED
  BY <1>1, <1>2, <1>3, <1>4, <1>5, <1>6, <1>7, <1>8, <1>9, <1>10, <1>11, <1>12, <1>13,
     <1>14, <1>15, <1>16, <1>17, <1>18, <1>19, <1>20, <1>21, <1>22, <1>23, <1>24,
     <1>25, <1>26, <1>27, <1>28, <1>29, <1>30, <1>31, <1>32, <1>33, <1>34, <1>35,
     <1>36, <1>37, <1>38, <1>39 DEF Next, WorkerStep, Dispatcher, TermStep

(* The types. *)
LEMMA TypeNext ==
    ASSUME IndInv, [Next]_vars
    PROVE  TypeInv'
<1>1. IndexInv'
  BY IndexNext
<1>2. ASSUME NEW count \in Counts, cthread_manager_init(count) PROVE TypeInv'
  BY <1>2, <1>1, CountsAssumption DEF cthread_manager_init, tvars, wvars, Goto, IndInv,
     TypeInv, TypeOK, Labels, Ecbs, Post, Unposted
<1>3. ASSUME NEW i \in Items, cthread_queue_add(i) PROVE TypeInv'
  <2>1. queue' \in Seq(Items)
    <3>1. queue \in Seq(Items)
      BY DEF IndInv, TypeInv, TypeOK
    <3>2. queue' = queue \/ queue' = Append(queue, i)
      BY <1>3 DEF cthread_queue_add
    <3>3. QED BY <3>1, <3>2
  <2>2. fate' \in [Items -> {"new", "refused", "queued", "given", "done", "dropped",
                            "lost", "twice"}]
    BY <1>3 DEF cthread_queue_add, IndInv, TypeInv, TypeOK
  <2>3. mwait' \in {Unposted, "DATA", "WAIT", "QUIESCE", "SHUTDOWN", "TIMER"}
    BY <1>3 DEF cthread_queue_add, Post, Unposted, IndInv, TypeInv, TypeOK
  <2>4. QED BY <1>3, <2>1, <2>2, <2>3 DEF cthread_queue_add, wvars, dvars, tvars,
               IndInv, TypeInv, TypeOK
<1>4. ASSUME NEW w \in Workers, CallWait(w) PROVE TypeInv'
  BY <1>4, <1>1, ItemAssumption DEF CallWait, Goto, mvars, wvars, dvars, tvars, IndInv,
     TypeInv, TypeOK, Labels, Ecbs, Post, Unposted, IndexInv, Refuses, INIT, RUNNING,
     QUIESCE, STOPPED, WAITING, AfterWait
<1>5. ASSUME NEW w \in Workers, cthread_queue_del(w) PROVE TypeInv'
  <2>1. wqueue' \in [Workers -> Items \cup {NoItem}]
    BY <1>5 DEF cthread_queue_del, IndInv, TypeInv, TypeOK
  <2>2. fate' \in [Items -> {"new", "refused", "queued", "given", "done", "dropped",
                            "lost", "twice"}]
    BY <1>5 DEF cthread_queue_del, IndInv, TypeInv, TypeOK
  <2>3. wpc' \in [Workers -> {"func", "qdel", "mark", "post", "wait", "woken", "end",
                             "ended"}]
    BY <1>5 DEF cthread_queue_del, IndInv, TypeInv
  <2>4. QED BY <1>5, <2>1, <2>2, <2>3 DEF cthread_queue_del, mvars, dvars, tvars,
               IndInv, TypeInv, TypeOK
<1>6. ASSUME NEW w \in Workers, MarkWaiting(w) PROVE TypeInv'
  BY <1>6, <1>1, ItemAssumption DEF MarkWaiting, Goto, mvars, wvars, dvars, tvars,
     IndInv, TypeInv, TypeOK, Labels, Ecbs, Post, Unposted, IndexInv, Refuses, INIT,
     RUNNING, QUIESCE, STOPPED, WAITING, AfterWait
<1>7. ASSUME NEW w \in Workers, PostManager(w) PROVE TypeInv'
  BY <1>7, <1>1, ItemAssumption DEF PostManager, Goto, mvars, wvars, dvars, tvars,
     IndInv, TypeInv, TypeOK, Labels, Ecbs, Post, Unposted, IndexInv, Refuses, INIT,
     RUNNING, QUIESCE, STOPPED, WAITING, AfterWait
<1>8. ASSUME NEW w \in Workers, cthread_wait(w) PROVE TypeInv'
  BY <1>8, <1>1, ItemAssumption DEF cthread_wait, Goto, mvars, wvars, dvars, tvars,
     IndInv, TypeInv, TypeOK, Labels, Ecbs, Post, Unposted, IndexInv, Refuses, INIT,
     RUNNING, QUIESCE, STOPPED, WAITING, AfterWait
<1>9. ASSUME NEW w \in Workers, Receive(w) PROVE TypeInv'
  BY <1>9, <1>1, ItemAssumption DEF Receive, Goto, mvars, wvars, dvars, tvars, IndInv,
     TypeInv, TypeOK, Labels, Ecbs, Post, Unposted, IndexInv, Refuses, INIT, RUNNING,
     QUIESCE, STOPPED, WAITING, AfterWait
<1>10. ASSUME NEW w \in Workers, ThreadEnds(w) PROVE TypeInv'
  BY <1>10, <1>1, ItemAssumption DEF ThreadEnds, Goto, mvars, wvars, dvars, tvars,
     IndInv, TypeInv, TypeOK, Labels, Ecbs, Post, Unposted, IndexInv, Refuses, INIT,
     RUNNING, QUIESCE, STOPPED, WAITING, AfterWait
<1>11. ASSUME NEW w \in Workers, SecondPasses(w) PROVE TypeInv'
  BY <1>11, <1>1, ItemAssumption DEF SecondPasses, Goto, mvars, wvars, dvars, tvars,
     IndInv, TypeInv, TypeOK, Labels, Ecbs, Post, Unposted, IndexInv, Refuses, INIT,
     RUNNING, QUIESCE, STOPPED, WAITING, AfterWait
<1>12. CASE dispatch_thread_init
  BY <1>12, <1>1, ItemAssumption DEF dispatch_thread_init, Goto, mvars, wvars, dvars,
     tvars, IndInv, TypeInv, TypeOK, Labels, Ecbs, Post, Unposted, IndexInv, Refuses,
     INIT, RUNNING, QUIESCE, STOPPED, WAITING, AfterWait
<1>13. CASE InitAdd
  <2>1. UNCHANGED <<worker, alloc, wpc>> \/ \E w \in Workers : Joins(w)
    BY <1>13, AddFacts DEF InitAdd, wvars
  <2>2. UNCHANGED <<wstate, wwait, wqueue, wrc>>
    BY <1>13, AddFacts DEF InitAdd, wvars
  <2>3. worker' \in Seq(Workers) /\ alloc' \subseteq Workers
    BY <2>1 DEF Joins, IndInv, TypeInv, TypeOK
  <2>4. wpc' \in [Workers -> {"func", "qdel", "mark", "post", "wait", "woken", "end",
                              "ended"}]
    BY <2>1 DEF Joins, IndInv, TypeInv
  <2>5. Len(worker') \in Nat
    BY <2>3
  <2>6. QED BY <1>13, <2>2, <2>3, <2>4, <2>5
               DEF InitAdd, Goto, tvars, IndInv, TypeInv, TypeOK, Labels
<1>14. CASE dispatch_thread_timed_wait
  BY <1>14, <1>1, ItemAssumption DEF dispatch_thread_timed_wait, Goto, mvars, wvars,
     dvars, tvars, IndInv, TypeInv, TypeOK, Labels, Ecbs, Post, Unposted, IndexInv,
     Refuses, INIT, RUNNING, QUIESCE, STOPPED, WAITING, AfterWait
<1>15. CASE dispatch_thread_create
  <2>1. UNCHANGED <<worker, alloc, wpc>> \/ \E w \in Workers : Joins(w)
    BY <1>15, AddFacts DEF dispatch_thread_create, wvars
  <2>2. UNCHANGED <<wstate, wwait, wqueue, wrc>>
    BY <1>15, AddFacts DEF dispatch_thread_create, wvars
  <2>3. worker' \in Seq(Workers) /\ alloc' \subseteq Workers
    BY <2>1 DEF Joins, IndInv, TypeInv, TypeOK
  <2>4. wpc' \in [Workers -> {"func", "qdel", "mark", "post", "wait", "woken", "end",
                              "ended"}]
    BY <2>1 DEF Joins, IndInv, TypeInv
  <2>5. Len(worker') \in Nat
    BY <2>3
  <2>6. QED BY <1>15, <2>2, <2>3, <2>4, <2>5
               DEF dispatch_thread_create, Goto, tvars, IndInv, TypeInv, TypeOK, Labels
<1>16. CASE Yield
  BY <1>16, <1>1, ItemAssumption DEF Yield, Goto, mvars, wvars, dvars, tvars, IndInv,
     TypeInv, TypeOK, Labels, Ecbs, Post, Unposted, IndexInv, Refuses, INIT, RUNNING,
     QUIESCE, STOPPED, WAITING, AfterWait
<1>17. CASE MarkManager
  BY <1>17, <1>1, ItemAssumption DEF MarkManager, Goto, mvars, wvars, dvars, tvars,
     IndInv, TypeInv, TypeOK, Labels, Ecbs, Post, Unposted, IndexInv, Refuses, INIT,
     RUNNING, QUIESCE, STOPPED, WAITING, AfterWait
<1>18. CASE TimeIsUp
  BY <1>18, <1>1, ItemAssumption DEF TimeIsUp, Goto, mvars, wvars, dvars, tvars,
     IndInv, TypeInv, TypeOK, Labels, Ecbs, Post, Unposted, IndexInv, Refuses, INIT,
     RUNNING, QUIESCE, STOPPED, WAITING, AfterWait
<1>19. CASE cthread_timed_wait
  BY <1>19, <1>1, ItemAssumption DEF cthread_timed_wait, Goto, mvars, wvars, dvars,
     tvars, IndInv, TypeInv, TypeOK, Labels, Ecbs, Post, Unposted, IndexInv, Refuses,
     INIT, RUNNING, QUIESCE, STOPPED, WAITING, AfterWait
<1>20. CASE ClearEcb
  BY <1>20, <1>1, ItemAssumption DEF ClearEcb, Goto, mvars, wvars, dvars, tvars,
     IndInv, TypeInv, TypeOK, Labels, Ecbs, Post, Unposted, IndexInv, Refuses, INIT,
     RUNNING, QUIESCE, STOPPED, WAITING, AfterWait
<1>21. CASE dispatch_thread
  BY <1>21, <1>1, ItemAssumption DEF dispatch_thread, Goto, mvars, wvars, dvars, tvars,
     IndInv, TypeInv, TypeOK, Labels, Ecbs, Post, Unposted, IndexInv, Refuses, INIT,
     RUNNING, QUIESCE, STOPPED, WAITING, AfterWait
<1>22. CASE dispatch_thread_check
  <2>1. \/ UNCHANGED <<worker, alloc, wstate, wwait, wqueue, wopt, late, fate>>
        \/ \E w \in Workers : Has(worker, w) /\ Ended(w) /\ cthread_worker_del(w)
    BY <1>22, CheckFacts DEF dispatch_thread_check
  <2>2. CASE UNCHANGED <<worker, alloc, wstate, wwait, wqueue, wopt, late, fate>>
    BY <1>22, <2>2 DEF dispatch_thread_check, Goto, tvars, IndInv, TypeInv, TypeOK,
       Labels, Ecbs, Post, Unposted, IndexInv
  <2>3. ASSUME NEW w \in Workers, Has(worker, w), cthread_worker_del(w)
        PROVE  TypeInv'
    <3>1. worker' \in Seq(Workers) /\ alloc' \subseteq Workers
      BY <2>3, DelFacts DEF Leaves, cthread_worker_del, IndInv, TypeInv, TypeOK
    <3>2. fate' \in [Items -> {"new", "refused", "queued", "given", "done", "dropped",
                              "lost", "twice"}]
      BY <2>3 DEF cthread_worker_del, IndInv, TypeInv, TypeOK
    <3>3. QED BY <1>22, <2>3, <3>1, <3>2 DEF dispatch_thread_check, cthread_worker_del,
                 Goto, tvars, IndInv, TypeInv, TypeOK, Labels, Ecbs, Post, Unposted,
                 IndexInv
  <2>4. QED BY <2>1, <2>2, <2>3
<1>23. CASE dispatch_thread_work
  <2>1. UNCHANGED <<worker, alloc, wpc>> \/ \E w \in Workers : Joins(w)
    BY <1>23, AddFacts DEF dispatch_thread_work, wvars
  <2>2. UNCHANGED <<wstate, wwait, wqueue, wrc>>
    BY <1>23, AddFacts DEF dispatch_thread_work, wvars
  <2>3. worker' \in Seq(Workers) /\ alloc' \subseteq Workers
    BY <2>1 DEF Joins, IndInv, TypeInv, TypeOK
  <2>4. wpc' \in [Workers -> {"func", "qdel", "mark", "post", "wait", "woken", "end",
                              "ended"}]
    BY <2>1 DEF Joins, IndInv, TypeInv
  <2>5. Len(worker') \in Nat
    BY <2>3
  <2>6. QED BY <1>23, <2>2, <2>3, <2>4, <2>5
               DEF dispatch_thread_work, Goto, tvars, IndInv, TypeInv, TypeOK, Labels
<1>24. CASE DispatchNext
  <2> DEFINE w == NextWorker
  <2>1. w \in Workers
    BY <1>24, NextWorkerFacts DEF DispatchNext
  <2>2. dispatch_work(w)
    BY <1>24 DEF DispatchNext
  <2> HIDE DEF w
  <2>3. /\ queue' \in Seq(Items) /\ wqueue' \in [Workers -> Items \cup {NoItem}]
        /\ wwait' \in [Workers -> Ecbs]
        /\ wstate' \in [Workers -> {"INIT", "WAITING", "RUNNING", "SHUTDOWN", "DISPATCH",
                                    "STUCK"}]
    <3>1. queue \in Seq(Items) /\ wqueue \in [Workers -> Items \cup {NoItem}]
      BY DEF IndInv, TypeInv, TypeOK
    <3>2. queue # <<>> => Head(queue) \in Items /\ Tail(queue) \in Seq(Items)
      BY <3>1
    <3>3. queue' \in Seq(Items)
      BY <2>2, <3>1, <3>2 DEF dispatch_work
    <3>4. wqueue' \in [Workers -> Items \cup {NoItem}]
      BY <2>2, <3>1, <3>2 DEF dispatch_work
    <3>5. wwait' \in [Workers -> Ecbs]
      BY <2>2 DEF dispatch_work, Ecbs, Post, IndInv, TypeInv
    <3>6. QED BY <2>2, <3>3, <3>4, <3>5 DEF dispatch_work, IndInv, TypeInv
  <2>4. n \in Nat /\ n + 1 \in 0 .. Len(worker)
    BY <1>24 DEF DispatchNext, IndInv, TypeInv, TypeOK
  <2>5. QED BY <1>24, <2>3, <2>4 DEF DispatchNext, tvars, IndInv, TypeInv, TypeOK
<1>25. CASE Dispatched
  BY <1>25, <1>1, ItemAssumption DEF Dispatched, Goto, mvars, wvars, dvars, tvars,
     IndInv, TypeInv, TypeOK, Labels, Ecbs, Post, Unposted, IndexInv, Refuses, INIT,
     RUNNING, QUIESCE, STOPPED, WAITING, AfterWait
<1>26. CASE dispatch_thread_quiesce
  BY <1>26, <1>1, ItemAssumption DEF dispatch_thread_quiesce, Goto, mvars, wvars,
     dvars, tvars, IndInv, TypeInv, TypeOK, Labels, Ecbs, Post, Unposted, IndexInv,
     Refuses, INIT, RUNNING, QUIESCE, STOPPED, WAITING, AfterWait
<1>27. CASE QuiesceNext
  BY <1>27, <1>1, ItemAssumption DEF QuiesceNext, Goto, mvars, wvars, dvars, tvars,
     IndInv, TypeInv, TypeOK, Labels, Ecbs, Post, Unposted, IndexInv, Refuses, INIT,
     RUNNING, QUIESCE, STOPPED, WAITING, AfterWait
<1>28. CASE ShutPost
  BY ZenonT(60), <1>28, <1>1, ItemAssumption DEF ShutPost, Goto, mvars, wvars, dvars, tvars,
     IndInv, TypeInv, TypeOK, Labels, Ecbs, Post, Unposted, IndexInv, Refuses, INIT,
     RUNNING, QUIESCE, STOPPED, WAITING, AfterWait
<1>29. CASE ShutGiveUp
  <2>1. wstate' \in [Workers -> {"INIT", "WAITING", "RUNNING", "SHUTDOWN", "DISPATCH",
                                "STUCK"}]
    BY <1>29 DEF ShutGiveUp, IndInv, TypeInv
  <2>2. n - 1 \in 0 .. Len(worker)
    BY <1>29 DEF ShutGiveUp, IndInv, TypeInv, TypeOK, IndexInv
  <2>3. QED BY <1>29, <2>1, <2>2 DEF ShutGiveUp, mvars, tvars, Goto, Labels, IndInv,
               TypeInv, TypeOK
<1>30. CASE ShutDone
  <2>1. \/ UNCHANGED <<worker, alloc, wstate, wwait, wqueue, wopt, late, fate>>
        \/ \E w \in Workers : Has(worker, w) /\ Ended(w) /\ cthread_worker_del(w)
    BY <1>30, CurFacts DEF ShutDone
  <2>2. CASE UNCHANGED <<worker, alloc, wstate, wwait, wqueue, wopt, late, fate>>
    BY <1>30, <2>2 DEF ShutDone, Goto, tvars, IndInv, TypeInv, TypeOK, Labels, Ecbs,
       Post, Unposted, IndexInv
  <2>3. ASSUME NEW w \in Workers, Has(worker, w), cthread_worker_del(w)
        PROVE  TypeInv'
    <3>1. worker' \in Seq(Workers) /\ alloc' \subseteq Workers
      BY <2>3, DelFacts DEF Leaves, cthread_worker_del, IndInv, TypeInv, TypeOK
    <3>2. fate' \in [Items -> {"new", "refused", "queued", "given", "done", "dropped",
                              "lost", "twice"}]
      BY <2>3 DEF cthread_worker_del, IndInv, TypeInv, TypeOK
    <3>3. QED BY <1>30, <2>3, <3>1, <3>2 DEF ShutDone, cthread_worker_del, Goto, tvars,
                 IndInv, TypeInv, TypeOK, Labels, Ecbs, Post, Unposted, IndexInv
  <2>4. QED BY <2>1, <2>2, <2>3
<1>31. CASE dispatch_thread_term
  <2>1. Len(worker) \in Nat
    BY DEF IndInv, TypeInv, TypeOK
  <2>2. n' \in 0 .. Len(worker') /\ n' \in Nat /\ mstate' \in 0 .. 4
    BY <1>31, <2>1 DEF dispatch_thread_term, QUIESCE
  <2>3. UNCHANGED <<mgr, maxtask, mwait, queue, worker, start, lock, wvars, tvars, fate>>
    BY <1>31 DEF dispatch_thread_term
  <2>4. quiesce' = FALSE /\ dpc' = "t_next"
    BY <1>31 DEF dispatch_thread_term, Goto
  <2>5. QED BY <2>2, <2>3, <2>4 DEF wvars, tvars, Labels, IndInv, TypeInv, TypeOK
<1>32. CASE TermNext
  BY <1>32, <1>1, ItemAssumption DEF TermNext, Goto, mvars, wvars, dvars, tvars,
     IndInv, TypeInv, TypeOK, Labels, Ecbs, Post, Unposted, IndexInv, Refuses, INIT,
     RUNNING, QUIESCE, STOPPED, WAITING, AfterWait
<1>33. CASE cthread_manager_term
  BY <1>33, TriesAssumption DEF cthread_manager_term, wvars, dvars, QUIESCE, IndInv,
     TypeInv, TypeOK, Labels, Ecbs, Post, Unposted
<1>34. CASE Join
  BY <1>34, <1>1, ItemAssumption DEF Join, Goto, mvars, wvars, dvars, tvars, IndInv,
     TypeInv, TypeOK, Labels, Ecbs, Post, Unposted, IndexInv, Refuses, INIT, RUNNING,
     QUIESCE, STOPPED, WAITING, AfterWait
<1>35. CASE JoinStore
  BY <1>35, <1>1, ItemAssumption DEF JoinStore, Goto, mvars, wvars, dvars, tvars,
     IndInv, TypeInv, TypeOK, Labels, Ecbs, Post, Unposted, IndexInv, Refuses, INIT,
     RUNNING, QUIESCE, STOPPED, WAITING, AfterWait
<1>36. CASE JoinPost
  BY <1>36, TriesAssumption DEF JoinPost, wvars, dvars, LifeInv, IndInv, TypeInv,
     TypeOK, Labels, Ecbs, Post, Unposted
<1>37. CASE Join2Post
  BY <1>37, <1>1, ItemAssumption DEF Join2Post, Goto, mvars, wvars, dvars, tvars,
     IndInv, TypeInv, TypeOK, Labels, Ecbs, Post, Unposted, IndexInv, Refuses, INIT,
     RUNNING, QUIESCE, STOPPED, WAITING, AfterWait
<1>38. CASE Join2End
  BY <1>38, <1>1, ItemAssumption DEF Join2End, Goto, mvars, wvars, dvars, tvars,
     IndInv, TypeInv, TypeOK, Labels, Ecbs, Post, Unposted, IndexInv, Refuses, INIT,
     RUNNING, QUIESCE, STOPPED, WAITING, AfterWait
<1>39. CASE Cleanup
  <2>1. fate' \in [Items -> {"new", "refused", "queued", "given", "done", "dropped",
                            "lost", "twice"}]
    BY <1>39 DEF Cleanup, IndInv, TypeInv, TypeOK
  <2>2. queue' \in Seq(Items) /\ worker' \in Seq(Workers)
    <3>1. queue \in Seq(Items) /\ worker \in Seq(Workers)
      BY DEF IndInv, TypeInv, TypeOK
    <3>2. \/ queue' = queue /\ worker' = worker
          \/ queue' = <<>> /\ worker' = <<>>
      BY <1>39 DEF Cleanup
    <3>3. <<>> \in Seq(Items) /\ <<>> \in Seq(Workers)
      OBVIOUS
    <3>4. CASE queue' = queue /\ worker' = worker
      BY <3>1, <3>4
    <3>5. CASE queue' = <<>> /\ worker' = <<>>
      BY <3>3, <3>5
    <3>6. QED BY <3>2, <3>4, <3>5
  <2>3. 0 \in 0 .. Tries
    BY TriesAssumption
  <2>4. QED BY <1>39, <2>1, <2>2, <2>3 DEF Cleanup, wvars, dvars, INIT, Unposted,
               IndInv, LifeInv, TypeInv, TypeOK
<1>40. CASE UNCHANGED vars
  BY <1>40 DEF vars, mvars, wvars, dvars, tvars, IndInv, TypeInv, TypeOK, Labels, Ecbs,
     Post, Unposted, IndexInv, Refuses, INIT, RUNNING, QUIESCE, STOPPED, WAITING,
     AfterWait
<1>41. QED
  BY <1>2, <1>3, <1>4, <1>5, <1>6, <1>7, <1>8, <1>9, <1>10, <1>11, <1>12, <1>13, <1>14,
     <1>15, <1>16, <1>17, <1>18, <1>19, <1>20, <1>21, <1>22, <1>23, <1>24, <1>25,
     <1>26, <1>27, <1>28, <1>29, <1>30, <1>31, <1>32, <1>33, <1>34, <1>35, <1>36,
     <1>37, <1>38, <1>39, <1>40 DEF Next, WorkerStep, Dispatcher, TermStep

(* What a worker's variables say of each other. *)
LEMMA WorkerNext ==
    ASSUME IndInv, [Next]_vars
    PROVE  WorkerInv'
<1>1. ASSUME NEW count \in Counts, cthread_manager_init(count) PROVE WorkerInv'
  <2>1. \A w \in Workers : ~ Ended(w) => wwait[w] = Unposted /\ wpc[w] # "woken"
    BY <1>1 DEF cthread_manager_init, IndInv, LifeInv, UnlistedInv, Has
  <2>2. QED BY <1>1, <2>1 DEF cthread_manager_init, wvars, IndInv, WorkerInv, Ended
<1>2. ASSUME NEW i \in Items, cthread_queue_add(i) PROVE WorkerInv'
  BY <1>2 DEF cthread_queue_add, Goto, mvars, wvars, dvars, tvars, IndInv, WorkerInv,
     Stopping, Ended, Waiting, LifeInv, PoolInv, TypeInv, Post, AfterWait
<1>3. ASSUME NEW w \in Workers, CallWait(w) PROVE WorkerInv'
  BY <1>3 DEF CallWait, Goto, mvars, wvars, dvars, tvars, IndInv, WorkerInv, Stopping,
     Ended, Waiting, LifeInv, PoolInv, TypeInv, Post, AfterWait
<1>4. ASSUME NEW w \in Workers, cthread_queue_del(w) PROVE WorkerInv'
  <2>1. /\ wpc[w] = "qdel" /\ wpc' = [wpc EXCEPT ![w] = "mark"]
        /\ \A v \in Workers : wqueue'[v] \in {wqueue[v], NoItem}
    BY <1>4 DEF cthread_queue_del, IndInv, TypeInv, TypeOK
  <2>2. UNCHANGED <<alloc, wstate, wwait, wrc, dpc, quiesce>>
    BY <1>4 DEF cthread_queue_del, dvars
  <2>3. QED BY <2>1, <2>2 DEF IndInv, WorkerInv, Stopping, Ended, TypeInv
<1>5. ASSUME NEW w \in Workers, MarkWaiting(w) PROVE WorkerInv'
  BY <1>5 DEF MarkWaiting, dvars, IndInv, WorkerInv, HeldInv, PoolInv, Stopping, Ended,
     TypeInv, TypeOK
<1>6. ASSUME NEW w \in Workers, PostManager(w) PROVE WorkerInv'
  BY <1>6 DEF PostManager, Goto, mvars, wvars, dvars, tvars, IndInv, WorkerInv,
     Stopping, Ended, Waiting, LifeInv, PoolInv, TypeInv, Post, AfterWait
<1>7. ASSUME NEW w \in Workers, cthread_wait(w) PROVE WorkerInv'
  BY <1>7 DEF cthread_wait, Goto, mvars, wvars, dvars, tvars, IndInv, WorkerInv,
     Stopping, Ended, Waiting, LifeInv, PoolInv, TypeInv, Post, AfterWait
<1>8. ASSUME NEW w \in Workers, Receive(w) PROVE WorkerInv'
  BY <1>8 DEF Receive, Goto, mvars, wvars, dvars, tvars, IndInv, WorkerInv, Stopping,
     Ended, Waiting, LifeInv, PoolInv, TypeInv, Post, AfterWait
<1>9. ASSUME NEW w \in Workers, ThreadEnds(w) PROVE WorkerInv'
  BY <1>9 DEF ThreadEnds, Goto, mvars, wvars, dvars, tvars, IndInv, WorkerInv,
     Stopping, Ended, Waiting, LifeInv, PoolInv, TypeInv, Post, AfterWait
<1>10. ASSUME NEW w \in Workers, SecondPasses(w) PROVE WorkerInv'
  BY <1>10 DEF SecondPasses, Goto, mvars, wvars, dvars, tvars, IndInv, WorkerInv,
     Stopping, Ended, Waiting, LifeInv, PoolInv, TypeInv, Post, AfterWait
<1>11. CASE dispatch_thread_init
  BY <1>11 DEF dispatch_thread_init, Goto, mvars, wvars, dvars, tvars, IndInv,
     WorkerInv, Stopping, Ended, Waiting, LifeInv, PoolInv, TypeInv, Post, AfterWait
<1>12. CASE InitAdd
  <2>1. UNCHANGED <<worker, alloc, wpc>> \/ \E w \in Workers : Joins(w)
    BY <1>12, AddFacts DEF InitAdd, wvars
  <2>2. UNCHANGED <<wstate, wwait, wqueue, wrc>>
    BY <1>12, AddFacts DEF InitAdd, wvars
  <2>3. ~ Stopping' => ~ Stopping
    BY <1>12 DEF InitAdd, Goto, Stopping
  <2>4. CASE UNCHANGED <<worker, alloc, wpc>>
    BY <2>2, <2>3, <2>4 DEF IndInv, WorkerInv, Ended
  <2>5. ASSUME NEW w \in Workers, Joins(w) PROVE WorkerInv'
    <3>1. /\ wstate[w] = "INIT" /\ wwait[w] = Unposted /\ wqueue[w] = NoItem
          /\ wpc'[w] = "func" /\ alloc' = alloc \cup {w}
          /\ \A v \in Workers : v # w => wpc'[v] = wpc[v]
      BY <2>5 DEF Joins, IndInv, WorkerInv, TypeInv
    <3>2. QED BY <2>2, <2>3, <3>1 DEF IndInv, WorkerInv, Ended
  <2>6. QED BY <2>1, <2>4, <2>5
<1>13. CASE dispatch_thread_timed_wait
  BY <1>13 DEF dispatch_thread_timed_wait, Goto, mvars, wvars, dvars, tvars, IndInv,
     WorkerInv, Stopping, Ended, Waiting, LifeInv, PoolInv, TypeInv, Post, AfterWait
<1>14. CASE dispatch_thread_create
  <2>1. UNCHANGED <<worker, alloc, wpc>> \/ \E w \in Workers : Joins(w)
    BY <1>14, AddFacts DEF dispatch_thread_create, wvars
  <2>2. UNCHANGED <<wstate, wwait, wqueue, wrc>>
    BY <1>14, AddFacts DEF dispatch_thread_create, wvars
  <2>3. ~ Stopping' => ~ Stopping
    BY <1>14 DEF dispatch_thread_create, Goto, Stopping
  <2>4. CASE UNCHANGED <<worker, alloc, wpc>>
    BY <2>2, <2>3, <2>4 DEF IndInv, WorkerInv, Ended
  <2>5. ASSUME NEW w \in Workers, Joins(w) PROVE WorkerInv'
    <3>1. /\ wstate[w] = "INIT" /\ wwait[w] = Unposted /\ wqueue[w] = NoItem
          /\ wpc'[w] = "func" /\ alloc' = alloc \cup {w}
          /\ \A v \in Workers : v # w => wpc'[v] = wpc[v]
      BY <2>5 DEF Joins, IndInv, WorkerInv, TypeInv
    <3>2. QED BY <2>2, <2>3, <3>1 DEF IndInv, WorkerInv, Ended
  <2>6. QED BY <2>1, <2>4, <2>5
<1>15. CASE Yield
  BY <1>15 DEF Yield, Goto, mvars, wvars, dvars, tvars, IndInv, WorkerInv, Stopping,
     Ended, Waiting, LifeInv, PoolInv, TypeInv, Post, AfterWait
<1>16. CASE MarkManager
  BY <1>16 DEF MarkManager, Goto, mvars, wvars, dvars, tvars, IndInv, WorkerInv,
     Stopping, Ended, Waiting, LifeInv, PoolInv, TypeInv, Post, AfterWait
<1>17. CASE TimeIsUp
  BY <1>17 DEF TimeIsUp, Goto, mvars, wvars, dvars, tvars, IndInv, WorkerInv, Stopping,
     Ended, Waiting, LifeInv, PoolInv, TypeInv, Post, AfterWait
<1>18. CASE cthread_timed_wait
  BY <1>18 DEF cthread_timed_wait, Goto, mvars, wvars, dvars, tvars, IndInv, WorkerInv,
     Stopping, Ended, Waiting, LifeInv, PoolInv, TypeInv, Post, AfterWait
<1>19. CASE ClearEcb
  BY <1>19 DEF ClearEcb, Goto, mvars, wvars, dvars, tvars, IndInv, WorkerInv, Stopping,
     Ended, Waiting, LifeInv, PoolInv, TypeInv, Post, AfterWait
<1>20. CASE dispatch_thread
  BY <1>20 DEF dispatch_thread, Goto, mvars, wvars, dvars, tvars, IndInv, WorkerInv,
     Stopping, Ended, Waiting, LifeInv, PoolInv, TypeInv, Post, AfterWait
<1>21. CASE dispatch_thread_check
  <2>1. \/ UNCHANGED <<worker, alloc, wstate, wwait, wqueue, wopt, late, fate>>
        \/ \E w \in Workers : Has(worker, w) /\ Ended(w) /\ cthread_worker_del(w)
    BY <1>21, CheckFacts DEF dispatch_thread_check
  <2>2. UNCHANGED <<wpc, wrc>> /\ (~ Stopping' => ~ Stopping)
    BY <1>21 DEF dispatch_thread_check, Goto, Stopping, IndInv, LifeInv
  <2>3. CASE UNCHANGED <<worker, alloc, wstate, wwait, wqueue, wopt, late, fate>>
    BY <2>2, <2>3 DEF IndInv, WorkerInv, Ended
  <2>4. ASSUME NEW w \in Workers, Ended(w), cthread_worker_del(w)
        PROVE  WorkerInv'
    <3>1. /\ wstate'[w] = "INIT" /\ wwait'[w] = Unposted /\ wqueue'[w] = NoItem
          /\ alloc' = alloc \ {w} /\ wpc[w] = "ended"
          /\ \A v \in Workers : v # w => /\ wstate'[v] = wstate[v]
                                        /\ wwait'[v] = wwait[v]
                                        /\ wqueue'[v] = wqueue[v]
      BY <2>4 DEF cthread_worker_del, Ended, IndInv, TypeInv, TypeOK
    <3>2. QED BY <2>2, <3>1 DEF IndInv, WorkerInv, Ended
  <2>5. QED BY <2>1, <2>3, <2>4
<1>22. CASE dispatch_thread_work
  <2>1. UNCHANGED <<worker, alloc, wpc>> \/ \E w \in Workers : Joins(w)
    BY <1>22, AddFacts DEF dispatch_thread_work, wvars
  <2>2. UNCHANGED <<wstate, wwait, wqueue, wrc>>
    BY <1>22, AddFacts DEF dispatch_thread_work, wvars
  <2>3. ~ Stopping' => ~ Stopping
    BY <1>22 DEF dispatch_thread_work, Goto, Stopping
  <2>4. CASE UNCHANGED <<worker, alloc, wpc>>
    BY <2>2, <2>3, <2>4 DEF IndInv, WorkerInv, Ended
  <2>5. ASSUME NEW w \in Workers, Joins(w) PROVE WorkerInv'
    <3>1. /\ wstate[w] = "INIT" /\ wwait[w] = Unposted /\ wqueue[w] = NoItem
          /\ wpc'[w] = "func" /\ alloc' = alloc \cup {w}
          /\ \A v \in Workers : v # w => wpc'[v] = wpc[v]
      BY <2>5 DEF Joins, IndInv, WorkerInv, TypeInv
    <3>2. QED BY <2>2, <2>3, <3>1 DEF IndInv, WorkerInv, Ended
  <2>6. QED BY <2>1, <2>4, <2>5
<1>23. CASE DispatchNext
  <2> DEFINE w == NextWorker
  <2>1. w \in Workers /\ Has(worker, w) /\ dispatch_work(w) /\ ~ Stopping
    BY <1>23, NextWorkerFacts DEF DispatchNext, Stopping, IndInv, LifeInv
  <2>2. UNCHANGED <<alloc, wpc, wrc, dpc, quiesce, worker>>
    BY <1>23 DEF DispatchNext
  <2> HIDE DEF w
  <2>3. CASE UNCHANGED <<wstate, wqueue, wwait>>
    BY <2>1, <2>2, <2>3 DEF IndInv, WorkerInv, Stopping, Ended
  <2>4. CASE Waiting(w) /\ wstate' = [wstate EXCEPT ![w] = "DISPATCH"]
    <3>1. /\ wpc[w] \in {"post", "wait"} /\ w \in alloc
      BY <2>1, <2>4 DEF Waiting, Ended, IndInv, WorkerInv, PoolInv
    <3>2. /\ wstate'[w] = "DISPATCH"
          /\ \A v \in Workers : v # w => /\ wstate'[v] = wstate[v]
                                        /\ wwait'[v] = wwait[v]
                                        /\ wqueue'[v] = wqueue[v]
      BY <2>1, <2>4 DEF dispatch_work, IndInv, TypeInv, TypeOK
    <3>3. QED BY <2>1, <2>2, <3>1, <3>2 DEF IndInv, WorkerInv, Stopping, Ended
  <2>5. QED BY <2>1, <2>3, <2>4 DEF dispatch_work
<1>24. CASE Dispatched
  BY <1>24 DEF Dispatched, Goto, mvars, wvars, dvars, tvars, IndInv, WorkerInv,
     Stopping, Ended, Waiting, LifeInv, PoolInv, TypeInv, Post, AfterWait
<1>25. CASE dispatch_thread_quiesce
  BY <1>25 DEF dispatch_thread_quiesce, Goto, mvars, wvars, dvars, tvars, IndInv,
     WorkerInv, Stopping, Ended, Waiting, LifeInv, PoolInv, TypeInv, Post, AfterWait
<1>26. CASE QuiesceNext
  BY <1>26 DEF QuiesceNext, Goto, mvars, wvars, dvars, tvars, IndInv, WorkerInv,
     Stopping, Ended, Waiting, LifeInv, PoolInv, TypeInv, Post, AfterWait
<1>27. CASE ShutPost
  BY <1>27 DEF ShutPost, Goto, mvars, wvars, dvars, tvars, IndInv, WorkerInv, Stopping,
     Ended, Waiting, LifeInv, PoolInv, TypeInv, Post, AfterWait
<1>28. CASE ShutGiveUp
  BY <1>28 DEF ShutGiveUp, Goto, mvars, wvars, dvars, tvars, IndInv, WorkerInv,
     Stopping, Ended, Waiting, LifeInv, PoolInv, TypeInv, Post, AfterWait
<1>29. CASE ShutDone
  <2>1. \/ UNCHANGED <<worker, alloc, wstate, wwait, wqueue, wopt, late, fate>>
        \/ \E w \in Workers : Has(worker, w) /\ Ended(w) /\ cthread_worker_del(w)
    BY <1>29, CurFacts DEF ShutDone
  <2>2. UNCHANGED <<wpc, wrc>> /\ (~ Stopping' => ~ Stopping)
    BY <1>29 DEF ShutDone, Goto, Stopping, IndInv, LifeInv
  <2>3. CASE UNCHANGED <<worker, alloc, wstate, wwait, wqueue, wopt, late, fate>>
    BY <2>2, <2>3 DEF IndInv, WorkerInv, Ended
  <2>4. ASSUME NEW w \in Workers, Ended(w), cthread_worker_del(w)
        PROVE  WorkerInv'
    <3>1. /\ wstate'[w] = "INIT" /\ wwait'[w] = Unposted /\ wqueue'[w] = NoItem
          /\ alloc' = alloc \ {w} /\ wpc[w] = "ended"
          /\ \A v \in Workers : v # w => /\ wstate'[v] = wstate[v]
                                        /\ wwait'[v] = wwait[v]
                                        /\ wqueue'[v] = wqueue[v]
      BY <2>4 DEF cthread_worker_del, Ended, IndInv, TypeInv, TypeOK
    <3>2. QED BY <2>2, <3>1 DEF IndInv, WorkerInv, Ended
  <2>5. QED BY <2>1, <2>3, <2>4
<1>30. CASE dispatch_thread_term
  BY <1>30 DEF dispatch_thread_term, Goto, mvars, wvars, dvars, tvars, IndInv,
     WorkerInv, Stopping, Ended, Waiting, LifeInv, PoolInv, TypeInv, Post, AfterWait
<1>31. CASE TermNext
  BY <1>31 DEF TermNext, Goto, mvars, wvars, dvars, tvars, IndInv, WorkerInv, Stopping,
     Ended, Waiting, LifeInv, PoolInv, TypeInv, Post, AfterWait
<1>32. CASE cthread_manager_term
  BY <1>32 DEF cthread_manager_term, Goto, mvars, wvars, dvars, tvars, IndInv,
     WorkerInv, Stopping, Ended, Waiting, LifeInv, PoolInv, TypeInv, Post, AfterWait
<1>33. CASE Join
  BY <1>33 DEF Join, Goto, mvars, wvars, dvars, tvars, IndInv, WorkerInv, Stopping,
     Ended, Waiting, LifeInv, PoolInv, TypeInv, Post, AfterWait
<1>34. CASE JoinStore
  BY <1>34 DEF JoinStore, Goto, mvars, wvars, dvars, tvars, IndInv, WorkerInv,
     Stopping, Ended, Waiting, LifeInv, PoolInv, TypeInv, Post, AfterWait
<1>35. CASE JoinPost
  BY <1>35 DEF JoinPost, Goto, mvars, wvars, dvars, tvars, IndInv, WorkerInv, Stopping,
     Ended, Waiting, LifeInv, PoolInv, TypeInv, Post, AfterWait
<1>36. CASE Join2Post
  BY <1>36 DEF Join2Post, Goto, mvars, wvars, dvars, tvars, IndInv, WorkerInv,
     Stopping, Ended, Waiting, LifeInv, PoolInv, TypeInv, Post, AfterWait
<1>37. CASE Join2End
  BY <1>37 DEF Join2End, Goto, mvars, wvars, dvars, tvars, IndInv, WorkerInv, Stopping,
     Ended, Waiting, LifeInv, PoolInv, TypeInv, Post, AfterWait
<1>38. CASE Cleanup
  BY <1>38 DEF Cleanup, Goto, mvars, wvars, dvars, tvars, IndInv, WorkerInv, Stopping,
     Ended, Waiting, LifeInv, PoolInv, TypeInv, Post, AfterWait
<1>39. CASE UNCHANGED vars
  BY <1>39 DEF vars, mvars, wvars, dvars, tvars, IndInv, WorkerInv, Stopping, Ended,
     Waiting, LifeInv, PoolInv, TypeInv, Post, AfterWait
<1>40. QED
  BY <1>1, <1>2, <1>3, <1>4, <1>5, <1>6, <1>7, <1>8, <1>9, <1>10, <1>11, <1>12, <1>13,
     <1>14, <1>15, <1>16, <1>17, <1>18, <1>19, <1>20, <1>21, <1>22, <1>23, <1>24,
     <1>25, <1>26, <1>27, <1>28, <1>29, <1>30, <1>31, <1>32, <1>33, <1>34, <1>35,
     <1>36, <1>37, <1>38, <1>39 DEF Next, WorkerStep, Dispatcher, TermStep

(* Where the items are. *)
LEMMA ItemNext ==
    ASSUME IndInv, [Next]_vars
    PROVE  ItemInv'
<1>1. ASSUME NEW count \in Counts, cthread_manager_init(count) PROVE ItemInv'
  BY <1>1 DEF cthread_manager_init, Goto, mvars, wvars, dvars, tvars, IndInv, ItemInv,
     TypeInv, TypeOK
<1>2. ASSUME NEW i \in Items, cthread_queue_add(i) PROVE ItemInv'
  <2>1. wqueue' = wqueue /\ fate[i] = "new"
        /\ \A v \in Workers : wqueue[v] # i
    BY <1>2, ItemAssumption DEF cthread_queue_add, wvars, IndInv, ItemInv
  <2>2. \A v \in Workers : wqueue[v] # NoItem => wqueue[v] \in Items
    BY DEF IndInv, TypeInv, TypeOK
  <2>3. CASE queue' = queue /\ fate'[i] \in {"refused", "lost"}
             /\ \A j \in Items : j # i => fate'[j] = fate[j]
    BY <2>1, <2>2, <2>3 DEF IndInv, ItemInv
  <2>4. CASE queue' = Append(queue, i) /\ fate'[i] = "queued"
             /\ \A j \in Items : j # i => fate'[j] = fate[j]
    <3>1. queue \in Seq(Items) /\ Distinct(queue) /\ ~ Has(queue, i)
      BY <2>1 DEF IndInv, TypeInv, TypeOK, ItemInv
    <3>2. /\ Distinct(queue')
          /\ \A j : Has(queue', j) <=> Has(queue, j) \/ j = i
      BY <2>4, <3>1, AddedFacts
    <3>3. QED BY <2>1, <2>2, <2>4, <3>2 DEF IndInv, ItemInv
  <2>5. QED BY <1>2, <2>3, <2>4 DEF cthread_queue_add, IndInv, TypeInv, TypeOK
<1>3. ASSUME NEW w \in Workers, CallWait(w) PROVE ItemInv'
  BY <1>3 DEF CallWait, Goto, mvars, wvars, dvars, tvars, IndInv, ItemInv, TypeInv,
     TypeOK
<1>4. ASSUME NEW w \in Workers, cthread_queue_del(w) PROVE ItemInv'
  <2>1. queue' = queue
    BY <1>4 DEF cthread_queue_del, mvars
  <2>2. CASE wqueue[w] = NoItem
    BY <1>4, <2>1, <2>2 DEF cthread_queue_del, IndInv, ItemInv
  <2>3. CASE wqueue[w] # NoItem
    <3>1. GivesUp(w)
      BY <1>4, <2>3 DEF cthread_queue_del, GivesUp, IndInv, TypeInv, TypeOK
    <3>2. QED BY <2>1, <3>1, GiveUpFacts
  <2>4. QED BY <2>2, <2>3
<1>5. ASSUME NEW w \in Workers, MarkWaiting(w) PROVE ItemInv'
  BY <1>5 DEF MarkWaiting, Goto, mvars, wvars, dvars, tvars, IndInv, ItemInv, TypeInv,
     TypeOK
<1>6. ASSUME NEW w \in Workers, PostManager(w) PROVE ItemInv'
  BY <1>6 DEF PostManager, Goto, mvars, wvars, dvars, tvars, IndInv, ItemInv, TypeInv,
     TypeOK
<1>7. ASSUME NEW w \in Workers, cthread_wait(w) PROVE ItemInv'
  BY <1>7 DEF cthread_wait, Goto, mvars, wvars, dvars, tvars, IndInv, ItemInv, TypeInv,
     TypeOK
<1>8. ASSUME NEW w \in Workers, Receive(w) PROVE ItemInv'
  <2>1. UNCHANGED <<queue, wqueue>>
    BY <1>8 DEF Receive, mvars
  <2>2. CASE wqueue[w] = NoItem
    BY <1>8, <2>1, <2>2 DEF Receive, IndInv, ItemInv
  <2>3. CASE wqueue[w] # NoItem
    <3>0. wpc[w] = "woken" /\ w \in Workers
      BY <1>8 DEF Receive
    <3>1. /\ fate[wqueue[w]] = "queued" /\ ~ Has(queue, wqueue[w])
          /\ wqueue[w] \in Items
      <4>1. fate[wqueue[w]] = "queued"
        BY <2>3, <3>0 DEF IndInv, HeldInv
      <4>2. ~ Has(queue, wqueue[w]) /\ wqueue[w] \in Items
        BY <2>3 DEF IndInv, ItemInv, TypeInv, TypeOK
      <4>3. QED BY <4>1, <4>2
    <3>2. fate' = [fate EXCEPT ![wqueue[w]] = "given"]
      BY <1>8, <2>3, <3>1 DEF Receive
    <3>3. QED BY <2>1, <3>1, <3>2 DEF IndInv, ItemInv, TypeInv, TypeOK
  <2>4. QED BY <2>2, <2>3
<1>9. ASSUME NEW w \in Workers, ThreadEnds(w) PROVE ItemInv'
  BY <1>9 DEF ThreadEnds, Goto, mvars, wvars, dvars, tvars, IndInv, ItemInv, TypeInv,
     TypeOK
<1>10. ASSUME NEW w \in Workers, SecondPasses(w) PROVE ItemInv'
  BY <1>10 DEF SecondPasses, Goto, mvars, wvars, dvars, tvars, IndInv, ItemInv,
     TypeInv, TypeOK
<1>11. CASE dispatch_thread_init
  BY <1>11 DEF dispatch_thread_init, Goto, mvars, wvars, dvars, tvars, IndInv, ItemInv,
     TypeInv, TypeOK
<1>12. CASE InitAdd
  BY <1>12, AddFacts DEF InitAdd, wvars, IndInv, ItemInv
<1>13. CASE dispatch_thread_timed_wait
  BY <1>13 DEF dispatch_thread_timed_wait, Goto, mvars, wvars, dvars, tvars, IndInv,
     ItemInv, TypeInv, TypeOK
<1>14. CASE dispatch_thread_create
  BY <1>14, AddFacts DEF dispatch_thread_create, wvars, IndInv, ItemInv
<1>15. CASE Yield
  BY <1>15 DEF Yield, Goto, mvars, wvars, dvars, tvars, IndInv, ItemInv, TypeInv, TypeOK
<1>16. CASE MarkManager
  BY <1>16 DEF MarkManager, Goto, mvars, wvars, dvars, tvars, IndInv, ItemInv, TypeInv,
     TypeOK
<1>17. CASE TimeIsUp
  BY <1>17 DEF TimeIsUp, Goto, mvars, wvars, dvars, tvars, IndInv, ItemInv, TypeInv,
     TypeOK
<1>18. CASE cthread_timed_wait
  BY <1>18 DEF cthread_timed_wait, Goto, mvars, wvars, dvars, tvars, IndInv, ItemInv,
     TypeInv, TypeOK
<1>19. CASE ClearEcb
  BY <1>19 DEF ClearEcb, Goto, mvars, wvars, dvars, tvars, IndInv, ItemInv, TypeInv,
     TypeOK
<1>20. CASE dispatch_thread
  BY <1>20 DEF dispatch_thread, Goto, mvars, wvars, dvars, tvars, IndInv, ItemInv,
     TypeInv, TypeOK
<1>21. CASE dispatch_thread_check
  <2>1. queue' = queue
    BY <1>21 DEF dispatch_thread_check
  <2>2. \/ UNCHANGED <<worker, alloc, wstate, wwait, wqueue, wopt, late, fate>>
        \/ \E w \in Workers : Has(worker, w) /\ Ended(w) /\ cthread_worker_del(w)
    BY <1>21, CheckFacts DEF dispatch_thread_check
  <2>3. CASE UNCHANGED <<wqueue, fate>>
    BY <2>1, <2>3 DEF IndInv, ItemInv
  <2>4. ASSUME NEW w \in Workers, cthread_worker_del(w) PROVE ItemInv'
    <3>1. GivesUp(w)
      BY <2>4, ItemAssumption DEF cthread_worker_del, GivesUp, IndInv, TypeInv, TypeOK
    <3>2. QED BY <2>1, <3>1, GiveUpFacts
  <2>5. QED BY <2>2, <2>3, <2>4
<1>22. CASE dispatch_thread_work
  BY <1>22, AddFacts DEF dispatch_thread_work, wvars, IndInv, ItemInv
<1>23. CASE DispatchNext
  <2> DEFINE w == NextWorker
  <2>1. w \in Workers /\ dispatch_work(w) /\ fate' = fate
    BY <1>23, NextWorkerFacts DEF DispatchNext
  <2> HIDE DEF w
  <2>2. CASE UNCHANGED <<queue, wqueue>>
    BY <2>1, <2>2 DEF IndInv, ItemInv
  <2>3. CASE /\ Waiting(w) /\ queue # <<>>
             /\ queue' = Tail(queue) /\ wqueue' = [wqueue EXCEPT ![w] = Head(queue)]
    <3> DEFINE i == Head(queue)
    <3>1. queue \in Seq(Items) /\ Distinct(queue)
      BY DEF IndInv, TypeInv, TypeOK, ItemInv
    <3>2. /\ i \in Items /\ Distinct(queue') /\ Has(queue, i)
          /\ \A j : Has(queue', j) <=> Has(queue, j) /\ j # i
      BY <2>3, <3>1, FirstGone
    <3>3. \A v \in Workers : wqueue'[v] = IF v = w THEN i ELSE wqueue[v]
      BY <2>3 DEF IndInv, TypeInv, TypeOK
    <3>4. wqueue[w] = NoItem
      BY <2>1, <2>3 DEF Waiting, IndInv, WorkerInv
    <3> HIDE DEF i
    <3>5. \A v \in Workers : wqueue[v] # i
      BY <3>2, ItemAssumption DEF IndInv, ItemInv
    <3>6. \A j \in Items : fate[j] \in {"queued", "given"} =>
              Has(queue', j) \/ \E v \in Workers : wqueue'[v] = j
      BY <2>1, <3>2, <3>3, <3>4, ItemAssumption DEF IndInv, ItemInv
    <3>7. QED BY <2>1, <3>2, <3>3, <3>4, <3>5, <3>6 DEF IndInv, ItemInv
  <2>4. CASE Waiting(w) /\ queue' = queue /\ wqueue' = [wqueue EXCEPT ![w] = NoItem]
    <3>1. wqueue[w] = NoItem
      BY <2>1, <2>4 DEF Waiting, IndInv, WorkerInv
    <3>2. wqueue' = wqueue
      BY <2>4, <3>1 DEF IndInv, TypeInv, TypeOK
    <3>3. QED BY <2>1, <2>4, <3>2 DEF IndInv, ItemInv
  <2>5. QED BY <2>1, <2>2, <2>3, <2>4 DEF dispatch_work
<1>24. CASE Dispatched
  BY <1>24 DEF Dispatched, Goto, mvars, wvars, dvars, tvars, IndInv, ItemInv, TypeInv,
     TypeOK
<1>25. CASE dispatch_thread_quiesce
  BY <1>25 DEF dispatch_thread_quiesce, Goto, mvars, wvars, dvars, tvars, IndInv,
     ItemInv, TypeInv, TypeOK
<1>26. CASE QuiesceNext
  BY <1>26 DEF QuiesceNext, Goto, mvars, wvars, dvars, tvars, IndInv, ItemInv, TypeInv,
     TypeOK
<1>27. CASE ShutPost
  BY <1>27 DEF ShutPost, Goto, mvars, wvars, dvars, tvars, IndInv, ItemInv, TypeInv,
     TypeOK
<1>28. CASE ShutGiveUp
  BY <1>28 DEF ShutGiveUp, Goto, mvars, wvars, dvars, tvars, IndInv, ItemInv, TypeInv,
     TypeOK
<1>29. CASE ShutDone
  <2>1. queue' = queue
    BY <1>29 DEF ShutDone
  <2>2. \/ UNCHANGED <<worker, alloc, wstate, wwait, wqueue, wopt, late, fate>>
        \/ \E w \in Workers : Has(worker, w) /\ Ended(w) /\ cthread_worker_del(w)
    BY <1>29, CurFacts DEF ShutDone
  <2>3. CASE UNCHANGED <<wqueue, fate>>
    BY <2>1, <2>3 DEF IndInv, ItemInv
  <2>4. ASSUME NEW w \in Workers, cthread_worker_del(w) PROVE ItemInv'
    <3>1. GivesUp(w)
      BY <2>4, ItemAssumption DEF cthread_worker_del, GivesUp, IndInv, TypeInv, TypeOK
    <3>2. QED BY <2>1, <3>1, GiveUpFacts
  <2>5. QED BY <2>2, <2>3, <2>4
<1>30. CASE dispatch_thread_term
  BY <1>30 DEF dispatch_thread_term, Goto, mvars, wvars, dvars, tvars, IndInv, ItemInv,
     TypeInv, TypeOK
<1>31. CASE TermNext
  BY <1>31 DEF TermNext, Goto, mvars, wvars, dvars, tvars, IndInv, ItemInv, TypeInv,
     TypeOK
<1>32. CASE cthread_manager_term
  BY <1>32 DEF cthread_manager_term, Goto, mvars, wvars, dvars, tvars, IndInv, ItemInv,
     TypeInv, TypeOK
<1>33. CASE Join
  BY <1>33 DEF Join, Goto, mvars, wvars, dvars, tvars, IndInv, ItemInv, TypeInv, TypeOK
<1>34. CASE JoinStore
  BY <1>34 DEF JoinStore, Goto, mvars, wvars, dvars, tvars, IndInv, ItemInv, TypeInv,
     TypeOK
<1>35. CASE JoinPost
  BY <1>35 DEF JoinPost, Goto, mvars, wvars, dvars, tvars, IndInv, ItemInv, TypeInv,
     TypeOK
<1>36. CASE Join2Post
  BY <1>36 DEF Join2Post, Goto, mvars, wvars, dvars, tvars, IndInv, ItemInv, TypeInv,
     TypeOK
<1>37. CASE Join2End
  BY <1>37 DEF Join2End, Goto, mvars, wvars, dvars, tvars, IndInv, ItemInv, TypeInv,
     TypeOK
<1>38. CASE Cleanup
  <2>1. wqueue' = wqueue
    BY <1>38 DEF Cleanup, wvars
  <2>2. CASE StillRunning
    BY <1>38, <2>1, <2>2 DEF Cleanup, IndInv, ItemInv
  <2>3. CASE ~ StillRunning
    <3>1. queue' = <<>> /\ \A i \in Items : fate'[i] = IF Has(queue, i) THEN "dropped" ELSE fate[i]
      BY <1>38, <2>3 DEF Cleanup, Has
    <3>2. Distinct(queue') /\ \A i : ~ Has(queue', i)
      BY <3>1 DEF Distinct, Has
    <3>3. \A v \in Workers : wqueue[v] # NoItem => wqueue[v] \in Items
      BY DEF IndInv, TypeInv, TypeOK
    <3>4. QED BY <2>1, <3>1, <3>2, <3>3 DEF IndInv, ItemInv
  <2>4. QED BY <2>2, <2>3
<1>39. CASE UNCHANGED vars
  BY <1>39 DEF vars, mvars, wvars, dvars, tvars, IndInv, ItemInv, TypeInv, TypeOK
<1>40. QED
  BY <1>1, <1>2, <1>3, <1>4, <1>5, <1>6, <1>7, <1>8, <1>9, <1>10, <1>11, <1>12, <1>13,
     <1>14, <1>15, <1>16, <1>17, <1>18, <1>19, <1>20, <1>21, <1>22, <1>23, <1>24,
     <1>25, <1>26, <1>27, <1>28, <1>29, <1>30, <1>31, <1>32, <1>33, <1>34, <1>35,
     <1>36, <1>37, <1>38, <1>39 DEF Next, WorkerStep, Dispatcher, TermStep

(* Who holds an item knows of it. *)
LEMMA HeldNext ==
    ASSUME IndInv, [Next]_vars
    PROVE  HeldInv'
<1>1. ASSUME NEW count \in Counts, cthread_manager_init(count) PROVE HeldInv'
  BY <1>1 DEF cthread_manager_init, Goto, mvars, wvars, dvars, tvars, IndInv, HeldInv,
     TypeInv, TypeOK
<1>2. ASSUME NEW i \in Items, cthread_queue_add(i) PROVE HeldInv'
  BY <1>2 DEF cthread_queue_add, Goto, mvars, wvars, dvars, tvars, IndInv, HeldInv,
     TypeInv, TypeOK
<1>3. ASSUME NEW w \in Workers, CallWait(w) PROVE HeldInv'
  BY <1>3 DEF CallWait, Goto, mvars, wvars, dvars, tvars, IndInv, HeldInv, TypeInv,
     TypeOK
<1>4. ASSUME NEW w \in Workers, cthread_queue_del(w) PROVE HeldInv'
  <2>1. wwait' = wwait /\ wrc' = wrc /\ wpc' = [wpc EXCEPT ![w] = "mark"]
    BY <1>4 DEF cthread_queue_del
  <2>2. CASE wqueue[w] = NoItem
    <3>1. UNCHANGED <<wqueue, fate>>
      BY <1>4, <2>2 DEF cthread_queue_del
    <3>2. QED BY <2>1, <2>2, <3>1 DEF IndInv, HeldInv, TypeInv
  <2>3. CASE wqueue[w] # NoItem
    <3>1. wqueue' = [wqueue EXCEPT ![w] = NoItem] /\ fate' = [fate EXCEPT ![wqueue[w]] = "done"]
      BY <1>4, <2>3 DEF cthread_queue_del
    <3>2. wqueue'[w] = NoItem /\ \A v \in Workers : v # w => wqueue'[v] = wqueue[v] /\ wpc'[v] = wpc[v]
      BY <2>1, <3>1 DEF IndInv, TypeInv, TypeOK
    <3>3. ASSUME NEW v \in Workers, v # w, wqueue[v] # NoItem
          PROVE  fate'[wqueue[v]] = fate[wqueue[v]]
      BY <2>3, <3>1, <3>3 DEF IndInv, ItemInv, TypeInv, TypeOK
    <3>4. QED BY <2>1, <3>2, <3>3 DEF IndInv, HeldInv
  <2>4. QED BY <2>2, <2>3
<1>5. ASSUME NEW w \in Workers, MarkWaiting(w) PROVE HeldInv'
  BY <1>5 DEF MarkWaiting, Goto, mvars, wvars, dvars, tvars, IndInv, HeldInv, TypeInv,
     TypeOK
<1>6. ASSUME NEW w \in Workers, PostManager(w) PROVE HeldInv'
  BY <1>6 DEF PostManager, Goto, mvars, wvars, dvars, tvars, IndInv, HeldInv, TypeInv,
     TypeOK
<1>7. ASSUME NEW w \in Workers, cthread_wait(w) PROVE HeldInv'
  BY <1>7 DEF cthread_wait, Goto, mvars, wvars, dvars, tvars, IndInv, HeldInv, TypeInv,
     TypeOK
<1>8. ASSUME NEW w \in Workers, Receive(w) PROVE HeldInv'
  <2>1. /\ wpc[w] = "woken" /\ wwait' = wwait /\ wqueue' = wqueue
        /\ \A v \in Workers : v # w => wpc'[v] = wpc[v] /\ wrc'[v] = wrc[v]
        /\ wpc'[w] = IF wrc[w] = "SHUTDOWN" THEN "end" ELSE "func"
    BY <1>8 DEF Receive, IndInv, TypeInv
  <2>2. CASE wqueue[w] = NoItem
    <3>1. fate' = fate
      BY <1>8, <2>2 DEF Receive
    <3>2. QED BY <2>1, <2>2, <3>1 DEF IndInv, HeldInv
  <2>3. CASE wqueue[w] # NoItem
    <3>1. fate[wqueue[w]] = "queued" /\ wrc[w] = "REQUEST"
      BY <2>1, <2>3 DEF IndInv, HeldInv
    <3>2. fate' = [fate EXCEPT ![wqueue[w]] = "given"]
      BY <1>8, <2>3, <3>1 DEF Receive
    <3>3. fate'[wqueue[w]] = "given" /\ wpc'[w] = "func"
      BY <2>1, <2>3, <3>1, <3>2 DEF IndInv, TypeInv, TypeOK
    <3>4. ASSUME NEW v \in Workers, v # w, wqueue[v] # NoItem
          PROVE  fate'[wqueue[v]] = fate[wqueue[v]]
      BY <2>3, <3>2, <3>4 DEF IndInv, ItemInv, TypeInv, TypeOK
    <3>5. QED BY <2>1, <3>3, <3>4 DEF IndInv, HeldInv
  <2>4. QED BY <2>2, <2>3
<1>9. ASSUME NEW w \in Workers, ThreadEnds(w) PROVE HeldInv'
  BY <1>9 DEF ThreadEnds, Goto, mvars, wvars, dvars, tvars, IndInv, HeldInv, TypeInv,
     TypeOK
<1>10. ASSUME NEW w \in Workers, SecondPasses(w) PROVE HeldInv'
  BY <1>10 DEF SecondPasses, Goto, mvars, wvars, dvars, tvars, IndInv, HeldInv,
     TypeInv, TypeOK
<1>11. CASE dispatch_thread_init
  BY <1>11 DEF dispatch_thread_init, Goto, mvars, wvars, dvars, tvars, IndInv, HeldInv,
     TypeInv, TypeOK
<1>12. CASE InitAdd
  <2>1. UNCHANGED <<worker, alloc, wpc>> \/ \E w \in Workers : Joins(w)
    BY <1>12, AddFacts DEF InitAdd, wvars
  <2>2. UNCHANGED <<wwait, wqueue, wrc, fate>>
    BY <1>12, AddFacts DEF InitAdd, wvars
  <2>3. CASE wpc' = wpc
    BY <2>2, <2>3 DEF IndInv, HeldInv
  <2>4. ASSUME NEW w \in Workers, Joins(w) PROVE HeldInv'
    <3>1. wqueue[w] = NoItem /\ \A v \in Workers : v # w => wpc'[v] = wpc[v]
      BY <2>4 DEF Joins, IndInv, WorkerInv, TypeInv
    <3>2. QED BY <2>2, <3>1 DEF IndInv, HeldInv
  <2>5. QED BY <2>1, <2>3, <2>4
<1>13. CASE dispatch_thread_timed_wait
  BY <1>13 DEF dispatch_thread_timed_wait, Goto, mvars, wvars, dvars, tvars, IndInv,
     HeldInv, TypeInv, TypeOK
<1>14. CASE dispatch_thread_create
  <2>1. UNCHANGED <<worker, alloc, wpc>> \/ \E w \in Workers : Joins(w)
    BY <1>14, AddFacts DEF dispatch_thread_create, wvars
  <2>2. UNCHANGED <<wwait, wqueue, wrc, fate>>
    BY <1>14, AddFacts DEF dispatch_thread_create, wvars
  <2>3. CASE wpc' = wpc
    BY <2>2, <2>3 DEF IndInv, HeldInv
  <2>4. ASSUME NEW w \in Workers, Joins(w) PROVE HeldInv'
    <3>1. wqueue[w] = NoItem /\ \A v \in Workers : v # w => wpc'[v] = wpc[v]
      BY <2>4 DEF Joins, IndInv, WorkerInv, TypeInv
    <3>2. QED BY <2>2, <3>1 DEF IndInv, HeldInv
  <2>5. QED BY <2>1, <2>3, <2>4
<1>15. CASE Yield
  BY <1>15 DEF Yield, Goto, mvars, wvars, dvars, tvars, IndInv, HeldInv, TypeInv, TypeOK
<1>16. CASE MarkManager
  BY <1>16 DEF MarkManager, Goto, mvars, wvars, dvars, tvars, IndInv, HeldInv, TypeInv,
     TypeOK
<1>17. CASE TimeIsUp
  BY <1>17 DEF TimeIsUp, Goto, mvars, wvars, dvars, tvars, IndInv, HeldInv, TypeInv,
     TypeOK
<1>18. CASE cthread_timed_wait
  BY <1>18 DEF cthread_timed_wait, Goto, mvars, wvars, dvars, tvars, IndInv, HeldInv,
     TypeInv, TypeOK
<1>19. CASE ClearEcb
  BY <1>19 DEF ClearEcb, Goto, mvars, wvars, dvars, tvars, IndInv, HeldInv, TypeInv,
     TypeOK
<1>20. CASE dispatch_thread
  BY <1>20 DEF dispatch_thread, Goto, mvars, wvars, dvars, tvars, IndInv, HeldInv,
     TypeInv, TypeOK
<1>21. CASE dispatch_thread_check
  <2>1. wpc' = wpc /\ wrc' = wrc
    BY <1>21 DEF dispatch_thread_check
  <2>2. \/ UNCHANGED <<worker, alloc, wstate, wwait, wqueue, wopt, late, fate>>
        \/ \E w \in Workers : Has(worker, w) /\ Ended(w) /\ cthread_worker_del(w)
    BY <1>21, CheckFacts DEF dispatch_thread_check
  <2>3. CASE UNCHANGED <<wqueue, wwait, fate>>
    BY <2>1, <2>3 DEF IndInv, HeldInv
  <2>4. ASSUME NEW w \in Workers, cthread_worker_del(w) PROVE HeldInv'
    <3>1. wqueue'[w] = NoItem
      BY <2>4 DEF cthread_worker_del, IndInv, TypeInv, TypeOK
    <3>2. ASSUME NEW v \in Workers, v # w, wqueue[v] # NoItem
          PROVE  wqueue'[v] = wqueue[v] /\ wwait'[v] = wwait[v] /\ fate'[wqueue[v]] = fate[wqueue[v]]
      BY <2>4, <3>2 DEF cthread_worker_del, IndInv, ItemInv, TypeInv, TypeOK
    <3>3. \A v \in Workers : v # w => wqueue'[v] = wqueue[v]
      BY <2>4 DEF cthread_worker_del, IndInv, TypeInv, TypeOK
    <3>4. QED BY <2>1, <3>1, <3>2, <3>3 DEF IndInv, HeldInv
  <2>5. QED BY <2>2, <2>3, <2>4
<1>22. CASE dispatch_thread_work
  <2>1. UNCHANGED <<worker, alloc, wpc>> \/ \E w \in Workers : Joins(w)
    BY <1>22, AddFacts DEF dispatch_thread_work, wvars
  <2>2. UNCHANGED <<wwait, wqueue, wrc, fate>>
    BY <1>22, AddFacts DEF dispatch_thread_work, wvars
  <2>3. CASE wpc' = wpc
    BY <2>2, <2>3 DEF IndInv, HeldInv
  <2>4. ASSUME NEW w \in Workers, Joins(w) PROVE HeldInv'
    <3>1. wqueue[w] = NoItem /\ \A v \in Workers : v # w => wpc'[v] = wpc[v]
      BY <2>4 DEF Joins, IndInv, WorkerInv, TypeInv
    <3>2. QED BY <2>2, <3>1 DEF IndInv, HeldInv
  <2>5. QED BY <2>1, <2>3, <2>4
<1>23. CASE DispatchNext
  <2> DEFINE w == NextWorker
  <2>1. w \in Workers /\ Has(worker, w) /\ dispatch_work(w) /\ ~ Stopping
    BY <1>23, NextWorkerFacts DEF DispatchNext, Stopping, IndInv, LifeInv
  <2>2. UNCHANGED <<fate, wpc, wrc>>
    BY <1>23 DEF DispatchNext
  <2> HIDE DEF w
  <2>3. CASE UNCHANGED <<wqueue, wwait>>
    BY <2>2, <2>3 DEF IndInv, HeldInv
  <2>4. CASE Waiting(w) /\ wstate' = [wstate EXCEPT ![w] = "DISPATCH"]
    <3>1. wpc[w] \in {"post", "wait"} /\ wwait[w] = Unposted /\ wqueue[w] = NoItem
      BY <2>1, <2>4 DEF Waiting, Ended, IndInv, WorkerInv
    <3>2. \A v \in Workers : v # w => wqueue'[v] = wqueue[v] /\ wwait'[v] = wwait[v]
      BY <2>1, <2>4 DEF dispatch_work, IndInv, TypeInv, TypeOK
    <3>3. CASE wqueue'[w] = NoItem
      BY <2>2, <3>2, <3>3 DEF IndInv, HeldInv
    <3>4. CASE wqueue'[w] # NoItem
      <4>1. /\ wwait' = [wwait EXCEPT ![w] = Post(@, "REQUEST")] /\ queue # <<>>
            /\ wqueue' = [wqueue EXCEPT ![w] = Head(queue)]
        <5>1. wqueue # wqueue' /\ \A x : [wqueue EXCEPT ![w] = x][w] = x
          BY <2>1, <3>1, <3>4 DEF IndInv, TypeInv, TypeOK
        <5>2. wqueue' # [wqueue EXCEPT ![w] = NoItem]
          BY <3>4, <5>1
        <5>3. QED BY <2>1, <5>1, <5>2 DEF dispatch_work
      <4>2. wwait'[w] = "REQUEST" /\ wqueue'[w] = Head(queue)
        BY <2>1, <3>1, <4>1 DEF Post, IndInv, TypeInv, TypeOK
      <4>3. Has(queue, Head(queue)) /\ Head(queue) \in Items
        BY <4>1, FirstGone DEF IndInv, ItemInv, TypeInv, TypeOK
      <4>4. fate[wqueue'[w]] = "queued"
        BY <4>2, <4>3 DEF IndInv, ItemInv
      <4>5. QED BY <2>2, <3>1, <3>2, <4>2, <4>4 DEF IndInv, HeldInv
    <3>5. QED BY <3>3, <3>4
  <2>5. QED BY <2>1, <2>3, <2>4 DEF dispatch_work
<1>24. CASE Dispatched
  BY <1>24 DEF Dispatched, Goto, mvars, wvars, dvars, tvars, IndInv, HeldInv, TypeInv,
     TypeOK
<1>25. CASE dispatch_thread_quiesce
  BY <1>25 DEF dispatch_thread_quiesce, Goto, mvars, wvars, dvars, tvars, IndInv,
     HeldInv, TypeInv, TypeOK
<1>26. CASE QuiesceNext
  BY <1>26 DEF QuiesceNext, Goto, mvars, wvars, dvars, tvars, IndInv, HeldInv, TypeInv,
     TypeOK
<1>27. CASE ShutPost
  <2>1. UNCHANGED <<wqueue, fate, wpc, wrc>>
    BY <1>27 DEF ShutPost
  <2>2. \A v \in Workers : wwait[v] = "REQUEST" => wwait'[v] = "REQUEST"
    BY <1>27 DEF ShutPost, Post, Unposted, IndInv, TypeInv
  <2>3. QED BY <2>1, <2>2 DEF IndInv, HeldInv
<1>28. CASE ShutGiveUp
  BY <1>28 DEF ShutGiveUp, Goto, mvars, wvars, dvars, tvars, IndInv, HeldInv, TypeInv,
     TypeOK
<1>29. CASE ShutDone
  <2>1. wpc' = wpc /\ wrc' = wrc
    BY <1>29 DEF ShutDone
  <2>2. \/ UNCHANGED <<worker, alloc, wstate, wwait, wqueue, wopt, late, fate>>
        \/ \E w \in Workers : Has(worker, w) /\ Ended(w) /\ cthread_worker_del(w)
    BY <1>29, CurFacts DEF ShutDone
  <2>3. CASE UNCHANGED <<wqueue, wwait, fate>>
    BY <2>1, <2>3 DEF IndInv, HeldInv
  <2>4. ASSUME NEW w \in Workers, cthread_worker_del(w) PROVE HeldInv'
    <3>1. wqueue'[w] = NoItem
      BY <2>4 DEF cthread_worker_del, IndInv, TypeInv, TypeOK
    <3>2. ASSUME NEW v \in Workers, v # w, wqueue[v] # NoItem
          PROVE  wqueue'[v] = wqueue[v] /\ wwait'[v] = wwait[v] /\ fate'[wqueue[v]] = fate[wqueue[v]]
      BY <2>4, <3>2 DEF cthread_worker_del, IndInv, ItemInv, TypeInv, TypeOK
    <3>3. \A v \in Workers : v # w => wqueue'[v] = wqueue[v]
      BY <2>4 DEF cthread_worker_del, IndInv, TypeInv, TypeOK
    <3>4. QED BY <2>1, <3>1, <3>2, <3>3 DEF IndInv, HeldInv
  <2>5. QED BY <2>2, <2>3, <2>4
<1>30. CASE dispatch_thread_term
  BY <1>30 DEF dispatch_thread_term, Goto, mvars, wvars, dvars, tvars, IndInv, HeldInv,
     TypeInv, TypeOK
<1>31. CASE TermNext
  BY <1>31 DEF TermNext, Goto, mvars, wvars, dvars, tvars, IndInv, HeldInv, TypeInv,
     TypeOK
<1>32. CASE cthread_manager_term
  BY <1>32 DEF cthread_manager_term, Goto, mvars, wvars, dvars, tvars, IndInv, HeldInv,
     TypeInv, TypeOK
<1>33. CASE Join
  BY <1>33 DEF Join, Goto, mvars, wvars, dvars, tvars, IndInv, HeldInv, TypeInv, TypeOK
<1>34. CASE JoinStore
  BY <1>34 DEF JoinStore, Goto, mvars, wvars, dvars, tvars, IndInv, HeldInv, TypeInv,
     TypeOK
<1>35. CASE JoinPost
  BY <1>35 DEF JoinPost, Goto, mvars, wvars, dvars, tvars, IndInv, HeldInv, TypeInv,
     TypeOK
<1>36. CASE Join2Post
  BY <1>36 DEF Join2Post, Goto, mvars, wvars, dvars, tvars, IndInv, HeldInv, TypeInv,
     TypeOK
<1>37. CASE Join2End
  BY <1>37 DEF Join2End, Goto, mvars, wvars, dvars, tvars, IndInv, HeldInv, TypeInv,
     TypeOK
<1>38. CASE Cleanup
  <2>1. UNCHANGED <<wqueue, wwait, wpc, wrc>>
    BY <1>38 DEF Cleanup, wvars
  <2>2. CASE StillRunning
    BY <1>38, <2>1, <2>2 DEF Cleanup, IndInv, HeldInv
  <2>3. CASE ~ StillRunning
    <3>1. \A i \in Items : ~ Has(queue, i) => fate'[i] = fate[i]
      BY <1>38, <2>3 DEF Cleanup, Has
    <3>2. \A v \in Workers : wqueue[v] # NoItem => fate'[wqueue[v]] = fate[wqueue[v]]
      BY <3>1 DEF IndInv, ItemInv, TypeInv, TypeOK
    <3>3. QED BY <2>1, <3>2 DEF IndInv, HeldInv
  <2>4. QED BY <2>2, <2>3
<1>39. CASE UNCHANGED vars
  BY <1>39 DEF vars, mvars, wvars, dvars, tvars, IndInv, HeldInv, TypeInv, TypeOK
<1>40. QED
  BY <1>1, <1>2, <1>3, <1>4, <1>5, <1>6, <1>7, <1>8, <1>9, <1>10, <1>11, <1>12, <1>13,
     <1>14, <1>15, <1>16, <1>17, <1>18, <1>19, <1>20, <1>21, <1>22, <1>23, <1>24,
     <1>25, <1>26, <1>27, <1>28, <1>29, <1>30, <1>31, <1>32, <1>33, <1>34, <1>35,
     <1>36, <1>37, <1>38, <1>39 DEF Next, WorkerStep, Dispatcher, TermStep

(* What no step makes of an item, if arrayadd() always finds storage. *)
LEMMA LostNext ==
    ASSUME ~ MemFails, IndInv, NoneLost, [Next]_vars
    PROVE  NoneLost'
<1>1. ASSUME NEW i \in Items, cthread_queue_add(i) PROVE NoneLost'
  BY <1>1 DEF cthread_queue_add, NoneLost, IndInv, TypeInv, TypeOK
<1>2. ASSUME NEW w \in Workers, cthread_queue_del(w) PROVE NoneLost'
  BY <1>2 DEF cthread_queue_del, NoneLost, IndInv, TypeInv, TypeOK
<1>3. ASSUME NEW w \in Workers, Receive(w) PROVE NoneLost'
  BY <1>3 DEF Receive, NoneLost, IndInv, TypeInv, TypeOK
<1>4. ASSUME NEW w \in Workers, cthread_worker_del(w) PROVE NoneLost'
  BY <1>4 DEF cthread_worker_del, NoneLost, IndInv, TypeInv, TypeOK
<1>5. CASE dispatch_thread_check
  BY <1>4, <1>5, CheckFacts DEF NoneLost
<1>6. CASE ShutDone
  BY <1>4, <1>6, CurFacts DEF ShutDone, NoneLost
<1>7. CASE Cleanup
  BY <1>7 DEF Cleanup, NoneLost, IndInv, TypeInv, TypeOK
<1>8. CASE fate' = fate
  BY <1>8 DEF NoneLost
<1>9. ASSUME NEW count \in Counts, cthread_manager_init(count) PROVE fate' = fate
  BY <1>9 DEF cthread_manager_init
<1>10. ASSUME NEW w \in Workers,
              CallWait(w) \/ MarkWaiting(w) \/ PostManager(w) \/ cthread_wait(w)
              \/ ThreadEnds(w) \/ SecondPasses(w)
       PROVE  fate' = fate
  BY <1>10 DEF CallWait, MarkWaiting, PostManager, cthread_wait, ThreadEnds,
     SecondPasses
<1>11. ASSUME dispatch_thread_init \/ InitAdd \/ dispatch_thread_timed_wait
              \/ dispatch_thread_create \/ Yield \/ MarkManager \/ TimeIsUp
              \/ cthread_timed_wait \/ ClearEcb \/ dispatch_thread \/ dispatch_thread_work
              \/ DispatchNext \/ Dispatched \/ dispatch_thread_quiesce \/ QuiesceNext
              \/ ShutPost \/ ShutGiveUp \/ dispatch_thread_term \/ TermNext
              \/ cthread_manager_term \/ Join \/ JoinStore \/ JoinPost \/ Join2Post
              \/ Join2End
       PROVE  fate' = fate
  BY <1>11 DEF dispatch_thread_init, InitAdd, dispatch_thread_timed_wait,
     dispatch_thread_create, Yield, MarkManager, TimeIsUp, cthread_timed_wait, ClearEcb,
     dispatch_thread, dispatch_thread_work, DispatchNext, Dispatched,
     dispatch_thread_quiesce, QuiesceNext, ShutPost, ShutGiveUp, dispatch_thread_term,
     TermNext, cthread_manager_term, Join, JoinStore, JoinPost, Join2Post, Join2End
<1>12. CASE UNCHANGED vars
  BY <1>8, <1>12 DEF vars
<1>13. QED
  BY <1>1, <1>2, <1>3, <1>5, <1>6, <1>7, <1>8, <1>9, <1>10, <1>11, <1>12
     DEF Next, WorkerStep, Dispatcher, TermStep

----------------------------------------------------------------------------
LEMMA Initially == Init => IndInv /\ NoneLost
<1> SUFFICES ASSUME Init PROVE IndInv /\ NoneLost
  OBVIOUS
<1> USE DEF Init, InitManager
<1>1. TypeInv
  <2>1. <<>> \in Seq(Items) /\ <<>> \in Seq(Workers)
    OBVIOUS
  <2>2. tries \in 0 .. Tries
    BY TriesAssumption
  <2>3. TypeOK
    BY <2>1, <2>2 DEF TypeOK, Unposted, INIT
  <2>4. QED BY <2>3 DEF TypeInv, Labels, Ecbs
<1>2. LifeInv /\ IndexInv
  BY DEF LifeInv, IndexInv
<1>3. PoolInv /\ UnlistedInv
  BY DEF PoolInv, UnlistedInv, Distinct, Has, Ended
<1>4. WorkerInv /\ HeldInv
  BY DEF WorkerInv, HeldInv, Stopping, Ended
<1>5. ItemInv
  BY DEF ItemInv, Distinct, Has
<1>6. NoneLost
  BY DEF NoneLost
<1>7. QED BY <1>1, <1>2, <1>3, <1>4, <1>5, <1>6 DEF IndInv

LEMMA Invariant == Spec => []IndInv
<1>1. Init => IndInv
  BY Initially
<1>2. IndInv /\ [Next]_vars => IndInv'
  BY TypeNext, LifeNext, PoolNext, UnlistedNext, IndexNext, WorkerNext, ItemNext,
     HeldNext DEF IndInv
<1>3. QED BY <1>1, <1>2, PTL DEF Spec

LEMMA LostInvariant == ASSUME ~ MemFails PROVE Spec => [](IndInv /\ NoneLost)
<1>1. Init => IndInv /\ NoneLost
  BY Initially
<1>2. IndInv /\ NoneLost /\ [Next]_vars => NoneLost'
  BY LostNext
<1>3. QED BY <1>1, <1>2, Invariant, PTL DEF Spec

----------------------------------------------------------------------------
(* What the invariant says of the places of an item, counted. *)
LEMMA PlacesCounted ==
    ASSUME IndInv, NEW i \in Items
    PROVE  Cardinality(InQueue(i)) + Cardinality(Holders(i)) =
               IF fate[i] \in {"queued", "given"} THEN 1 ELSE 0
<1>1. /\ \A k \in InQueue(i) : k \in 1 .. Len(queue) /\ queue[k] = i
      /\ \A w \in Holders(i) : w \in Workers /\ wqueue[w] = i
      /\ i # NoItem
  BY ItemAssumption DEF InQueue, Holders, IndInv, TypeInv, TypeOK
<1>2. CASE Has(queue, i)
  <2>1. PICK k \in 1 .. Len(queue) : queue[k] = i
    BY <1>2 DEF Has
  <2>2. InQueue(i) = {k}
    BY <2>1 DEF InQueue, IndInv, ItemInv, Distinct
  <2>3. Holders(i) = {}
    BY <1>1, <1>2 DEF IndInv, ItemInv
  <2>4. fate[i] = "queued"
    BY <1>2 DEF IndInv, ItemInv
  <2>5. Cardinality({k}) = 1 /\ Cardinality({}) = 0
    BY FS_EmptySet, FS_Singleton
  <2>6. QED BY <2>2, <2>3, <2>4, <2>5
<1>3. CASE ~ Has(queue, i) /\ \E w \in Workers : wqueue[w] = i
  <2>1. PICK w \in Workers : wqueue[w] = i
    BY <1>3
  <2>2. InQueue(i) = {}
    BY <1>3 DEF InQueue, Has
  <2>3. w \in alloc
    BY <1>1, <2>1 DEF IndInv, WorkerInv
  <2>4. Holders(i) = {w}
    BY <1>1, <2>1, <2>3 DEF Holders, IndInv, ItemInv
  <2>5. fate[i] \in {"queued", "given"}
    BY <1>1, <2>1 DEF IndInv, ItemInv
  <2>6. Cardinality({w}) = 1 /\ Cardinality({}) = 0
    BY FS_EmptySet, FS_Singleton
  <2>7. QED BY <2>2, <2>4, <2>5, <2>6
<1>4. CASE ~ Has(queue, i) /\ \A w \in Workers : wqueue[w] # i
  <2>1. InQueue(i) = {} /\ Holders(i) = {}
    BY <1>1, <1>4 DEF Has
  <2>2. fate[i] \notin {"queued", "given"}
    BY <1>4 DEF IndInv, ItemInv
  <2>3. QED BY <2>1, <2>2, FS_EmptySet
<1>5. QED BY <1>2, <1>3, <1>4

(* Every variable holds a value of its kind. *)
THEOREM PoolTyped == Spec => []TypeOK
<1>1. IndInv => TypeOK
  BY DEF IndInv, TypeInv
<1>2. QED BY <1>1, Invariant, PTL

(* cthread_manager_term() frees the manager only when the dispatcher and   *)
(* every worker have ended (#11), if arrayadd() finds its storage: a       *)
(* worker that is not in the array is not waited for.                      *)
THEOREM FreedUnusedAlways == ASSUME ~ MemFails PROVE Spec => []FreedUnused
<1>1. IndInv => FreedUnused
  BY DEF IndInv, LifeInv, PoolInv, FreedUnused, Has
<1>2. QED BY <1>1, Invariant, PTL

(* A running worker is allocated and in mgr->worker, and the pool does not *)
(* grow above maxtask, however a worker's end races its shutdown, if       *)
(* arrayadd() finds its storage.                                           *)
THEOREM WorkersAreKnownAlways == ASSUME ~ MemFails PROVE Spec => []WorkersAreKnown
<1>1. IndInv => WorkersAreKnown
  BY DEF IndInv, PoolInv, WorkersAreKnown, LiveIsListed, PoolBound, Has
<1>2. QED BY <1>1, Invariant, PTL

(* No accepted item is lost, doubled or left with a worker that will not   *)
(* see it, if arrayadd() finds its storage.                                *)
THEOREM ItemsAreKeptAlways == ASSUME ~ MemFails PROVE Spec => []ItemsAreKept
<1>1. ASSUME IndInv, NoneLost PROVE ItemsAreKept
  <2>1. ASSUME NEW i \in Items
        PROVE  /\ InQueue(i) # {} => fate[i] = "queued"
               /\ fate[i] \notin {"lost", "twice"}
               /\ fate[i] = "dropped" => Holders(i) = {}
    <3>1. InQueue(i) # {} => Has(queue, i)
      BY DEF InQueue, Has
    <3>2. fate[i] = "dropped" => Holders(i) = {}
      BY ItemAssumption, <1>1 DEF Holders, IndInv, ItemInv, TypeInv, TypeOK
    <3>3. QED BY <1>1, <3>1, <3>2 DEF IndInv, ItemInv, NoneLost
  <2>2. ItemsAccounted
    BY <1>1, <2>1, PlacesCounted DEF ItemsAccounted
  <2>3. GivenIsReceived
    BY <1>1 DEF GivenIsReceived, IndInv, HeldInv, TypeInv, TypeOK
  <2>4. QED BY <2>2, <2>3 DEF ItemsAreKept
<1>2. QED BY <1>1, LostInvariant, PTL

(* The shutdown of the pool gives up only a worker that is in its own      *)
(* function, when 50 tries outlast the library's calls: the dispatcher     *)
(* does not hold the lock while it waits for a worker (#11).               *)
THEOREM StuckIsBusyAlways == ASSUME Outlasts = "calls" PROVE Spec => StuckIsBusy
<1> DEFINE Busy == \A w \in Workers : wstate[w] # "STUCK" /\ wstate'[w] = "STUCK"
                                        => wpc[w] = "func"
<1>1. ASSUME IndInv, [Next]_vars PROVE Busy
  <2>1. CASE ShutGiveUp
    <3>1. lock = "free"
      BY <1>1, <2>1 DEF ShutGiveUp, IndInv, LifeInv, TypeInv, TypeOK
    <3>2. wpc[Cur] = "func" /\ wstate' = [wstate EXCEPT ![Cur] = "STUCK"]
      BY <2>1, <3>1 DEF ShutGiveUp, MayGiveUp
    <3>3. QED BY <1>1, <3>2 DEF IndInv, TypeInv
  <2>2. ASSUME NEW w \in Workers, cthread_worker_del(w) PROVE Busy
    BY <1>1, <2>2 DEF cthread_worker_del, IndInv, TypeInv
  <2>3. CASE dispatch_thread_check
    BY <1>1, <2>2, <2>3, CheckFacts
  <2>4. CASE ShutDone
    BY <1>1, <2>2, <2>4, CurFacts DEF ShutDone
  <2>5. ASSUME NEW w \in Workers, MarkWaiting(w) \/ Receive(w) PROVE Busy
    BY <1>1, <2>5 DEF MarkWaiting, Receive, IndInv, TypeInv
  <2>6. CASE DispatchNext
    BY <1>1, <2>6 DEF DispatchNext, dispatch_work, IndInv, TypeInv
  <2>7. CASE InitAdd \/ dispatch_thread_create \/ dispatch_thread_work
    BY <1>1, <2>7, AddFacts DEF InitAdd, dispatch_thread_create, dispatch_thread_work,
       wvars
  <2>8. CASE wstate' = wstate
    BY <2>8
  <2>9. ASSUME NEW count \in Counts, cthread_manager_init(count) PROVE wstate' = wstate
    BY <2>9 DEF cthread_manager_init, wvars
  <2>10. ASSUME NEW i \in Items, cthread_queue_add(i) PROVE wstate' = wstate
    BY <2>10 DEF cthread_queue_add, wvars
  <2>11. ASSUME NEW w \in Workers,
                CallWait(w) \/ cthread_queue_del(w) \/ PostManager(w) \/ cthread_wait(w)
                \/ ThreadEnds(w) \/ SecondPasses(w)
         PROVE  wstate' = wstate
    BY <2>11 DEF CallWait, cthread_queue_del, PostManager, cthread_wait, ThreadEnds,
       SecondPasses
  <2>12. ASSUME dispatch_thread_init \/ dispatch_thread_timed_wait \/ Yield \/ MarkManager
                \/ TimeIsUp \/ cthread_timed_wait \/ ClearEcb \/ dispatch_thread
                \/ Dispatched \/ dispatch_thread_quiesce \/ QuiesceNext \/ ShutPost
                \/ dispatch_thread_term \/ TermNext \/ cthread_manager_term \/ Join
                \/ JoinStore \/ JoinPost \/ Join2Post \/ Join2End \/ Cleanup
         PROVE  wstate' = wstate
    BY <2>12 DEF dispatch_thread_init, dispatch_thread_timed_wait, Yield, MarkManager,
       TimeIsUp, cthread_timed_wait, ClearEcb, dispatch_thread, Dispatched,
       dispatch_thread_quiesce, QuiesceNext, ShutPost, dispatch_thread_term, TermNext,
       cthread_manager_term, Join, JoinStore, JoinPost, Join2Post, Join2End, Cleanup, wvars
  <2>13. CASE UNCHANGED vars
    BY <2>8, <2>13 DEF vars, wvars
  <2> HIDE DEF Busy
  <2>14. QED
    BY <1>1, <2>1, <2>3, <2>4, <2>5, <2>6, <2>7, <2>8, <2>9, <2>10, <2>11, <2>12, <2>13
       DEF Next, WorkerStep, Dispatcher, TermStep
<1>2. QED
  <2>1. IndInv /\ [Next]_vars => [Busy]_vars
    BY <1>1
  <2>2. QED BY <2>1, Invariant, PTL DEF Spec, StuckIsBusy
=============================================================================
