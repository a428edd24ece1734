------------------------------- MODULE Mutex -------------------------------
(***************************************************************************)
(* The recursive mutexes of <mvs/mutex.h> (src/mvs/mutex) on top of the    *)
(* MVS ENQ service (src/mvs/enq, src/mvs/lock), and what the end of a      *)
(* thread does with the mutexes it still holds (cleanup_thread() in        *)
(* src/mvs/thread/@@ctcrtx.c).                                             *)
(*                                                                         *)
(* A CLIBMUTX is two words, owner and count, that every task reads without *)
(* serialization; only the ENQ named after its address serializes.  Each   *)
(* store is therefore a step of its own.  mtxheld() is one step although   *)
(* it loads two words: a task that is the owner is the only one to store   *)
(* into either word, and for any other task the load of owner decides.     *)
(***************************************************************************)
EXTENDS Integers, Sequences

CONSTANTS
    Tasks,      \* TCB addresses; one is reused when a thread is attached again
    NoTask,     \* the owner value 0
    Mutexes,    \* addresses of CLIBMUTX objects
    NoMutex,    \* no mutex: what a task outside every call works on
    MaxDepth,   \* bound: how often a program locks one mutex recursively
    MemFails    \* TRUE: arrayadd() may find no storage

ASSUME TaskAssumption   == NoTask \notin Tasks
ASSUME MutexAssumption  == NoMutex \notin Mutexes
ASSUME DepthAssumption  == MaxDepth \in Nat \ {0}
ASSUME FailAssumption   == MemFails \in BOOLEAN

VARIABLES
    enq,        \* enq[m]: the task holding the ENQ on m's name, or NoTask
    owner,      \* owner[m], count[m]: the two words of the CLIBMUTX
    count,
    mstate,     \* mstate[m]: "live", "dying" (in mtxfree) or "free" storage
    crtmutx,    \* crtmutx[t]: the task's array of the mutexes it holds
    pc,         \* pc[t]: where task t is
    arg,        \* arg[t]: the mutex of t's current call
    rc,         \* rc[t]: the return code of t's last ENQ
    depth       \* history: depth[t][m], mtxlock/mtxtry calls that took m
                \* minus the mtxunlk calls since

vars == <<enq, owner, count, mstate, crtmutx, pc, arg, rc, depth>>

Labels == {"run", "lk_enq", "lk_owner", "lk_count", "lk_add",
           "uk_list", "uk_owner", "uk_deq", "fr_unlk", "fr_zero",
           "cl_next", "cl_owner", "cl_count", "cl_deq", "cl_done", "ended"}

Init ==
    /\ enq     = [m \in Mutexes |-> NoTask]
    /\ owner   = [m \in Mutexes |-> NoTask]
    /\ count   = [m \in Mutexes |-> 0]
    /\ mstate  = [m \in Mutexes |-> "free"]
    /\ crtmutx = [t \in Tasks |-> <<>>]
    /\ pc      = [t \in Tasks |-> "run"]
    /\ arg     = [t \in Tasks |-> NoMutex]
    /\ rc      = [t \in Tasks |-> 0]
    /\ depth   = [t \in Tasks |-> [m \in Mutexes |-> 0]]

Goto(t, label) == pc' = [pc EXCEPT ![t] = label]

----------------------------------------------------------------------------
(* The dynamic array of ext/array: an item is appended, and deleting one   *)
(* shifts the items after it to the left.                                  *)
arrayadd(a, x) == Append(a, x)

arraydel(a, i) == [j \in 1 .. Len(a) - 1 |-> IF j < i THEN a[j] ELSE a[j + 1]]

InArray(a, x) == \E i \in 1 .. Len(a) : a[i] = x

(* The loop of mtxunlk(): the item is searched from the end and deleted. *)
arraydrop(a, x) ==
    IF InArray(a, x)
    THEN arraydel(a, CHOOSE i \in 1 .. Len(a) :
                        a[i] = x /\ \A j \in i + 1 .. Len(a) : a[j] # x)
    ELSE a

(* mtxheld(): the caller is the owner of a locked mutex. *)
mtxheld(t, m) == count[m] # 0 /\ owner[m] = t

(* mtxavail(): the two words say that nobody has the mutex. *)
mtxavail(m) == count[m] = 0 /\ owner[m] = NoTask

(* What the service ENQ (SVC 56) answers, external: RET=HAVE waits until   *)
(* the resource is free and answers 8 to the task that has it already.     *)
EnqHave(t, m) ==
    /\ enq[m] \in {NoTask, t}
    /\ enq' = [enq EXCEPT ![m] = t]
    /\ rc'  = [rc  EXCEPT ![t] = IF enq[m] = t THEN 8 ELSE 0]

(* DEQ (SVC 48), external: releases the resource if the task has it. *)
Deq(t, m) == enq' = IF enq[m] = t THEN [enq EXCEPT ![m] = NoTask] ELSE enq

----------------------------------------------------------------------------
(* mtxnew(): calloc() and mtxinit().  When there is no storage it returns  *)
(* NULL and nothing changes.                                               *)
mtxnew(t, m) ==
    /\ pc[t] = "run" /\ mstate[m] = "free"
    /\ mstate' = [mstate EXCEPT ![m] = "live"]
    /\ owner'  = [owner EXCEPT ![m] = NoTask]
    /\ count'  = [count EXCEPT ![m] = 0]
    /\ UNCHANGED <<enq, crtmutx, pc, arg, rc, depth>>

(* The bound: a program nests MaxDepth calls.  (count is larger only when  *)
(* an ended task left a stale count behind.)                               *)
MayLock(t, m) == depth[t][m] < MaxDepth /\ count[m] <= MaxDepth

(* mtxlock(): the call, which first waits for the ENQ. *)
mtxlock(t, m) ==
    /\ pc[t] = "run" /\ mstate[m] = "live"
    /\ MayLock(t, m)
    /\ arg' = [arg EXCEPT ![t] = m]
    /\ Goto(t, "lk_enq")
    /\ UNCHANGED <<enq, owner, count, mstate, crtmutx, rc, depth>>

(* Mutant: an ENQ that is not granted to the task that already has it. *)
LockEnq_NotRecursive(t) ==
    /\ pc[t] = "lk_enq" /\ enq[arg[t]] = NoTask
    /\ EnqHave(t, arg[t])
    /\ Goto(t, "lk_owner")
    /\ UNCHANGED <<owner, count, mstate, crtmutx, arg, depth>>

LockEnq(t) ==
    /\ pc[t] = "lk_enq"
    /\ EnqHave(t, arg[t])
    /\ Goto(t, "lk_owner")
    /\ UNCHANGED <<owner, count, mstate, crtmutx, arg, depth>>

(* Mutant: rc 4 is taken for success. *)
mtxtry_Rc4(t, m) ==
    /\ pc[t] = "run" /\ mstate[m] = "live"
    /\ MayLock(t, m)
    /\ EnqHave(t, m) \/ (enq[m] \notin {NoTask, t} /\ UNCHANGED <<enq, rc>>)
    /\ arg' = [arg EXCEPT ![t] = m]
    /\ Goto(t, "lk_owner")
    /\ UNCHANGED <<owner, count, mstate, crtmutx, depth>>

(* mtxtry(): ENQ RET=USE answers at once; 4 (another task has it) changes  *)
(* nothing.                                                                *)
mtxtry(t, m) ==
    /\ pc[t] = "run" /\ mstate[m] = "live"
    /\ MayLock(t, m)
    /\ EnqHave(t, m)
    /\ arg' = [arg EXCEPT ![t] = m]
    /\ Goto(t, "lk_owner")
    /\ UNCHANGED <<owner, count, mstate, crtmutx, depth>>

(* The common rest of mtxlock() and mtxtry(). *)
LockOwner(t) ==
    /\ pc[t] = "lk_owner"
    /\ owner' = [owner EXCEPT ![arg[t]] = t]
    /\ Goto(t, "lk_count")
    /\ UNCHANGED <<enq, count, mstate, crtmutx, arg, rc, depth>>

(* Mutant: a lock the task already has is not counted. *)
LockCount_NotRecursive(t) ==
    /\ pc[t] = "lk_count"
    /\ count' = [count EXCEPT ![arg[t]] = 1]
    /\ depth' = [depth EXCEPT ![t][arg[t]] = @ + 1]
    /\ Goto(t, "lk_add")
    /\ UNCHANGED <<enq, owner, mstate, crtmutx, arg, rc>>

LockCount(t) ==
    /\ pc[t] = "lk_count"
    /\ count' = [count EXCEPT ![arg[t]] = @ + 1]
    /\ depth' = [depth EXCEPT ![t][arg[t]] = @ + 1]
    /\ Goto(t, "lk_add")
    /\ UNCHANGED <<enq, owner, mstate, crtmutx, arg, rc>>

(* Mutant: the mutex never joins the array. *)
LockAdd_NoAdd(t) ==
    /\ pc[t] = "lk_add"
    /\ arg' = [arg EXCEPT ![t] = NoMutex]
    /\ Goto(t, "run")
    /\ UNCHANGED <<enq, owner, count, mstate, crtmutx, rc, depth>>

(* The mutex joins the task's array when the ENQ was new (rc 0).  Nobody   *)
(* looks at what arrayadd() returns.                                       *)
LockAdd(t) ==
    /\ pc[t] = "lk_add"
    /\ \/ /\ rc[t] = 0
          /\ crtmutx' = [crtmutx EXCEPT ![t] = arrayadd(@, arg[t])]
       \/ /\ rc[t] # 0 \/ MemFails
          /\ UNCHANGED crtmutx
    /\ arg' = [arg EXCEPT ![t] = NoMutex]
    /\ Goto(t, "run")
    /\ UNCHANGED <<enq, owner, count, mstate, rc, depth>>

----------------------------------------------------------------------------
(* The entry of mtxunlk(): the count goes down, and at 0 the mutex is      *)
(* really released.  A caller that does not hold the mutex changes nothing.*)
Uncount(t, m) ==
    /\ mtxheld(t, m)
    /\ count' = [count EXCEPT ![m] = @ - 1]

(* Mutant: the first unlock releases, whatever the count. *)
mtxunlk_AtOnce(t, m) ==
    /\ pc[t] = "run" /\ mstate[m] = "live"
    /\ Uncount(t, m)
    /\ depth' = [depth EXCEPT ![t][m] = IF @ = 0 THEN 0 ELSE @ - 1]
    /\ arg' = [arg EXCEPT ![t] = m] /\ Goto(t, "uk_list")
    /\ UNCHANGED <<enq, owner, mstate, crtmutx, rc>>

mtxunlk(t, m) ==
    /\ pc[t] = "run" /\ mstate[m] = "live"
    /\ Uncount(t, m)
    /\ depth' = [depth EXCEPT ![t][m] = IF @ = 0 THEN 0 ELSE @ - 1]
    /\ IF count[m] = 1
       THEN arg' = [arg EXCEPT ![t] = m] /\ Goto(t, "uk_list")
       ELSE UNCHANGED <<arg, pc>>
    /\ UNCHANGED <<enq, owner, mstate, crtmutx, rc>>

(* The mutex leaves the task's array. *)
UnlockList(t) ==
    /\ pc[t] = "uk_list"
    /\ crtmutx' = [crtmutx EXCEPT ![t] = arraydrop(@, arg[t])]
    /\ Goto(t, "uk_owner")
    /\ UNCHANGED <<enq, owner, count, mstate, arg, rc, depth>>

UnlockOwner(t) ==
    /\ pc[t] = "uk_owner"
    /\ owner' = [owner EXCEPT ![arg[t]] = NoTask]
    /\ Goto(t, "uk_deq")
    /\ UNCHANGED <<enq, count, mstate, crtmutx, arg, rc, depth>>

(* The DEQ, and the return to the program or to mtxfree(). *)
UnlockDeq(t) ==
    /\ pc[t] = "uk_deq"
    /\ Deq(t, arg[t])
    /\ IF mstate[arg[t]] = "dying"
       THEN Goto(t, "fr_zero") /\ UNCHANGED arg
       ELSE Goto(t, "run") /\ arg' = [arg EXCEPT ![t] = NoMutex]
    /\ UNCHANGED <<owner, count, mstate, crtmutx, rc, depth>>

----------------------------------------------------------------------------
(* mtxfree().  The program frees a mutex only when no other task holds it  *)
(* or is in a call for it, and does not use it again ("dying").            *)
mtxfree(t, m) ==
    /\ pc[t] = "run" /\ mstate[m] = "live"
    /\ enq[m] \in {NoTask, t}
    /\ \A u \in Tasks : arg[u] # m
    /\ mstate' = [mstate EXCEPT ![m] = "dying"]
    /\ arg'    = [arg EXCEPT ![t] = m]
    /\ IF mtxheld(t, m)
       THEN count' = [count EXCEPT ![m] = 1] /\ Goto(t, "fr_unlk")
       ELSE UNCHANGED count /\ Goto(t, "fr_zero")
    /\ UNCHANGED <<enq, owner, crtmutx, rc, depth>>

FreeUnlock(t) ==
    /\ pc[t] = "fr_unlk"
    /\ Uncount(t, arg[t])
    /\ depth' = [depth EXCEPT ![t][arg[t]] = 0]
    /\ Goto(t, "uk_list")
    /\ UNCHANGED <<enq, owner, mstate, crtmutx, arg, rc>>

FreeZero(t) ==
    /\ pc[t] = "fr_zero"
    /\ owner'  = [owner EXCEPT ![arg[t]] = NoTask]
    /\ count'  = [count EXCEPT ![arg[t]] = 0]
    /\ mstate' = [mstate EXCEPT ![arg[t]] = "free"]
    /\ arg'    = [arg EXCEPT ![t] = NoMutex]
    /\ Goto(t, "run")
    /\ UNCHANGED <<enq, crtmutx, rc, depth>>

----------------------------------------------------------------------------
(* The thread function returns, or calls cthread_exit(): @@CTEXIT calls    *)
(* __ctclup(), and cleanup_thread() takes the mutexes off the array from   *)
(* the end.                                                                *)
Return(t) ==
    /\ pc[t] = "run"
    /\ Goto(t, "cl_next")
    /\ UNCHANGED <<enq, owner, count, mstate, crtmutx, arg, rc, depth>>

CleanNext(t) ==
    /\ pc[t] = "cl_next" /\ crtmutx[t] # <<>>
    /\ arg' = [arg EXCEPT ![t] = crtmutx[t][Len(crtmutx[t])]]
    /\ crtmutx' = [crtmutx EXCEPT ![t] = arraydel(@, Len(@))]
    /\ Goto(t, "cl_owner")
    /\ UNCHANGED <<enq, owner, count, mstate, rc, depth>>

(* cleanup_mutex(): only a mutex this task holds is released. *)
CleanOwner(t) ==
    /\ pc[t] = "cl_owner"
    /\ IF mtxheld(t, arg[t])
       THEN /\ owner' = [owner EXCEPT ![arg[t]] = NoTask]
            /\ Goto(t, "cl_count") /\ UNCHANGED arg
       ELSE /\ Goto(t, "cl_next") /\ UNCHANGED owner
            /\ arg' = [arg EXCEPT ![t] = NoMutex]
    /\ UNCHANGED <<enq, count, mstate, crtmutx, rc, depth>>

CleanCount(t) ==
    /\ pc[t] = "cl_count"
    /\ count' = [count EXCEPT ![arg[t]] = 0]
    /\ depth' = [depth EXCEPT ![t][arg[t]] = 0]
    /\ Goto(t, "cl_deq")
    /\ UNCHANGED <<enq, owner, mstate, crtmutx, arg, rc>>

CleanDeq(t) ==
    /\ pc[t] = "cl_deq"
    /\ Deq(t, arg[t])
    /\ arg' = [arg EXCEPT ![t] = NoMutex]
    /\ Goto(t, "cl_next")
    /\ UNCHANGED <<owner, count, mstate, crtmutx, rc, depth>>

(* The task ends; MVS takes back every ENQ it still has (external). *)
TaskEnd(t) ==
    /\ pc[t] = "cl_next" /\ crtmutx[t] = <<>>
    /\ enq'   = [m \in Mutexes |-> IF enq[m] = t THEN NoTask ELSE enq[m]]
    /\ depth' = [depth EXCEPT ![t] = [m \in Mutexes |-> 0]]
    /\ Goto(t, "ended")
    /\ UNCHANGED <<owner, count, mstate, crtmutx, arg, rc>>

(* A new thread is attached and MVS gives it the same TCB address. *)
Attach(t) ==
    /\ pc[t] = "ended"
    /\ Goto(t, "run")
    /\ UNCHANGED <<enq, owner, count, mstate, crtmutx, arg, rc, depth>>

----------------------------------------------------------------------------
(* The steps inside a call or inside the end of a thread. *)
Inside(t) ==
    \/ LockEnq(t) \/ LockOwner(t) \/ LockCount(t) \/ LockAdd(t)
    \/ UnlockList(t) \/ UnlockOwner(t) \/ UnlockDeq(t)
    \/ FreeUnlock(t) \/ FreeZero(t)
    \/ CleanNext(t) \/ CleanOwner(t) \/ CleanCount(t) \/ CleanDeq(t)
    \/ TaskEnd(t)

Call(t, m) == mtxnew(t, m) \/ mtxlock(t, m) \/ mtxtry(t, m) \/ mtxunlk(t, m)
              \/ mtxfree(t, m)

Next ==
    \E t \in Tasks :
        \/ Inside(t)
        \/ \E m \in Mutexes : Call(t, m)
        \/ Return(t)
        \/ Attach(t)

Spec == Init /\ [][Next]_vars

(* Fairness.  A dispatched task goes on; ENQ grants in the order of the    *)
(* requests, so a request is not overtaken for ever; and a thread function *)
(* returns in the end.                                                     *)
Fairness ==
    \A t \in Tasks :
        /\ WF_vars(Inside(t))
        /\ SF_vars(LockEnq(t))
        /\ SF_vars(Return(t))

FairSpec == Spec /\ Fairness
----------------------------------------------------------------------------
TypeOK ==
    /\ enq     \in [Mutexes -> Tasks \cup {NoTask}]
    /\ owner   \in [Mutexes -> Tasks \cup {NoTask}]
    /\ count   \in [Mutexes -> Nat]
    /\ mstate  \in [Mutexes -> {"live", "dying", "free"}]
    /\ crtmutx \in [Tasks -> Seq(Mutexes)]
    /\ pc      \in [Tasks -> Labels]
    /\ arg     \in [Tasks -> Mutexes \cup {NoMutex}]
    /\ rc      \in [Tasks -> {0, 8}]
    /\ depth   \in [Tasks -> [Mutexes -> Nat]]

(* A task that mtxheld() calls the holder has the ENQ, in every state, so  *)
(* in the middle of other tasks' calls and after a TCB address was reused: *)
(* the unserialized test never lets a task into mtxunlk()'s release, or    *)
(* into mtxclup(), for a mutex another task owns.                          *)
HeldIsSerialized ==
    \A t \in Tasks, m \in Mutexes : mtxheld(t, m) => enq[m] = t

(* Between its calls a task has the ENQ of exactly the mutexes it locked   *)
(* more often than it unlocked, and count is the difference: the mutex is  *)
(* free again after as many mtxunlk() as mtxlock() and mtxtry() calls.     *)
CountIsDepth ==
    \A t \in Tasks, m \in Mutexes :
        pc[t] = "run" =>
            /\ enq[m] = t <=> depth[t][m] > 0
            /\ depth[t][m] > 0 => mtxheld(t, m) /\ count[m] = depth[t][m]

(* Between its calls the mutexes a task holds are in its crtmutx array,    *)
(* each once, and no other mutex is: the cleanup at thread end finds all   *)
(* of them and none that was released, or freed, before.                   *)
ListIsExact ==
    \A t \in Tasks :
        pc[t] = "run" =>
            /\ \A m \in Mutexes : mtxheld(t, m) <=> InArray(crtmutx[t], m)
            /\ \A i, j \in 1 .. Len(crtmutx[t]) :
                  crtmutx[t][i] = crtmutx[t][j] => i = j

(* Storage that mtxfree() returned is behind no ENQ, in no task's array    *)
(* and has both words zero (#403).                                         *)
FreedIsClean ==
    \A m \in Mutexes :
        mstate[m] = "free" =>
            /\ mtxavail(m) /\ enq[m] = NoTask
            /\ \A t \in Tasks : ~ InArray(crtmutx[t], m)

(* No mutex names a task that has ended as its owner: "When a thread ends  *)
(* while it holds mutexes, the library releases them".                     *)
EndedHoldsNothing ==
    \A t \in Tasks, m \in Mutexes : pc[t] = "ended" => owner[m] # t

(* What mtxlock(), mtxtry(), mtxunlk(), mtxfree() and the cleanup write    *)
(* down of a mutex in three places - the two words, the ENQ queue and the  *)
(* lists of the tasks - agrees whenever no call is under way.              *)
BooksAreExact ==
    TypeOK /\ CountIsDepth /\ ListIsExact /\ FreedIsClean /\ EndedHoldsNothing

(* Two tasks are never between a lock and its unlock of the same mutex. *)
MutualExclusion ==
    \A t, u \in Tasks, m \in Mutexes :
        depth[t][m] > 0 /\ depth[u][m] > 0 => t = u

(* The two words, seen by tasks that never look at the ENQ, change as the  *)
(* abstract recursive mutex does, whatever the interleaving.  A mutex in   *)
(* mtxfree() is given up by the program.                                   *)
absHolder == [m \in Mutexes |->
    IF count[m] = 0 \/ mstate[m] # "live" THEN NoTask ELSE owner[m]]

absLevel == [m \in Mutexes |->
    IF owner[m] = NoTask \/ mstate[m] # "live" THEN 0 ELSE count[m]]

Abstract == INSTANCE RecursiveMutex WITH holder <- absHolder, level <- absLevel

ImplementsRecursiveMutex == Abstract!Spec

(* A task that waits in mtxlock() gets the mutex. *)
WaiterGetsMutex ==
    \A t \in Tasks : pc[t] = "lk_enq" ~> pc[t] = "lk_add"
=============================================================================
