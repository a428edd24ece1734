------------------------------ MODULE Thread -------------------------------
(***************************************************************************)
(* The threads of <mvs/thread.h> (src/mvs/thread): creating a subtask with *)
(* ATTACH, the driver CTHREAD it runs in, waiting for its end, detaching   *)
(* it and deleting its handle, and the table of handles in the GRT with    *)
(* which cthread_find() and cthread_self() look up a task.                 *)
(*                                                                         *)
(* A handle (CTHDTASK) is one heap block that also holds the stack of the  *)
(* subtask.  TCB addresses and heap blocks are reused.  The sections under *)
(* lock(&grt->grtcthrd) are one step each; the words of a handle are not   *)
(* locked, so every store to them is a step of its own.                    *)
(***************************************************************************)
EXTENDS Integers, Sequences

CONSTANTS
    Tcbs,       \* TCB addresses
    Main,       \* the TCB of the main task
    Handles,    \* heap addresses of CTHDTASK blocks
    None,       \* NULL, for a TCB and for a handle
    Sizes,      \* stack sizes programs ask for
    Rcs         \* values thread functions return

ASSUME TcbAssumption    == Main \in Tcbs /\ None \notin Tcbs
ASSUME HandleAssumption == None \notin Handles
ASSUME SizeAssumption   == Sizes \subseteq Nat
ASSUME RcAssumption     == Rcs \subseteq Int /\ 0 \in Rcs

VARIABLES
    grtcthrd,   \* the table of handles of the GRT
    cthd,       \* cthd[h]: the handle at h; its storage may be free
    tcb,        \* tcb[u]: MVS's view of the task: "free", "running", "ended"
    mother,     \* mother[u]: the task that attached u
    mine,       \* mine[u]: the handle CTHREAD was given (R11), and for a task
                \* not attached by this code the one created for it
    pc,         \* pc[u]: where task u is
    local       \* local[u]: the variables of the call u is in

vars == <<grtcthrd, cthd, tcb, mother, mine, pc, local>>

Labels == {"user", "newowner", "newtask", "attach", "store", "failed",
           "unlist", "detach", "detached", "free", "start", "exit"}

(* The variables of cthread_create_ex() (owner, task, and the TCB address  *)
(* ATTACH returns in R1) and of cthread_delete() and cthread_detach().     *)
NoLocal == [owner |-> None, task |-> None, r1 |-> None, del |-> FALSE]

(* A zeroed handle, and storage that is not allocated.  held is the task   *)
(* whose program has the handle; res, a history variable, is the value the *)
(* thread function has returned (None so far).                           *)
Calloc  == [alloc |-> TRUE, tcb |-> None, owntcb |-> None, posted |-> FALSE,
            rc |-> 0, stack |-> 0, held |-> None, res |-> None]
NoBlock == [Calloc EXCEPT !.alloc = FALSE]

Init ==
    /\ grtcthrd = <<>>
    /\ cthd     = [h \in Handles |-> NoBlock]
    /\ tcb      = [u \in Tcbs |-> IF u = Main THEN "running" ELSE "free"]
    /\ mother   = [u \in Tcbs |-> None]
    /\ mine     = [u \in Tcbs |-> None]
    /\ pc       = [u \in Tcbs |-> "user"]
    /\ local    = [u \in Tcbs |-> NoLocal]

Goto(u, label) == pc' = [pc EXCEPT ![u] = label]

(* Task u runs the instruction at label. *)
At(u, label) == tcb[u] = "running" /\ pc[u] = label

----------------------------------------------------------------------------
arrayadd(a, x) == Append(a, x)

arraydel(a, i) == [j \in 1 .. Len(a) - 1 |-> IF j < i THEN a[j] ELSE a[j + 1]]

Places(h) == {i \in 1 .. Len(grtcthrd) : grtcthrd[i] = h}

(* cthread_find(): the first handle of the table with this TCB address. *)
cthread_find(u) ==
    LET found == {i \in 1 .. Len(grtcthrd) : cthd[grtcthrd[i]].tcb = u}
    IN  IF found = {} THEN None
        ELSE grtcthrd[CHOOSE i \in found : \A j \in found : i <= j]

(* The stack newthread() allocates for a size, and whether it refuses it. *)
NewStack(size) ==
    IF size = 0 THEN 0 ELSE
    IF size < 1024 THEN 1024 ELSE ((size + 7) \div 8) * 8
TooLarge(size) == size > 16777200

(* cthread_create_ex() turns 0 into the default. *)
StackSize(size) == IF size = 0 THEN 65536 ELSE size

(* ended(): the ATTACH ECB is posted or, as cthread_wait() may have        *)
(* cleared it, the TCB shows the task terminated (TCBFC).                  *)
ended(h) ==
    \/ cthd[h].posted
    \/ cthd[h].tcb # None /\ tcb[cthd[h].tcb] = "ended"

(* The tests at the entry of cthread_delete(). *)
Deletable(h) == cthd[h].tcb = None \/ ended(h)

----------------------------------------------------------------------------
(* cthread_create_ex(): the owner's handle is looked up. *)
cthread_create_ex(u) ==
    LET owner == cthread_find(u) IN
    /\ At(u, "user")
    /\ local' = [local EXCEPT ![u] = [NoLocal EXCEPT !.owner = owner]]
    /\ Goto(u, IF owner = None THEN "newowner" ELSE "newtask")
    /\ UNCHANGED <<grtcthrd, cthd, tcb, mother, mine>>

(* newthread(): a zeroed block, entered in the table. *)
newthread(h, t, own, size) ==
    /\ ~cthd[h].alloc /\ ~TooLarge(size)
    /\ cthd' = [cthd EXCEPT ![h] = [Calloc EXCEPT !.tcb = t, !.owntcb = own,
                                                  !.stack = NewStack(size)]]
    /\ grtcthrd' = arrayadd(grtcthrd, h)

(* The owner's handle, which has no stack. *)
NewOwner(u) ==
    /\ At(u, "newowner")
    /\ \E h \in Handles :
        /\ newthread(h, u, None, 0)
        /\ local' = [local EXCEPT ![u].owner = h]
        /\ mine'  = [mine EXCEPT ![u] = h]
    /\ Goto(u, "newtask")
    /\ UNCHANGED <<tcb, mother>>

(* The handle of the new thread; its TCB address is not known yet. *)
NewTask(u) ==
    /\ At(u, "newtask")
    /\ \E h \in Handles, size \in Sizes :
        /\ newthread(h, None, cthd[local[u].owner].tcb, StackSize(size))
        /\ local' = [local EXCEPT ![u].task = h]
    /\ Goto(u, "attach")
    /\ UNCHANGED <<tcb, mother, mine>>

(* newthread() finds no storage for the block or for the table, or the     *)
(* size is refused: NULL is returned.                                      *)
NoThread(u) ==
    /\ At(u, "newowner") \/ At(u, "newtask")
    /\ local' = [local EXCEPT ![u] = NoLocal]
    /\ Goto(u, "user")
    /\ UNCHANGED <<grtcthrd, cthd, tcb, mother, mine>>

(* attach(): the subtask exists, and runs, before its TCB address, which   *)
(* may have been another task's before, is stored in the handle.           *)
attach(u) ==
    /\ At(u, "attach")
    /\ \E t \in Tcbs :
        /\ tcb[t] = "free"
        /\ tcb'    = [tcb EXCEPT ![t] = "running"]
        /\ mother' = [mother EXCEPT ![t] = u]
        /\ mine'   = [mine EXCEPT ![t] = local[u].task]
        /\ pc'     = [pc EXCEPT ![t] = "start", ![u] = "store"]
        /\ local'  = [local EXCEPT ![u].r1 = t]
    /\ UNCHANGED <<grtcthrd, cthd>>

(* ATTACH answers a nonzero return code or abends under try(). *)
AttachFails(u) ==
    /\ At(u, "attach")
    /\ Goto(u, "failed")
    /\ UNCHANGED <<grtcthrd, cthd, tcb, mother, mine, local>>

(* The program gets the handle. *)
Created(u) ==
    /\ local' = [local EXCEPT ![u] = NoLocal]
    /\ Goto(u, "user")

(* Mutant: ATTACH's return code goes to task->rc, as before #465. *)
StoreTcb_Rc(u) ==
    /\ At(u, "store")
    /\ cthd' = [cthd EXCEPT ![local[u].task].tcb = local[u].r1,
                            ![local[u].task].rc = 0,
                            ![local[u].task].held = u]
    /\ Created(u)
    /\ UNCHANGED <<grtcthrd, tcb, mother, mine>>

(* Mutant: the return code is read back from task->rc, as before #465: a   *)
(* thread that has already returned nonzero looks like a failed ATTACH.    *)
StoreTcb_ReadBack(u) ==
    /\ At(u, "store")
    /\ IF cthd[local[u].task].rc # 0
       THEN Goto(u, "failed") /\ UNCHANGED <<cthd, local>>
       ELSE /\ cthd' = [cthd EXCEPT ![local[u].task].tcb = local[u].r1,
                                    ![local[u].task].held = u]
            /\ Created(u)
    /\ UNCHANGED <<grtcthrd, tcb, mother, mine>>

(* attach() returns 0: ATTACH's results are stored, ATTACH's return code   *)
(* in a variable of its own.                                               *)
StoreTcb(u) ==
    /\ At(u, "store")
    /\ cthd' = [cthd EXCEPT ![local[u].task].tcb = local[u].r1,
                            ![local[u].task].held = u]
    /\ Created(u)
    /\ UNCHANGED <<grtcthrd, tcb, mother, mine>>

(* The ATTACH failed: the handle goes through cthread_delete(). *)
CreateFailed(u) ==
    /\ At(u, "failed")
    /\ cthd' = [cthd EXCEPT ![local[u].task].tcb = None]
    /\ local' = [local EXCEPT ![u].del = TRUE]
    /\ Goto(u, "unlist")
    /\ UNCHANGED <<grtcthrd, tcb, mother, mine>>

----------------------------------------------------------------------------
(* cthread_wait(&task->termecb): WAIT, then the ECB is cleared. *)
cthread_wait(u, h) ==
    /\ At(u, "user") /\ cthd[h].held = u
    /\ cthd[h].posted
    /\ cthd' = [cthd EXCEPT ![h].posted = FALSE]
    /\ UNCHANGED <<grtcthrd, tcb, mother, mine, pc, local>>

(* cthread_delete() of a thread that has ended.  Of any other it changes   *)
(* nothing.                                                                *)
cthread_delete(u, h) ==
    /\ At(u, "user") /\ cthd[h].held = u
    /\ Deletable(h)
    /\ local' = [local EXCEPT ![u] = [NoLocal EXCEPT !.task = h, !.del = TRUE]]
    /\ Goto(u, "unlist")
    /\ UNCHANGED <<grtcthrd, cthd, tcb, mother, mine>>

(* cthread_detach() called by the program; of a thread that has not ended, *)
(* or is detached, it changes nothing.                                     *)
cthread_detach(u, h) ==
    /\ At(u, "user") /\ cthd[h].held = u
    /\ cthd[h].tcb # None /\ ended(h)
    /\ local' = [local EXCEPT ![u] = [NoLocal EXCEPT !.task = h]]
    /\ Goto(u, "detach")
    /\ UNCHANGED <<grtcthrd, cthd, tcb, mother, mine>>

(* Mutant: the handle is searched past the end of the table. *)
Unlist_Stays(u) ==
    /\ At(u, "unlist")
    /\ Goto(u, "detach")
    /\ UNCHANGED <<grtcthrd, cthd, tcb, mother, mine, local>>

(* cthread_delete(): the handle leaves the table ... *)
Unlist(u) ==
    /\ At(u, "unlist")
    /\ grtcthrd' =
        LET at == Places(local[u].task)
        IN  IF at = {} THEN grtcthrd
            ELSE arraydel(grtcthrd, CHOOSE i \in at : \A j \in at : i <= j)
    /\ Goto(u, "detach")
    /\ UNCHANGED <<cthd, tcb, mother, mine, local>>

(* cthread_detach() returns, to cthread_delete() or to the program. *)
DetachReturns(u) ==
    /\ Goto(u, IF local[u].del THEN "free" ELSE "user")
    /\ local' = IF local[u].del THEN local ELSE [local EXCEPT ![u] = NoLocal]

(* ... before cthread_detach(): nothing to do for a handle without a TCB.  *)
NoDetach(u) ==
    /\ At(u, "detach")
    /\ cthd[local[u].task].tcb = None \/ ~ended(local[u].task)
    /\ DetachReturns(u)
    /\ UNCHANGED <<grtcthrd, cthd, tcb, mother, mine>>

(* detach(): MVS frees the TCB, whose address a new task may get ... *)
detach(u) ==
    LET t == cthd[local[u].task].tcb IN
    /\ At(u, "detach")
    /\ t # None /\ ended(local[u].task)
    /\ tcb'    = [tcb EXCEPT ![t] = "free"]
    /\ mother' = [mother EXCEPT ![t] = None]
    /\ mine'   = [mine EXCEPT ![t] = None]
    /\ Goto(u, "detached")
    /\ UNCHANGED <<grtcthrd, cthd, local>>

(* ... and then the handle's TCB address is cleared. *)
Detached(u) ==
    /\ At(u, "detached")
    /\ cthd' = [cthd EXCEPT ![local[u].task].tcb = None]
    /\ DetachReturns(u)
    /\ UNCHANGED <<grtcthrd, tcb, mother, mine>>

(* cthread_delete(): free() gives the handle and the stack in it back. *)
Free(u) ==
    /\ At(u, "free")
    /\ cthd'  = [cthd EXCEPT ![local[u].task] = NoBlock]
    /\ local' = [local EXCEPT ![u] = NoLocal]
    /\ Goto(u, "user")
    /\ UNCHANGED <<grtcthrd, tcb, mother, mine>>

----------------------------------------------------------------------------
(* CTHREAD: the subtask publishes its own TCB address and gets a CRT. *)
CTHREAD(u) ==
    /\ At(u, "start")
    /\ cthd' = [cthd EXCEPT ![mine[u]].tcb = u]
    /\ Goto(u, "user")
    /\ UNCHANGED <<grtcthrd, tcb, mother, mine, local>>

(* The thread function returns or calls cthread_exit(): @@CTEXIT stores    *)
(* the return code.  A program's thread ends only when it has no subtasks  *)
(* left (MVS would end it abnormally, A03).                                *)
CTEXIT(u, r) ==
    /\ u # Main /\ At(u, "user")
    /\ \A t \in Tcbs : mother[t] # u
    /\ cthd' = [cthd EXCEPT ![mine[u]].rc = r, ![mine[u]].res = r]
    /\ Goto(u, "exit")
    /\ UNCHANGED <<grtcthrd, tcb, mother, mine, local>>

(* The task ends: MVS sets TCBFC and posts the ATTACH ECB.  A thread that  *)
(* abends, in CTHREAD for want of a CRT (801) or in its function, gets     *)
(* here without @@CTEXIT.  The handles it still has are nobody's then.     *)
TaskEnds(u) ==
    /\ u # Main
    /\ At(u, "exit") \/ At(u, "user")
    /\ \A t \in Tcbs : mother[t] # u
    /\ tcb'  = [tcb EXCEPT ![u] = "ended"]
    /\ cthd' = [h \in Handles |->
                    [cthd[h] EXCEPT !.posted = @ \/ h = mine[u],
                                    !.held = IF @ = u THEN None ELSE @]]
    /\ UNCHANGED <<grtcthrd, mother, mine, pc, local>>

----------------------------------------------------------------------------
Step(u) ==
    \/ cthread_create_ex(u)
    \/ NewOwner(u)
    \/ NewTask(u)
    \/ NoThread(u)
    \/ attach(u)
    \/ AttachFails(u)
    \/ StoreTcb(u)
    \/ CreateFailed(u)
    \/ Unlist(u)
    \/ NoDetach(u)
    \/ detach(u)
    \/ Detached(u)
    \/ Free(u)
    \/ CTHREAD(u)
    \/ TaskEnds(u)
    \/ \E r \in Rcs : CTEXIT(u, r)
    \/ \E h \in Handles :
        \/ cthread_wait(u, h)
        \/ cthread_delete(u, h)
        \/ cthread_detach(u, h)

Next == \E u \in Tcbs : Step(u)

Spec == Init /\ [][Next]_vars

----------------------------------------------------------------------------
(* Properties. *)

TcbOrNone    == Tcbs \cup {None}
HandleOrNone == Handles \cup {None}

Blocks ==
    [alloc : BOOLEAN, tcb : TcbOrNone, owntcb : TcbOrNone, posted : BOOLEAN,
     rc : Rcs, stack : Nat, held : TcbOrNone, res : Rcs \cup {None}]

Locals ==
    [owner : HandleOrNone, task : HandleOrNone, r1 : TcbOrNone, del : BOOLEAN]

(* Every variable holds a value of its kind. *)
TypeOK ==
    /\ grtcthrd \in Seq(Handles)
    /\ cthd   \in [Handles -> Blocks]
    /\ tcb    \in [Tcbs -> {"free", "running", "ended"}]
    /\ mother \in [Tcbs -> TcbOrNone]
    /\ mine   \in [Tcbs -> HandleOrNone]
    /\ pc     \in [Tcbs -> Labels]
    /\ local  \in [Tcbs -> Locals]

(* cthread_delete() and a failed cthread_create_ex() free a handle only    *)
(* when no subtask runs on the stack inside it: not one that has not ended *)
(* and not one that has outrun the stores of ATTACH's results (#11, #465). *)
StackInUse ==
    \A u \in Tcbs : tcb[u] = "running" /\ mine[u] # None
                        => cthd[mine[u]].alloc

(* The value a thread function returned is in the handle from then on: no  *)
(* later store of cthread_create_ex() or cthread_detach() hides it (#403,  *)
(* #465).                                                                  *)
ReturnKept ==
    \A h \in Handles : cthd[h].alloc /\ cthd[h].res # None
                            => cthd[h].rc = cthd[h].res

(* The table of the GRT holds every handle once, except one on its way     *)
(* through cthread_delete(), and no freed storage for cthread_find() to    *)
(* read.                                                                   *)
Leaving == {local[u].task : u \in {v \in Tcbs :
                tcb[v] = "running" /\ local[v].del /\ pc[v] # "unlist"}}
TableExact ==
    /\ \A i, j \in 1 .. Len(grtcthrd) : grtcthrd[i] = grtcthrd[j] => i = j
    /\ {grtcthrd[i] : i \in 1 .. Len(grtcthrd)}
            = {h \in Handles : cthd[h].alloc} \ Leaving

(* The end of a thread is seen by cthread_delete() and cthread_detach(),   *)
(* also after cthread_wait() cleared the ECB, and nothing else is taken    *)
(* for one (#431).                                                         *)
EndIsSeen ==
    \A u \in Tcbs : LET h == mine[u] IN
        u # Main /\ h # None /\ cthd[h].held # None
            => (ended(h) <=> tcb[u] = "ended")

(* What another task learns of a thread's end is true and stays so: that   *)
(* it ended, and what it returned, whichever of the two tasks stores last. *)
EndIsTold == ReturnKept /\ EndIsSeen

(* In every thread cthread_self() finds the handle of that thread from the *)
(* start of its function on, and in the main task the one created for it:  *)
(* the table never has an older handle with the same TCB in front.  The    *)
(* exception is a cthread_detach() of a listed handle between DETACH and   *)
(* the store of NULL behind it, when a new thread can have the TCB.        *)
Detaching(u) ==
    \E v \in Tcbs : pc[v] = "detached" /\ ~local[v].del /\ cthd[local[v].task].tcb = u
SelfIsOwn ==
    \A u \in Tcbs : tcb[u] = "running" /\ pc[u] # "start" /\ ~Detaching(u)
                        => cthread_find(u) = mine[u]

(* The table and the threads agree: each running thread is found under its *)
(* own TCB address, and nothing is in the table that is not a live handle. *)
HandlesAreExact == TableExact /\ SelfIsOwn
=============================================================================
