---------------------------- MODULE ThreadProofs ----------------------------
(***************************************************************************)
(* The safety properties of Thread for any number of tasks and handles,    *)
(* any stack sizes and return codes.                                       *)
(***************************************************************************)
EXTENDS Thread, ArrayFacts

(* The inductive invariant.  A handle is tied to its task three ways: by   *)
(* the register the task was started with (mine), by the TCB address       *)
(* stored in the handle, and by the call that creates or deletes it.       *)

(* Where a call of u works on the handle local[u].task, *)
Creating == {"attach", "store", "failed"}
Deleting == {"unlist", "detach", "detached", "free"}
InCall(u, h) == pc[u] \in Creating \cup Deleting /\ local[u].task = h

(* ... where it has a subtask whose TCB address it has not stored, where   *)
(* the address in h is one MVS has taken back, and where h has left the    *)
(* table.                                                                  *)
Pending(h) == \E v \in Tcbs : pc[v] = "store" /\ local[v].task = h
Stale(h)   == \E v \in Tcbs : pc[v] = "detached" /\ local[v].task = h
Gone(h)    == \E v \in Tcbs : pc[v] \in {"detach", "detached", "free"}
                               /\ local[v].del /\ local[v].task = h

(* A task that does not run is in no call, and the main task never ends. *)
TaskInv ==
    /\ tcb[Main] = "running" /\ pc[Main] \notin {"start", "exit"}
    /\ \A u \in Tcbs :
          /\ tcb[u] # "running" => pc[u] \in {"user", "exit"}
          /\ tcb[u] = "free" => mine[u] = None
          /\ u # Main /\ tcb[u] # "free" => mine[u] # None
          /\ pc[u] \in {"user", "start", "exit"} => local[u] = NoLocal
          /\ pc[u] \notin Deleting => ~local[u].del

(* The variables of a call, as far as it has come: a handle is in one call *)
(* at a time, allocated, and belongs to nobody else.                       *)
CallInv ==
    /\ \A u \in Tcbs :
          /\ pc[u] = "newowner" => mine[u] = None
          /\ pc[u] = "newtask" => local[u].owner \in Handles
          /\ pc[u] \in Creating \cup Deleting =>
                /\ local[u].task \in Handles
                /\ cthd[local[u].task].alloc
                /\ cthd[local[u].task].held \in {None, u}
          /\ pc[u] \in Creating => cthd[local[u].task].held = None
          /\ pc[u] \in {"unlist", "free"} => local[u].del
    /\ \A u, v \in Tcbs : pc[u] \in Creating \cup Deleting
          /\ pc[v] \in Creating \cup Deleting /\ local[u].task = local[v].task => u = v

(* Storage that is free holds nothing. *)
BlockInv ==
    \A h \in Handles : ~cthd[h].alloc =>
        cthd[h].tcb = None /\ cthd[h].held = None /\ ~cthd[h].posted

(* A task has one handle, no two have the same, and the handle has the     *)
(* task's address from the start of its function on at the latest.         *)
MineInv ==
    /\ \A u, v \in Tcbs : mine[u] = mine[v] /\ mine[u] # None => u = v
    /\ \A u \in Tcbs : mine[u] # None =>
          /\ cthd[mine[u]].alloc
          /\ \/ cthd[mine[u]].tcb = u
             \/ cthd[mine[u]].tcb = None /\ pc[u] = "start" /\ Pending(mine[u])

(* The address in a handle is its task's, or is about to be cleared; a     *)
(* posted ECB tells of a task that has ended.                              *)
TcbInv ==
    \A h \in Handles : cthd[h].tcb # None /\ ~Stale(h) =>
        /\ mine[cthd[h].tcb] = h
        /\ cthd[h].posted => tcb[cthd[h].tcb] = "ended"

(* The table lists each live handle once, but for one that a call is       *)
(* deleting.                                                               *)
Listed(h) == \E i \in 1 .. Len(grtcthrd) : grtcthrd[i] = h
TableInv ==
    /\ \A i, j \in 1 .. Len(grtcthrd) : grtcthrd[i] = grtcthrd[j] => i = j
    /\ \A h \in Handles : Listed(h) <=> cthd[h].alloc /\ ~Gone(h)

(* What a call knows of the task behind its handle. *)
PlaceInv ==
    \A u \in Tcbs :
        /\ pc[u] \in {"attach", "failed", "free"} => cthd[local[u].task].tcb = None
        /\ pc[u] \in Creating /\ cthd[local[u].task].tcb = None
              => ~cthd[local[u].task].posted
        /\ pc[u] = "store" =>
              /\ local[u].r1 \in Tcbs \ {Main}
              /\ mine[local[u].r1] = local[u].task
        /\ pc[u] \in {"unlist", "detach"} /\ cthd[local[u].task].tcb # None
              => tcb[cthd[local[u].task].tcb] = "ended"
        /\ pc[u] = "detached" =>
              /\ cthd[local[u].task].tcb # None
              /\ \A v \in Tcbs : mine[v] # local[u].task

IndInv == TypeOK /\ TaskInv /\ CallInv /\ BlockInv /\ MineInv /\ TcbInv /\ PlaceInv
          /\ TableInv /\ ReturnKept

----------------------------------------------------------------------------
(* Facts about records and the table. *)

(* The records of the code are of their types, and what is in them. *)
LEMMA RecordTypes ==
    /\ NoLocal \in Locals /\ ~NoLocal.del /\ NoLocal.task = None /\ NoLocal.owner = None
    /\ Calloc \in Blocks /\ Calloc.alloc /\ Calloc.tcb = None /\ Calloc.held = None
    /\ ~Calloc.posted /\ Calloc.rc = 0 /\ Calloc.res = None
    /\ NoBlock \in Blocks /\ ~NoBlock.alloc /\ NoBlock.tcb = None /\ NoBlock.held = None
    /\ ~NoBlock.posted /\ NoBlock.rc = 0 /\ NoBlock.res = None
  BY RcAssumption DEF NoLocal, Locals, Calloc, NoBlock, Blocks, TcbOrNone, HandleOrNone

(* What TypeOK says of a handle, a task and a call. *)
LEMMA TypeFacts ==
    ASSUME TypeOK
    PROVE  /\ \A h \in Handles : cthd[h].tcb \in Tcbs \/ cthd[h].tcb = None
           /\ \A h \in Handles : cthd[h].held \in Tcbs \/ cthd[h].held = None
           /\ \A v \in Tcbs : mine[v] \in Handles \/ mine[v] = None
           /\ \A v \in Tcbs : tcb[v] \in {"free", "running", "ended"}
  BY DEF TypeOK, Blocks, TcbOrNone, HandleOrNone

(* Assigning to one field of a handle or of a call's variables. *)
LEMMA Updates ==
    ASSUME NEW b \in Blocks, NEW l \in Locals, NEW t \in TcbOrNone, NEW v \in TcbOrNone,
           NEW p \in BOOLEAN
    PROVE  /\ [b EXCEPT !.tcb = t] \in Blocks
           /\ [b EXCEPT !.tcb = t, !.held = v] \in Blocks
           /\ [b EXCEPT !.posted = p, !.held = v] \in Blocks
           /\ [l EXCEPT !.del = p] \in Locals
           /\ [l EXCEPT !.r1 = t] \in Locals
           /\ \A h \in Handles : /\ [l EXCEPT !.owner = h] \in Locals
                                 /\ [l EXCEPT !.task = h] \in Locals
  BY DEF Blocks, Locals, HandleOrNone

(* What newthread() allocates is a handle. *)
LEMMA NewBlock ==
    ASSUME NEW t \in TcbOrNone, NEW own \in TcbOrNone, NEW size \in Nat
    PROVE  [Calloc EXCEPT !.tcb = t, !.owntcb = own, !.stack = NewStack(size)] \in Blocks
<1>1. NewStack(size) \in Nat
  BY DEF NewStack
<1>2. QED BY <1>1, RecordTypes DEF Blocks

LEMMA NewSizes == 0 \in Nat /\ \A size \in Sizes : StackSize(size) \in Nat
  BY SizeAssumption DEF StackSize

(* cthread_find() returns a listed handle with the TCB address, if there   *)
(* is one.                                                                 *)
LEMMA FindFacts ==
    ASSUME TypeOK, NEW u \in Tcbs
    PROVE  LET found == cthread_find(u)
           IN  /\ found = None => \A h \in Handles : Listed(h) => cthd[h].tcb # u
               /\ found # None => found \in Handles /\ Listed(found) /\ cthd[found].tcb = u
<1> DEFINE S == {i \in 1 .. Len(grtcthrd) : cthd[grtcthrd[i]].tcb = u}
<1>1. S \subseteq Nat /\ \A i \in 1 .. Len(grtcthrd) : grtcthrd[i] \in Handles
  BY DEF TypeOK
<1>2. CASE S = {}
  <2>1. cthread_find(u) = None
    BY <1>2 DEF cthread_find
  <2>2. \A h \in Handles : Listed(h) => cthd[h].tcb # u
    BY <1>2 DEF Listed
  <2>3. QED BY <2>1, <2>2
<1>3. CASE S # {}
  <2> DEFINE i == CHOOSE i \in S : \A j \in S : i <= j
  <2>1. i \in S
    BY <1>1, <1>3, Least
  <2>2. cthread_find(u) = grtcthrd[i]
    BY <1>3 DEF cthread_find
  <2> HIDE DEF i
  <2>3. QED BY <1>1, <2>1, <2>2, HandleAssumption DEF Listed
<1>4. QED BY <1>2, <1>3

(* arrayadd() of a handle that is not in the table. *)
LEMMA AddFacts ==
    ASSUME grtcthrd \in Seq(Handles), NEW h \in Handles, ~Listed(h),
           \A i, j \in 1 .. Len(grtcthrd) : grtcthrd[i] = grtcthrd[j] => i = j,
           grtcthrd' = arrayadd(grtcthrd, h)
    PROVE  /\ grtcthrd' \in Seq(Handles)
           /\ \A i, j \in 1 .. Len(grtcthrd') : grtcthrd'[i] = grtcthrd'[j] => i = j
           /\ \A g : Listed(g)' <=> Listed(g) \/ g = h
<1>1. Distinct(grtcthrd) /\ ~ Has(grtcthrd, h) /\ grtcthrd' = Append(grtcthrd, h)
  BY DEF Distinct, Has, Listed, arrayadd
<1>2. /\ grtcthrd' \in Seq(Handles) /\ Distinct(grtcthrd')
      /\ \A g : Has(grtcthrd', g) <=> Has(grtcthrd, g) \/ g = h
  BY <1>1, AddedFacts
<1>3. QED BY <1>2 DEF Distinct, Has, Listed

(* Unlist takes the handle out of the table, if it is there. *)
LEMMA DelFacts ==
    ASSUME grtcthrd \in Seq(Handles), NEW u \in Tcbs, Unlist(u),
           \A i, j \in 1 .. Len(grtcthrd) : grtcthrd[i] = grtcthrd[j] => i = j
    PROVE  /\ grtcthrd' \in Seq(Handles)
           /\ \A i, j \in 1 .. Len(grtcthrd') : grtcthrd'[i] = grtcthrd'[j] => i = j
           /\ \A g : Listed(g)' <=> Listed(g) /\ g # local[u].task
<1> DEFINE h == local[u].task
<1>1. CASE Places(h) = {}
  <2>1. grtcthrd' = grtcthrd
    BY <1>1 DEF Unlist
  <2>2. ~Listed(h)
    BY <1>1 DEF Places, Listed
  <2>3. QED BY <2>1, <2>2 DEF Listed
<1>2. CASE Places(h) # {}
  <2> DEFINE k == CHOOSE i \in Places(h) : \A j \in Places(h) : i <= j
  <2>1. k \in 1 .. Len(grtcthrd) /\ grtcthrd[k] = h
    <3>1. Places(h) \subseteq Nat
      BY DEF Places
    <3>2. k \in Places(h)
      BY <3>1, <1>2, Least
    <3>3. QED BY <3>2 DEF Places
  <2>2. grtcthrd' = Removed(grtcthrd, k)
    BY <1>2 DEF Unlist, arraydel, Removed
  <2> HIDE DEF k
  <2>3. Distinct(grtcthrd)
    BY DEF Distinct
  <2>4. /\ grtcthrd' \in Seq(Handles) /\ Distinct(grtcthrd')
        /\ \A g : Has(grtcthrd', g) <=> Has(grtcthrd, g) /\ g # h
    BY <2>1, <2>2, <2>3, RemovedFacts
  <2>5. QED BY <2>4 DEF Distinct, Has, Listed
<1>3. QED BY <1>1, <1>2

(* Every step preserves the invariant. *)
LEMMA Inductive ==
    ASSUME IndInv, [Next]_vars
    PROVE  IndInv'
<1> USE TcbAssumption, HandleAssumption, SizeAssumption, RcAssumption
<1>1. ASSUME NEW u \in Tcbs, cthread_create_ex(u)
      PROVE  IndInv'
  <2>1. /\ tcb[u] = "running" /\ pc[u] = "user"
    BY <1>1, RecordTypes DEF cthread_create_ex, At, IndInv, TypeOK
  <2>2. /\ cthread_find(u) # None => cthread_find(u) \in Handles
        /\ cthread_find(u) = None => mine[u] = None
    BY <1>1, <2>1, FindFacts, RecordTypes, TypeFacts
       DEF IndInv, TaskInv, CallInv, BlockInv, MineInv, TcbInv, PlaceInv, Creating,
       Deleting, TableInv, Pending, Stale, Gone
  <2>3. /\ \A v \in Tcbs : v # u => pc'[v] = pc[v] /\ local'[v] = local[v]
        /\ local'[u].owner = cthread_find(u) /\ ~local'[u].del
        /\ pc'[u] = IF cthread_find(u) = None THEN "newowner" ELSE "newtask"
        /\ UNCHANGED <<grtcthrd, cthd, tcb, mother, mine>>
    BY <1>1, <2>1, RecordTypes DEF cthread_create_ex, Goto, IndInv, TypeOK, NoLocal
  <2>4. /\ \A g \in Handles : Pending(g)' <=> Pending(g)
        /\ \A g \in Handles : Stale(g)' <=> Stale(g)
        /\ \A g \in Handles : Gone(g)' <=> Gone(g)
    BY <2>1, <2>2, <2>3, RecordTypes, TypeFacts
       DEF IndInv, TaskInv, CallInv, Creating, Deleting, Pending, Stale, Gone
  <2>5. TypeOK'
    <3>1. [NoLocal EXCEPT !.owner = cthread_find(u)] \in Locals
      BY <1>1, <2>1, <2>2, <2>3, <2>4, RecordTypes, HandleAssumption
         DEF IndInv, TypeOK, Locals, TcbOrNone, HandleOrNone
    <3>2. local' = [local EXCEPT ![u] = [NoLocal EXCEPT !.owner = cthread_find(u)]]
      BY <1>1 DEF cthread_create_ex, IndInv, TypeOK, Locals
    <3>3. local' \in [Tcbs -> Locals]
      BY <3>1, <3>2 DEF IndInv, TypeOK
    <3>4. QED
      BY <1>1, <2>1, <2>2, <2>3, <2>4, <3>1, <3>2, <3>3, RecordTypes
         DEF cthread_create_ex, Goto, IndInv, TypeOK, Labels, TcbOrNone, HandleOrNone
  <2>6. TaskInv'
    BY <2>1, <2>2, <2>3, <2>4, RecordTypes, TypeFacts
       DEF IndInv, Creating, Deleting, TaskInv
  <2>7. CallInv'
    BY <2>1, <2>2, <2>3, <2>4, RecordTypes, TypeFacts
       DEF IndInv, Creating, Deleting, CallInv, TaskInv, BlockInv, PlaceInv
  <2>8. BlockInv'
    BY <2>1, <2>2, <2>3, <2>4, RecordTypes, TypeFacts
       DEF IndInv, Creating, Deleting, BlockInv
  <2>9. MineInv'
    BY <2>1, <2>2, <2>3, <2>4, RecordTypes, TypeFacts
       DEF IndInv, Creating, Deleting, MineInv, TaskInv, CallInv, BlockInv, PlaceInv,
       TcbInv
  <2>10. TcbInv'
    BY <2>1, <2>2, <2>3, <2>4, RecordTypes, TypeFacts
       DEF IndInv, Creating, Deleting, TcbInv, TaskInv, CallInv, BlockInv, MineInv,
       PlaceInv
  <2>11. PlaceInv'
    BY <2>1, <2>2, <2>3, <2>4, RecordTypes, TypeFacts
       DEF IndInv, Creating, Deleting, PlaceInv, TaskInv, CallInv, BlockInv, MineInv,
       TcbInv
  <2>12. TableInv'
    BY <2>1, <2>2, <2>3, <2>4, RecordTypes, TypeFacts
       DEF IndInv, Creating, Deleting, TableInv, Listed
  <2>13. ReturnKept'
    BY <2>1, <2>2, <2>3, <2>4, RecordTypes, TypeFacts
       DEF IndInv, Creating, Deleting, ReturnKept, BlockInv
  <2>14. QED BY <2>5, <2>6, <2>7, <2>8, <2>9, <2>10, <2>11, <2>12, <2>13 DEF IndInv
<1>2. ASSUME NEW u \in Tcbs, NewOwner(u)
      PROVE  IndInv'
  <2>1. /\ tcb[u] = "running" /\ pc[u] = "newowner"
        /\ mine[u] = None
    BY <1>2, RecordTypes, TypeFacts DEF NewOwner, At, IndInv, TypeOK, TaskInv, CallInv
  <2>2. PICK h \in Handles : /\ newthread(h, u, None, 0)
                              /\ local' = [local EXCEPT ![u].owner = h]
                              /\ mine'  = [mine EXCEPT ![u] = h]
    BY <1>2 DEF NewOwner
  <2>3. /\ ~cthd[h].alloc /\ ~Listed(h) /\ ~Pending(h) /\ ~Stale(h) /\ ~Gone(h)
        /\ \A v \in Tcbs : mine[v] # h
        /\ \A v \in Tcbs : pc[v] \in Creating \cup Deleting => local[v].task # h
    BY <2>1, <2>2, RecordTypes, TypeFacts DEF IndInv, TaskInv, CallInv, BlockInv,
       MineInv, TcbInv, PlaceInv, Creating, Deleting, newthread, TableInv, Pending,
       Stale, Gone
  <2>4. /\ \A v \in Tcbs : pc'[v] = IF v = u THEN "newtask" ELSE pc[v]
        /\ \A g \in Handles : g # h => cthd'[g] = cthd[g]
        /\ cthd'[h].alloc /\ cthd'[h].tcb = u /\ ~cthd'[h].posted
        /\ cthd'[h].held = None
        /\ cthd'[h].rc = 0 /\ cthd'[h].res = None
        /\ \A v \in Tcbs : v # u => local'[v] = local[v]
        /\ local'[u].owner = h /\ local'[u].task = local[u].task
        /\ (local'[u].del <=> local[u].del)
        /\ \A v \in Tcbs : mine'[v] = IF v = u THEN h ELSE mine[v]
        /\ UNCHANGED <<tcb, mother>>
    BY <1>2, <2>1, <2>2, RecordTypes DEF NewOwner, newthread, Goto, IndInv, TypeOK,
       Locals, Calloc
  <2>5. /\ grtcthrd' \in Seq(Handles)
        /\ \A i, j \in 1 .. Len(grtcthrd') : grtcthrd'[i] = grtcthrd'[j] => i = j
        /\ \A g : Listed(g)' <=> Listed(g) \/ g = h
    BY <2>2, <2>3, AddFacts DEF IndInv, TypeOK, TableInv, newthread
  <2>6. /\ \A g \in Handles : Pending(g)' <=> Pending(g)
        /\ \A g \in Handles : Stale(g)' <=> Stale(g)
        /\ \A g \in Handles : Gone(g)' <=> Gone(g)
    BY <2>1, <2>2, <2>3, <2>4, <2>5, RecordTypes, TypeFacts
       DEF IndInv, TaskInv, CallInv, Creating, Deleting, Pending, Stale, Gone
  <2>7. TypeOK'
    <3>1. [Calloc EXCEPT !.tcb = u, !.owntcb = None, !.stack = NewStack(0)] \in Blocks
      BY <2>1, NewBlock, NewSizes DEF IndInv, TypeOK, TcbOrNone
    <3>2. cthd' \in [Handles -> Blocks]
      BY <2>2, <3>1 DEF newthread, IndInv, TypeOK
    <3>3. [local[u] EXCEPT !.owner = h] \in Locals
      BY Updates, RecordTypes DEF IndInv, TypeOK, TcbOrNone
    <3>4. local' = [local EXCEPT ![u] = [local[u] EXCEPT !.owner = h]]
      BY <2>2 DEF IndInv, TypeOK, Locals
    <3>5. local' \in [Tcbs -> Locals]
      BY <3>3, <3>4 DEF IndInv, TypeOK
    <3>6. QED
      BY <1>2, <2>2, <2>5, <3>2, <3>5 DEF NewOwner, Goto, IndInv, TypeOK, Labels,
         HandleOrNone
  <2>8. TaskInv'
    BY <2>1, <2>2, <2>3, <2>4, <2>5, <2>6, RecordTypes, TypeFacts
       DEF IndInv, Creating, Deleting, TaskInv
  <2>9. CallInv'
    BY <2>1, <2>2, <2>3, <2>4, <2>5, <2>6, RecordTypes, TypeFacts
       DEF IndInv, Creating, Deleting, CallInv, TaskInv, BlockInv, PlaceInv
  <2>10. BlockInv'
    BY <2>1, <2>2, <2>3, <2>4, <2>5, <2>6, RecordTypes, TypeFacts
       DEF IndInv, Creating, Deleting, BlockInv
  <2>11. MineInv'
    BY <2>1, <2>2, <2>3, <2>4, <2>5, <2>6, RecordTypes, TypeFacts
       DEF IndInv, Creating, Deleting, MineInv, TaskInv, CallInv, BlockInv, PlaceInv,
       TcbInv
  <2>12. TcbInv'
    BY <2>1, <2>2, <2>3, <2>4, <2>5, <2>6, RecordTypes, TypeFacts
       DEF IndInv, Creating, Deleting, TcbInv, TaskInv, CallInv, BlockInv, MineInv,
       PlaceInv
  <2>13. PlaceInv'
    BY <2>1, <2>2, <2>3, <2>4, <2>5, <2>6, RecordTypes, TypeFacts
       DEF IndInv, Creating, Deleting, PlaceInv, TaskInv, CallInv, BlockInv, MineInv,
       TcbInv
  <2>14. TableInv'
    BY <2>1, <2>2, <2>3, <2>4, <2>5, <2>6 DEF IndInv, TableInv
  <2>15. ReturnKept'
    BY <2>1, <2>2, <2>3, <2>4, <2>5, <2>6, RecordTypes, TypeFacts
       DEF IndInv, Creating, Deleting, ReturnKept, BlockInv
  <2>16. QED BY <2>7, <2>8, <2>9, <2>10, <2>11, <2>12, <2>13, <2>14, <2>15 DEF IndInv
<1>3. ASSUME NEW u \in Tcbs, NewTask(u)
      PROVE  IndInv'
  <2>1. /\ tcb[u] = "running" /\ pc[u] = "newtask"
        /\ local[u].owner \in Handles
    BY <1>3, RecordTypes, TypeFacts DEF NewTask, At, IndInv, TypeOK, TaskInv, CallInv
  <2>2. PICK h \in Handles, size \in Sizes :
                 /\ newthread(h, None, cthd[local[u].owner].tcb, StackSize(size))
                 /\ local' = [local EXCEPT ![u].task = h]
    BY <1>3 DEF NewTask
  <2>3. /\ ~cthd[h].alloc /\ ~Listed(h) /\ ~Pending(h) /\ ~Stale(h) /\ ~Gone(h)
        /\ \A v \in Tcbs : mine[v] # h
        /\ \A v \in Tcbs : pc[v] \in Creating \cup Deleting => local[v].task # h
    BY <2>1, <2>2, RecordTypes, TypeFacts DEF IndInv, TaskInv, CallInv, BlockInv,
       MineInv, TcbInv, PlaceInv, Creating, Deleting, newthread, TableInv, Pending,
       Stale, Gone
  <2>4. /\ \A v \in Tcbs : pc'[v] = IF v = u THEN "attach" ELSE pc[v]
        /\ \A g \in Handles : g # h => cthd'[g] = cthd[g]
        /\ cthd'[h].alloc /\ cthd'[h].tcb = None /\ ~cthd'[h].posted
        /\ cthd'[h].held = None
        /\ cthd'[h].rc = 0 /\ cthd'[h].res = None
        /\ \A v \in Tcbs : v # u => local'[v] = local[v]
        /\ local'[u].task = h /\ (local'[u].del <=> local[u].del)
        /\ UNCHANGED <<tcb, mother, mine>>
    BY <1>3, <2>1, <2>2, RecordTypes DEF NewTask, newthread, Goto, IndInv, TypeOK,
       Locals, Calloc
  <2>5. /\ grtcthrd' \in Seq(Handles)
        /\ \A i, j \in 1 .. Len(grtcthrd') : grtcthrd'[i] = grtcthrd'[j] => i = j
        /\ \A g : Listed(g)' <=> Listed(g) \/ g = h
    BY <2>2, <2>3, AddFacts DEF IndInv, TypeOK, TableInv, newthread
  <2>6. /\ \A g \in Handles : Pending(g)' <=> Pending(g)
        /\ \A g \in Handles : Stale(g)' <=> Stale(g)
        /\ \A g \in Handles : Gone(g)' <=> Gone(g)
    BY <2>1, <2>2, <2>3, <2>4, <2>5, RecordTypes, TypeFacts
       DEF IndInv, TaskInv, CallInv, Creating, Deleting, Pending, Stale, Gone
  <2>7. TypeOK'
    <3>1. [Calloc EXCEPT !.tcb = None, !.owntcb = cthd[local[u].owner].tcb, !.stack = NewStack(StackSize(size))] \in Blocks
      BY <2>1, <2>2, NewBlock, NewSizes, TypeFacts DEF IndInv, TcbOrNone
    <3>2. cthd' \in [Handles -> Blocks]
      BY <2>2, <3>1 DEF newthread, IndInv, TypeOK
    <3>3. [local[u] EXCEPT !.task = h] \in Locals
      BY Updates, RecordTypes DEF IndInv, TypeOK, TcbOrNone
    <3>4. local' = [local EXCEPT ![u] = [local[u] EXCEPT !.task = h]]
      BY <2>2 DEF IndInv, TypeOK, Locals
    <3>5. local' \in [Tcbs -> Locals]
      BY <3>3, <3>4 DEF IndInv, TypeOK
    <3>6. QED
      BY <1>3, <2>2, <2>5, <3>2, <3>5 DEF NewTask, Goto, IndInv, TypeOK, Labels,
         HandleOrNone
  <2>8. TaskInv'
    BY <2>1, <2>2, <2>3, <2>4, <2>5, <2>6, RecordTypes, TypeFacts
       DEF IndInv, Creating, Deleting, TaskInv
  <2>9. CallInv'
    BY <2>1, <2>2, <2>3, <2>4, <2>5, <2>6, RecordTypes, TypeFacts
       DEF IndInv, Creating, Deleting, CallInv, TaskInv, BlockInv, PlaceInv
  <2>10. BlockInv'
    BY <2>1, <2>2, <2>3, <2>4, <2>5, <2>6, RecordTypes, TypeFacts
       DEF IndInv, Creating, Deleting, BlockInv
  <2>11. MineInv'
    BY <2>1, <2>2, <2>3, <2>4, <2>5, <2>6, RecordTypes, TypeFacts
       DEF IndInv, Creating, Deleting, MineInv, TaskInv, CallInv, BlockInv, PlaceInv,
       TcbInv
  <2>12. TcbInv'
    BY <2>1, <2>2, <2>3, <2>4, <2>5, <2>6, RecordTypes, TypeFacts
       DEF IndInv, Creating, Deleting, TcbInv, TaskInv, CallInv, BlockInv, MineInv,
       PlaceInv
  <2>13. PlaceInv'
    BY <2>1, <2>2, <2>3, <2>4, <2>5, <2>6, RecordTypes, TypeFacts
       DEF IndInv, Creating, Deleting, PlaceInv, TaskInv, CallInv, BlockInv, MineInv,
       TcbInv
  <2>14. TableInv'
    BY <2>1, <2>2, <2>3, <2>4, <2>5, <2>6 DEF IndInv, TableInv
  <2>15. ReturnKept'
    BY <2>1, <2>2, <2>3, <2>4, <2>5, <2>6, RecordTypes, TypeFacts
       DEF IndInv, Creating, Deleting, ReturnKept, BlockInv
  <2>16. QED BY <2>7, <2>8, <2>9, <2>10, <2>11, <2>12, <2>13, <2>14, <2>15 DEF IndInv
<1>4. ASSUME NEW u \in Tcbs, NoThread(u)
      PROVE  IndInv'
  <2>1. /\ tcb[u] = "running" /\ pc[u] \in {"newowner", "newtask"}
    BY <1>4, RecordTypes DEF NoThread, At, IndInv, TypeOK
  <2>2. /\ \A v \in Tcbs : pc'[v] = IF v = u THEN "user" ELSE pc[v]
        /\ \A v \in Tcbs : local'[v] = IF v = u THEN NoLocal ELSE local[v]
        /\ UNCHANGED <<grtcthrd, cthd, tcb, mother, mine>>
    BY <1>4, <2>1, RecordTypes DEF NoThread, Goto, IndInv, TypeOK, Blocks, Locals
  <2>3. /\ \A g \in Handles : Pending(g)' <=> Pending(g)
        /\ \A g \in Handles : Stale(g)' <=> Stale(g)
        /\ \A g \in Handles : Gone(g)' <=> Gone(g)
    BY <2>1, <2>2, RecordTypes, TypeFacts DEF IndInv, TaskInv, CallInv, Creating,
       Deleting, Pending, Stale, Gone
  <2>4. TypeOK'
    BY <1>4, <2>1, <2>2, <2>3, RecordTypes DEF NoThread, Goto, IndInv, TypeOK, Labels,
       TcbOrNone, HandleOrNone
  <2>5. TaskInv'
    BY <2>1, <2>2, <2>3, RecordTypes, TypeFacts DEF IndInv, Creating, Deleting, TaskInv
  <2>6. CallInv'
    BY <2>1, <2>2, <2>3, RecordTypes, TypeFacts
       DEF IndInv, Creating, Deleting, CallInv, TaskInv, BlockInv, PlaceInv
  <2>7. BlockInv'
    BY <2>1, <2>2, <2>3, RecordTypes, TypeFacts DEF IndInv, Creating, Deleting, BlockInv
  <2>8. MineInv'
    BY <2>1, <2>2, <2>3, RecordTypes, TypeFacts
       DEF IndInv, Creating, Deleting, MineInv, TaskInv, CallInv, BlockInv, PlaceInv,
       TcbInv
  <2>9. TcbInv'
    BY <2>1, <2>2, <2>3, RecordTypes, TypeFacts
       DEF IndInv, Creating, Deleting, TcbInv, TaskInv, CallInv, BlockInv, MineInv,
       PlaceInv
  <2>10. PlaceInv'
    BY <2>1, <2>2, <2>3, RecordTypes, TypeFacts
       DEF IndInv, Creating, Deleting, PlaceInv, TaskInv, CallInv, BlockInv, MineInv,
       TcbInv
  <2>11. TableInv'
    BY <2>1, <2>2, <2>3, RecordTypes, TypeFacts
       DEF IndInv, Creating, Deleting, TableInv, Listed
  <2>12. ReturnKept'
    BY <2>1, <2>2, <2>3, RecordTypes, TypeFacts
       DEF IndInv, Creating, Deleting, ReturnKept, BlockInv
  <2>13. QED BY <2>4, <2>5, <2>6, <2>7, <2>8, <2>9, <2>10, <2>11, <2>12 DEF IndInv
<1>5. ASSUME NEW u \in Tcbs, attach(u)
      PROVE  IndInv'
  <2>1. /\ tcb[u] = "running" /\ pc[u] = "attach"
        /\ local[u].task \in Handles /\ cthd[local[u].task].alloc
        /\ cthd[local[u].task].held \in {None, u}
    BY <1>5, RecordTypes DEF attach, At, IndInv, TypeOK, CallInv, Creating, Deleting
  <2>2. /\ ~Pending(local[u].task) /\ ~Stale(local[u].task)
        /\ \A v \in Tcbs : mine[v] # local[u].task
    BY <1>5, <2>1, RecordTypes, TypeFacts DEF IndInv, TaskInv, CallInv, BlockInv,
       MineInv, TcbInv, PlaceInv, Creating, Deleting, Pending, Stale
  <2>3. \E t \in Tcbs :
          /\ tcb[t] = "free"
          /\ mine[t] = None
          /\ t # u /\ t # Main
          /\ \A v \in Tcbs : tcb'[v] = IF v = t THEN "running" ELSE tcb[v]
          /\ \A v \in Tcbs : mine'[v] = IF v = t THEN local[u].task ELSE mine[v]
          /\ \A v \in Tcbs : pc'[v] = IF v = t THEN "start" ELSE IF v = u THEN "store" ELSE pc[v]
          /\ \A v \in Tcbs : v # u => local'[v] = local[v]
          /\ local'[u].task = local[u].task /\ local'[u].r1 = t
          /\ (local'[u].del <=> local[u].del)
          /\ UNCHANGED <<grtcthrd, cthd>>
    BY <1>5, <2>1, RecordTypes DEF attach, Goto, IndInv, TypeOK, Blocks, Locals, TaskInv
  <2>4. /\ \A g \in Handles : Pending(g)' <=> Pending(g) \/ g = local[u].task
        /\ \A g \in Handles : Stale(g)' <=> Stale(g)
        /\ \A g \in Handles : Gone(g)' <=> Gone(g)
    BY <2>1, <2>2, <2>3, RecordTypes, TypeFacts
       DEF IndInv, TaskInv, CallInv, Creating, Deleting, Pending, Stale, Gone
  <2>5. TypeOK'
    <3>1. \A t \in Tcbs : [local[u] EXCEPT !.r1 = t] \in Locals
      BY Updates, RecordTypes DEF IndInv, TypeOK, TcbOrNone
    <3>2. \E t \in Tcbs : local' = [local EXCEPT ![u] = [local[u] EXCEPT !.r1 = t]]
      BY <1>5 DEF attach, IndInv, TypeOK, Locals
    <3>3. local' \in [Tcbs -> Locals]
      BY <3>1, <3>2 DEF IndInv, TypeOK
    <3>4. local[u].task \in HandleOrNone
      BY <2>1 DEF HandleOrNone
    <3>5. QED
      BY <1>5, <3>3, <3>4 DEF attach, IndInv, TypeOK, Labels, TcbOrNone
  <2>6. TaskInv'
    BY <2>1, <2>2, <2>3, <2>4, RecordTypes, TypeFacts
       DEF IndInv, Creating, Deleting, TaskInv
  <2>7. CallInv'
    BY <2>1, <2>2, <2>3, <2>4, RecordTypes, TypeFacts
       DEF IndInv, Creating, Deleting, CallInv, TaskInv, BlockInv, PlaceInv
  <2>8. BlockInv'
    BY <2>1, <2>2, <2>3, <2>4, RecordTypes, TypeFacts
       DEF IndInv, Creating, Deleting, BlockInv
  <2>9. MineInv'
    BY <2>1, <2>2, <2>3, <2>4, RecordTypes, TypeFacts
       DEF IndInv, Creating, Deleting, MineInv, TaskInv, CallInv, BlockInv, PlaceInv,
       TcbInv
  <2>10. TcbInv'
    BY <2>1, <2>2, <2>3, <2>4, RecordTypes, TypeFacts
       DEF IndInv, Creating, Deleting, TcbInv, TaskInv, CallInv, BlockInv, MineInv,
       PlaceInv
  <2>11. PlaceInv'
    BY <2>1, <2>2, <2>3, <2>4, RecordTypes, TypeFacts
       DEF IndInv, Creating, Deleting, PlaceInv, TaskInv, CallInv, BlockInv, MineInv,
       TcbInv
  <2>12. TableInv'
    BY <2>1, <2>2, <2>3, <2>4, RecordTypes, TypeFacts
       DEF IndInv, Creating, Deleting, TableInv, Listed
  <2>13. ReturnKept'
    BY <2>1, <2>2, <2>3, <2>4, RecordTypes, TypeFacts
       DEF IndInv, Creating, Deleting, ReturnKept, BlockInv
  <2>14. QED BY <2>5, <2>6, <2>7, <2>8, <2>9, <2>10, <2>11, <2>12, <2>13 DEF IndInv
<1>6. ASSUME NEW u \in Tcbs, AttachFails(u)
      PROVE  IndInv'
  <2>1. /\ tcb[u] = "running" /\ pc[u] = "attach"
        /\ local[u].task \in Handles /\ cthd[local[u].task].alloc
        /\ cthd[local[u].task].held \in {None, u}
    BY <1>6, RecordTypes DEF AttachFails, At, IndInv, TypeOK, CallInv, Creating,
       Deleting
  <2>2. /\ \A v \in Tcbs : pc'[v] = IF v = u THEN "failed" ELSE pc[v]
        /\ UNCHANGED <<grtcthrd, cthd, tcb, mother, mine, local>>
    BY <1>6, <2>1, RecordTypes DEF AttachFails, Goto, IndInv, TypeOK, Blocks, Locals
  <2>3. /\ \A g \in Handles : Pending(g)' <=> Pending(g)
        /\ \A g \in Handles : Stale(g)' <=> Stale(g)
        /\ \A g \in Handles : Gone(g)' <=> Gone(g)
    BY <2>1, <2>2, RecordTypes, TypeFacts DEF IndInv, TaskInv, CallInv, Creating,
       Deleting, Pending, Stale, Gone
  <2>4. TypeOK'
    BY <1>6, <2>1, <2>2, <2>3, RecordTypes DEF AttachFails, Goto, IndInv, TypeOK,
       Labels, TcbOrNone, HandleOrNone
  <2>5. TaskInv'
    BY <2>1, <2>2, <2>3, RecordTypes, TypeFacts DEF IndInv, Creating, Deleting, TaskInv
  <2>6. CallInv'
    BY <2>1, <2>2, <2>3, RecordTypes, TypeFacts
       DEF IndInv, Creating, Deleting, CallInv, TaskInv, BlockInv, PlaceInv
  <2>7. BlockInv'
    BY <2>1, <2>2, <2>3, RecordTypes, TypeFacts DEF IndInv, Creating, Deleting, BlockInv
  <2>8. MineInv'
    BY <2>1, <2>2, <2>3, RecordTypes, TypeFacts
       DEF IndInv, Creating, Deleting, MineInv, TaskInv, CallInv, BlockInv, PlaceInv,
       TcbInv
  <2>9. TcbInv'
    BY <2>1, <2>2, <2>3, RecordTypes, TypeFacts
       DEF IndInv, Creating, Deleting, TcbInv, TaskInv, CallInv, BlockInv, MineInv,
       PlaceInv
  <2>10. PlaceInv'
    BY <2>1, <2>2, <2>3, RecordTypes, TypeFacts
       DEF IndInv, Creating, Deleting, PlaceInv, TaskInv, CallInv, BlockInv, MineInv,
       TcbInv
  <2>11. TableInv'
    BY <2>1, <2>2, <2>3, RecordTypes, TypeFacts
       DEF IndInv, Creating, Deleting, TableInv, Listed
  <2>12. ReturnKept'
    BY <2>1, <2>2, <2>3, RecordTypes, TypeFacts
       DEF IndInv, Creating, Deleting, ReturnKept, BlockInv
  <2>13. QED BY <2>4, <2>5, <2>6, <2>7, <2>8, <2>9, <2>10, <2>11, <2>12 DEF IndInv
<1>7. ASSUME NEW u \in Tcbs, StoreTcb(u)
      PROVE  IndInv'
  <2>1. /\ tcb[u] = "running" /\ pc[u] = "store"
        /\ local[u].task \in Handles /\ cthd[local[u].task].alloc
        /\ cthd[local[u].task].held \in {None, u}
        /\ local[u].r1 \in Tcbs
    BY <1>7, RecordTypes DEF StoreTcb, At, IndInv, TypeOK, CallInv, Creating, Deleting,
       PlaceInv
  <2>2. /\ \A v \in Tcbs : pc'[v] = IF v = u THEN "user" ELSE pc[v]
        /\ \A v \in Tcbs : local'[v] = IF v = u THEN NoLocal ELSE local[v]
        /\ \A g \in Handles : g # local[u].task => cthd'[g] = cthd[g]
        /\ cthd'[local[u].task].tcb = local[u].r1 /\ cthd'[local[u].task].held = u
        /\ (cthd'[local[u].task].alloc <=> cthd[local[u].task].alloc)
        /\ (cthd'[local[u].task].posted <=> cthd[local[u].task].posted)
        /\ cthd'[local[u].task].rc = cthd[local[u].task].rc
        /\ cthd'[local[u].task].res = cthd[local[u].task].res
        /\ UNCHANGED <<grtcthrd, tcb, mother, mine>>
    BY <1>7, <2>1, RecordTypes DEF StoreTcb, Goto, IndInv, TypeOK, Blocks, Locals,
       Created
  <2>3. /\ \A g \in Handles : Pending(g)' <=> Pending(g) /\ g # local[u].task
        /\ \A g \in Handles : Stale(g)' <=> Stale(g)
        /\ \A g \in Handles : Gone(g)' <=> Gone(g)
    BY <2>1, <2>2, RecordTypes, TypeFacts DEF IndInv, TaskInv, CallInv, Creating,
       Deleting, Pending, Stale, Gone
  <2>4. TypeOK'
    <3>1. cthd[local[u].task] \in Blocks /\ local[u].r1 \in TcbOrNone /\ u \in TcbOrNone
      BY <2>1, RecordTypes DEF IndInv, TypeOK, TcbOrNone
    <3>2. [cthd[local[u].task] EXCEPT !.tcb = local[u].r1, !.held = u] \in Blocks
      BY <3>1, Updates, RecordTypes
    <3>3. cthd' = [cthd EXCEPT ![local[u].task] = [cthd[local[u].task] EXCEPT !.tcb = local[u].r1, !.held = u]]
      BY ZenonT(60), <1>7, <2>1, <2>2, <2>3 DEF StoreTcb, IndInv, TypeOK, Blocks
    <3>4. cthd' \in [Handles -> Blocks]
      BY <2>1, <2>2, <2>3, <3>2, <3>3 DEF IndInv, TypeOK
    <3>5. QED
      BY SMTT(60), <1>7, <2>1, <2>2, <2>3, <3>1, <3>2, <3>3, <3>4, RecordTypes
         DEF StoreTcb, Goto, Created, IndInv, TypeOK, Labels, TcbOrNone, HandleOrNone
  <2>5. TaskInv'
    BY <2>1, <2>2, <2>3, RecordTypes, TypeFacts DEF IndInv, Creating, Deleting, TaskInv
  <2>6. CallInv'
    BY SMTT(60), <2>1, <2>2, <2>3, RecordTypes, TypeFacts
       DEF IndInv, Creating, Deleting, CallInv, TaskInv, BlockInv, PlaceInv
  <2>7. BlockInv'
    BY <2>1, <2>2, <2>3, RecordTypes, TypeFacts DEF IndInv, Creating, Deleting, BlockInv
  <2>8. MineInv'
    BY <2>1, <2>2, <2>3, RecordTypes, TypeFacts
       DEF IndInv, Creating, Deleting, MineInv, TaskInv, CallInv, BlockInv, PlaceInv,
       TcbInv
  <2>9. TcbInv'
    BY SMTT(60), <2>1, <2>2, <2>3, RecordTypes, TypeFacts
       DEF IndInv, Creating, Deleting, TcbInv, TaskInv, CallInv, BlockInv, MineInv,
       PlaceInv
  <2>10. PlaceInv'
    BY SMTT(60), <2>1, <2>2, <2>3, RecordTypes, TypeFacts
       DEF IndInv, Creating, Deleting, PlaceInv, TaskInv, CallInv, BlockInv, MineInv,
       TcbInv
  <2>11. TableInv'
    BY <2>1, <2>2, <2>3, RecordTypes, TypeFacts
       DEF IndInv, Creating, Deleting, TableInv, Listed
  <2>12. ReturnKept'
    BY <2>1, <2>2, <2>3, RecordTypes, TypeFacts
       DEF IndInv, Creating, Deleting, ReturnKept, BlockInv
  <2>13. QED BY <2>4, <2>5, <2>6, <2>7, <2>8, <2>9, <2>10, <2>11, <2>12 DEF IndInv
<1>8. ASSUME NEW u \in Tcbs, CreateFailed(u)
      PROVE  IndInv'
  <2>1. /\ tcb[u] = "running" /\ pc[u] = "failed"
        /\ local[u].task \in Handles /\ cthd[local[u].task].alloc
        /\ cthd[local[u].task].held \in {None, u}
    BY <1>8, RecordTypes DEF CreateFailed, At, IndInv, TypeOK, CallInv, Creating,
       Deleting
  <2>2. /\ \A v \in Tcbs : pc'[v] = IF v = u THEN "unlist" ELSE pc[v]
        /\ \A v \in Tcbs : v # u => local'[v] = local[v]
        /\ local'[u].task = local[u].task /\ local'[u].r1 = local[u].r1
        /\ (local'[u].del <=> TRUE)
        /\ \A g \in Handles : g # local[u].task => cthd'[g] = cthd[g]
        /\ cthd'[local[u].task].tcb = None
        /\ (cthd'[local[u].task].alloc <=> cthd[local[u].task].alloc)
        /\ (cthd'[local[u].task].posted <=> cthd[local[u].task].posted)
        /\ cthd'[local[u].task].rc = cthd[local[u].task].rc
        /\ cthd'[local[u].task].held = cthd[local[u].task].held
        /\ cthd'[local[u].task].res = cthd[local[u].task].res
        /\ UNCHANGED <<grtcthrd, tcb, mother, mine>>
    BY <1>8, <2>1, RecordTypes DEF CreateFailed, Goto, IndInv, TypeOK, Blocks, Locals
  <2>3. /\ \A g \in Handles : Pending(g)' <=> Pending(g)
        /\ \A g \in Handles : Stale(g)' <=> Stale(g)
        /\ \A g \in Handles : Gone(g)' <=> Gone(g)
    BY <2>1, <2>2, RecordTypes, TypeFacts DEF IndInv, TaskInv, CallInv, Creating,
       Deleting, Pending, Stale, Gone
  <2>4. TypeOK'
    <3>1. cthd[local[u].task] \in Blocks /\ None \in TcbOrNone
      BY <2>1, RecordTypes DEF IndInv, TypeOK, TcbOrNone
    <3>2. [cthd[local[u].task] EXCEPT !.tcb = None] \in Blocks
      BY <3>1, Updates, RecordTypes
    <3>3. cthd' = [cthd EXCEPT ![local[u].task] = [cthd[local[u].task] EXCEPT !.tcb = None]]
      BY <1>8, <2>1, <2>2, <2>3 DEF CreateFailed, IndInv, TypeOK, Blocks
    <3>4. cthd' \in [Handles -> Blocks]
      BY <2>1, <2>2, <2>3, <3>2, <3>3 DEF IndInv, TypeOK
    <3>5. [local[u] EXCEPT !.del = TRUE] \in Locals
      BY Updates, RecordTypes DEF IndInv, TypeOK, TcbOrNone
    <3>6. local' = [local EXCEPT ![u] = [local[u] EXCEPT !.del = TRUE]]
      BY <1>8 DEF CreateFailed, IndInv, TypeOK, Locals
    <3>7. local' \in [Tcbs -> Locals]
      BY <3>5, <3>6 DEF IndInv, TypeOK
    <3>8. QED
      BY <1>8, <2>1, <2>2, <2>3, <3>1, <3>2, <3>3, <3>4, <3>5, <3>6, <3>7,
         RecordTypes DEF CreateFailed, Goto, IndInv, TypeOK, Labels, TcbOrNone,
         HandleOrNone
  <2>5. TaskInv'
    BY <2>1, <2>2, <2>3, RecordTypes, TypeFacts DEF IndInv, Creating, Deleting, TaskInv
  <2>6. CallInv'
    BY SMTT(60), <2>1, <2>2, <2>3, RecordTypes, TypeFacts
       DEF IndInv, Creating, Deleting, CallInv, TaskInv, BlockInv, PlaceInv
  <2>7. BlockInv'
    BY <2>1, <2>2, <2>3, RecordTypes, TypeFacts DEF IndInv, Creating, Deleting, BlockInv
  <2>8. MineInv'
    BY SMTT(60), <2>1, <2>2, <2>3, RecordTypes, TypeFacts
       DEF IndInv, Creating, Deleting, MineInv, TaskInv, CallInv, BlockInv, PlaceInv,
       TcbInv
  <2>9. TcbInv'
    BY SMTT(60), <2>1, <2>2, <2>3, RecordTypes, TypeFacts
       DEF IndInv, Creating, Deleting, TcbInv, TaskInv, CallInv, BlockInv, MineInv,
       PlaceInv
  <2>10. PlaceInv'
    BY SMTT(60), <2>1, <2>2, <2>3, RecordTypes, TypeFacts
       DEF IndInv, Creating, Deleting, PlaceInv, TaskInv, CallInv, BlockInv, MineInv,
       TcbInv
  <2>11. TableInv'
    BY <2>1, <2>2, <2>3, RecordTypes, TypeFacts
       DEF IndInv, Creating, Deleting, TableInv, Listed
  <2>12. ReturnKept'
    BY <2>1, <2>2, <2>3, RecordTypes, TypeFacts
       DEF IndInv, Creating, Deleting, ReturnKept, BlockInv
  <2>13. QED BY <2>4, <2>5, <2>6, <2>7, <2>8, <2>9, <2>10, <2>11, <2>12 DEF IndInv
<1>9. ASSUME NEW u \in Tcbs, Unlist(u)
      PROVE  IndInv'
  <2>1. /\ tcb[u] = "running" /\ pc[u] = "unlist" /\ local[u].del
        /\ local[u].task \in Handles /\ cthd[local[u].task].alloc
        /\ cthd[local[u].task].held \in {None, u}
    BY <1>9, RecordTypes DEF Unlist, At, IndInv, TypeOK, CallInv, Creating, Deleting
  <2>2. /\ \A v \in Tcbs : pc'[v] = IF v = u THEN "detach" ELSE pc[v]
        /\ UNCHANGED <<cthd, tcb, mother, mine, local>>
    BY <1>9, <2>1, RecordTypes DEF Unlist, Goto, IndInv, TypeOK, Blocks, Locals
  <2>3. /\ \A g \in Handles : Pending(g)' <=> Pending(g)
        /\ \A g \in Handles : Stale(g)' <=> Stale(g)
        /\ \A g \in Handles : Gone(g)' <=> Gone(g) \/ g = local[u].task
    BY <2>1, <2>2, RecordTypes, TypeFacts DEF IndInv, TaskInv, CallInv, Creating,
       Deleting, Pending, Stale, Gone
  <2>4. /\ grtcthrd' \in Seq(Handles)
        /\ \A i, j \in 1 .. Len(grtcthrd') : grtcthrd'[i] = grtcthrd'[j] => i = j
        /\ \A g : Listed(g)' <=> Listed(g) /\ g # local[u].task
    BY <1>9, <2>1, DelFacts DEF IndInv, TypeOK, TableInv
  <2>5. TypeOK'
    BY <1>9, <2>1, <2>2, <2>3, <2>4, RecordTypes
       DEF Unlist, Goto, IndInv, TypeOK, Labels, TcbOrNone, HandleOrNone
  <2>6. TaskInv'
    BY <2>1, <2>2, <2>3, <2>4, RecordTypes, TypeFacts
       DEF IndInv, Creating, Deleting, TaskInv
  <2>7. CallInv'
    BY <2>1, <2>2, <2>3, <2>4, RecordTypes, TypeFacts
       DEF IndInv, Creating, Deleting, CallInv, TaskInv, BlockInv, PlaceInv
  <2>8. BlockInv'
    BY <2>1, <2>2, <2>3, <2>4, RecordTypes, TypeFacts
       DEF IndInv, Creating, Deleting, BlockInv
  <2>9. MineInv'
    BY <2>1, <2>2, <2>3, <2>4, RecordTypes, TypeFacts
       DEF IndInv, Creating, Deleting, MineInv, TaskInv, CallInv, BlockInv, PlaceInv,
       TcbInv
  <2>10. TcbInv'
    BY <2>1, <2>2, <2>3, <2>4, RecordTypes, TypeFacts
       DEF IndInv, Creating, Deleting, TcbInv, TaskInv, CallInv, BlockInv, MineInv,
       PlaceInv
  <2>11. PlaceInv'
    BY <2>1, <2>2, <2>3, <2>4, RecordTypes, TypeFacts
       DEF IndInv, Creating, Deleting, PlaceInv, TaskInv, CallInv, BlockInv, MineInv,
       TcbInv
  <2>12. TableInv'
    BY <2>1, <2>2, <2>3, <2>4 DEF IndInv, TableInv
  <2>13. ReturnKept'
    BY <2>1, <2>2, <2>3, <2>4, RecordTypes, TypeFacts
       DEF IndInv, Creating, Deleting, ReturnKept, BlockInv
  <2>14. QED BY <2>5, <2>6, <2>7, <2>8, <2>9, <2>10, <2>11, <2>12, <2>13 DEF IndInv
<1>10. ASSUME NEW u \in Tcbs, NoDetach(u)
      PROVE  IndInv'
  <2>1. /\ tcb[u] = "running" /\ pc[u] = "detach"
        /\ local[u].task \in Handles /\ cthd[local[u].task].alloc
        /\ cthd[local[u].task].held \in {None, u}
        /\ cthd[local[u].task].tcb = None
    BY <1>10, RecordTypes DEF NoDetach, At, IndInv, TypeOK, CallInv, Creating,
       Deleting, PlaceInv, ended
  <2>2. /\ \A v \in Tcbs : v # u => pc'[v] = pc[v] /\ local'[v] = local[v]
        /\ IF local[u].del THEN pc'[u] = "free" /\ local'[u] = local[u]
                         ELSE pc'[u] = "user" /\ local'[u] = NoLocal
        /\ UNCHANGED <<grtcthrd, cthd, tcb, mother, mine>>
    BY <1>10, <2>1, RecordTypes DEF NoDetach, Goto, IndInv, TypeOK, Blocks, Locals,
       DetachReturns
  <2>3. /\ \A g \in Handles : Pending(g)' <=> Pending(g)
        /\ \A g \in Handles : Stale(g)' <=> Stale(g)
        /\ \A g \in Handles : Gone(g)' <=> Gone(g)
    BY <2>1, <2>2, RecordTypes, TypeFacts DEF IndInv, TaskInv, CallInv, Creating,
       Deleting, Pending, Stale, Gone
  <2>4. TypeOK'
    BY <1>10, <2>1, <2>2, <2>3, RecordTypes DEF NoDetach, Goto, DetachReturns, IndInv,
       TypeOK, Labels, TcbOrNone, HandleOrNone
  <2>5. TaskInv'
    BY <2>1, <2>2, <2>3, RecordTypes, TypeFacts DEF IndInv, Creating, Deleting, TaskInv
  <2>6. CallInv'
    BY <2>1, <2>2, <2>3, RecordTypes, TypeFacts
       DEF IndInv, Creating, Deleting, CallInv, TaskInv, BlockInv, PlaceInv
  <2>7. BlockInv'
    BY <2>1, <2>2, <2>3, RecordTypes, TypeFacts DEF IndInv, Creating, Deleting, BlockInv
  <2>8. MineInv'
    BY <2>1, <2>2, <2>3, RecordTypes, TypeFacts
       DEF IndInv, Creating, Deleting, MineInv, TaskInv, CallInv, BlockInv, PlaceInv,
       TcbInv
  <2>9. TcbInv'
    BY <2>1, <2>2, <2>3, RecordTypes, TypeFacts
       DEF IndInv, Creating, Deleting, TcbInv, TaskInv, CallInv, BlockInv, MineInv,
       PlaceInv
  <2>10. PlaceInv'
    BY <2>1, <2>2, <2>3, RecordTypes, TypeFacts
       DEF IndInv, Creating, Deleting, PlaceInv, TaskInv, CallInv, BlockInv, MineInv,
       TcbInv
  <2>11. TableInv'
    BY <2>1, <2>2, <2>3, RecordTypes, TypeFacts
       DEF IndInv, Creating, Deleting, TableInv, Listed
  <2>12. ReturnKept'
    BY <2>1, <2>2, <2>3, RecordTypes, TypeFacts
       DEF IndInv, Creating, Deleting, ReturnKept, BlockInv
  <2>13. QED BY <2>4, <2>5, <2>6, <2>7, <2>8, <2>9, <2>10, <2>11, <2>12 DEF IndInv
<1>11. ASSUME NEW u \in Tcbs, detach(u)
      PROVE  IndInv'
  <2>1. /\ tcb[u] = "running" /\ pc[u] = "detach"
        /\ local[u].task \in Handles /\ cthd[local[u].task].alloc
        /\ cthd[local[u].task].held \in {None, u}
        /\ cthd[local[u].task].tcb \in Tcbs
        /\ tcb[cthd[local[u].task].tcb] = "ended"
    BY <1>11, RecordTypes DEF detach, At, IndInv, TypeOK, CallInv, Creating, Deleting,
       PlaceInv, Blocks, TcbOrNone
  <2>2. /\ ~Pending(local[u].task) /\ ~Stale(local[u].task)
        /\ mine[cthd[local[u].task].tcb] = local[u].task
        /\ \A v \in Tcbs : mine[v] = local[u].task => v = cthd[local[u].task].tcb
        /\ \A v \in Tcbs : v # u /\ pc[v] \in {"unlist", "detach"}
                 => cthd[local[v].task].tcb # cthd[local[u].task].tcb
    BY <1>11, <2>1, RecordTypes, TypeFacts DEF IndInv, TaskInv, CallInv, BlockInv,
       MineInv, TcbInv, PlaceInv, Creating, Deleting, Pending, Stale
  <2>3. /\ \A v \in Tcbs : pc'[v] = IF v = u THEN "detached" ELSE pc[v]
        /\ \A v \in Tcbs : tcb'[v] = IF v = cthd[local[u].task].tcb THEN "free" ELSE tcb[v]
        /\ \A v \in Tcbs : mine'[v] = IF v = cthd[local[u].task].tcb THEN None ELSE mine[v]
        /\ UNCHANGED <<grtcthrd, cthd, local>>
    BY <1>11, <2>1, RecordTypes DEF detach, Goto, IndInv, TypeOK, Blocks, Locals
  <2>4. /\ \A g \in Handles : Pending(g)' <=> Pending(g)
        /\ \A g \in Handles : Stale(g)' <=> Stale(g) \/ g = local[u].task
        /\ \A g \in Handles : Gone(g)' <=> Gone(g)
    BY <2>1, <2>2, <2>3, RecordTypes, TypeFacts
       DEF IndInv, TaskInv, CallInv, Creating, Deleting, Pending, Stale, Gone
  <2>5. TypeOK'
    BY SMTT(60), <1>11, <2>1, <2>2, <2>3, <2>4, RecordTypes
       DEF detach, Goto, IndInv, TypeOK, Labels, TcbOrNone, HandleOrNone
  <2>6. TaskInv'
    BY <2>1, <2>2, <2>3, <2>4, RecordTypes, TypeFacts
       DEF IndInv, Creating, Deleting, TaskInv
  <2>7. CallInv'
    BY SMTT(60), <2>1, <2>2, <2>3, <2>4, RecordTypes, TypeFacts
       DEF IndInv, Creating, Deleting, CallInv, TaskInv, BlockInv, PlaceInv
  <2>8. BlockInv'
    BY <2>1, <2>2, <2>3, <2>4, RecordTypes, TypeFacts
       DEF IndInv, Creating, Deleting, BlockInv
  <2>9. MineInv'
    BY <2>1, <2>2, <2>3, <2>4, RecordTypes, TypeFacts
       DEF IndInv, Creating, Deleting, MineInv, TaskInv, CallInv, BlockInv, PlaceInv,
       TcbInv
  <2>10. TcbInv'
    BY <2>1, <2>2, <2>3, <2>4, RecordTypes, TypeFacts
       DEF IndInv, Creating, Deleting, TcbInv, TaskInv, CallInv, BlockInv, MineInv,
       PlaceInv
  <2>11. PlaceInv'
    BY <2>1, <2>2, <2>3, <2>4, RecordTypes, TypeFacts
       DEF IndInv, Creating, Deleting, PlaceInv, TaskInv, CallInv, BlockInv, MineInv,
       TcbInv
  <2>12. TableInv'
    BY <2>1, <2>2, <2>3, <2>4, RecordTypes, TypeFacts
       DEF IndInv, Creating, Deleting, TableInv, Listed
  <2>13. ReturnKept'
    BY <2>1, <2>2, <2>3, <2>4, RecordTypes, TypeFacts
       DEF IndInv, Creating, Deleting, ReturnKept, BlockInv
  <2>14. QED BY <2>5, <2>6, <2>7, <2>8, <2>9, <2>10, <2>11, <2>12, <2>13 DEF IndInv
<1>12. ASSUME NEW u \in Tcbs, Detached(u)
      PROVE  IndInv'
  <2>1. /\ tcb[u] = "running" /\ pc[u] = "detached"
        /\ local[u].task \in Handles /\ cthd[local[u].task].alloc
        /\ cthd[local[u].task].held \in {None, u}
    BY <1>12, RecordTypes DEF Detached, At, IndInv, TypeOK, CallInv, Creating, Deleting
  <2>2. /\ \A v \in Tcbs : v # u => pc'[v] = pc[v] /\ local'[v] = local[v]
        /\ IF local[u].del THEN pc'[u] = "free" /\ local'[u] = local[u]
                         ELSE pc'[u] = "user" /\ local'[u] = NoLocal
        /\ \A g \in Handles : g # local[u].task => cthd'[g] = cthd[g]
        /\ cthd'[local[u].task].tcb = None
        /\ (cthd'[local[u].task].alloc <=> cthd[local[u].task].alloc)
        /\ (cthd'[local[u].task].posted <=> cthd[local[u].task].posted)
        /\ cthd'[local[u].task].rc = cthd[local[u].task].rc
        /\ cthd'[local[u].task].held = cthd[local[u].task].held
        /\ cthd'[local[u].task].res = cthd[local[u].task].res
        /\ UNCHANGED <<grtcthrd, tcb, mother, mine>>
    BY <1>12, <2>1, RecordTypes DEF Detached, Goto, IndInv, TypeOK, Blocks, Locals,
       DetachReturns
  <2>3. /\ \A g \in Handles : Pending(g)' <=> Pending(g)
        /\ \A g \in Handles : Stale(g)' <=> Stale(g) /\ g # local[u].task
        /\ \A g \in Handles : Gone(g)' <=> Gone(g)
    BY <2>1, <2>2, RecordTypes, TypeFacts DEF IndInv, TaskInv, CallInv, Creating,
       Deleting, Pending, Stale, Gone
  <2>4. TypeOK'
    <3>1. cthd[local[u].task] \in Blocks /\ None \in TcbOrNone
      BY <2>1, RecordTypes DEF IndInv, TypeOK, TcbOrNone
    <3>2. [cthd[local[u].task] EXCEPT !.tcb = None] \in Blocks
      BY <3>1, Updates, RecordTypes
    <3>3. cthd' = [cthd EXCEPT ![local[u].task] = [cthd[local[u].task] EXCEPT !.tcb = None]]
      BY <1>12, <2>1, <2>2, <2>3 DEF Detached, IndInv, TypeOK, Blocks
    <3>4. cthd' \in [Handles -> Blocks]
      BY <2>1, <2>2, <2>3, <3>2, <3>3 DEF IndInv, TypeOK
    <3>5. QED
      BY <1>12, <2>1, <2>2, <2>3, <3>1, <3>2, <3>3, <3>4, RecordTypes
         DEF Detached, Goto, DetachReturns, IndInv, TypeOK, Labels, TcbOrNone,
         HandleOrNone
  <2>5. TaskInv'
    BY <2>1, <2>2, <2>3, RecordTypes, TypeFacts DEF IndInv, Creating, Deleting, TaskInv
  <2>6. CallInv'
    BY SMTT(60), <2>1, <2>2, <2>3, RecordTypes, TypeFacts
       DEF IndInv, Creating, Deleting, CallInv, TaskInv, BlockInv, PlaceInv
  <2>7. BlockInv'
    BY <2>1, <2>2, <2>3, RecordTypes, TypeFacts DEF IndInv, Creating, Deleting, BlockInv
  <2>8. MineInv'
    BY SMTT(60), <2>1, <2>2, <2>3, RecordTypes, TypeFacts
       DEF IndInv, Creating, Deleting, MineInv, TaskInv, CallInv, BlockInv, PlaceInv,
       TcbInv
  <2>9. TcbInv'
    BY SMTT(60), <2>1, <2>2, <2>3, RecordTypes, TypeFacts
       DEF IndInv, Creating, Deleting, TcbInv, TaskInv, CallInv, BlockInv, MineInv,
       PlaceInv
  <2>10. PlaceInv'
    BY <2>1, <2>2, <2>3, RecordTypes, TypeFacts
       DEF IndInv, Creating, Deleting, PlaceInv, TaskInv, CallInv, BlockInv, MineInv,
       TcbInv
  <2>11. TableInv'
    BY <2>1, <2>2, <2>3, RecordTypes, TypeFacts
       DEF IndInv, Creating, Deleting, TableInv, Listed
  <2>12. ReturnKept'
    BY <2>1, <2>2, <2>3, RecordTypes, TypeFacts
       DEF IndInv, Creating, Deleting, ReturnKept, BlockInv
  <2>13. QED BY <2>4, <2>5, <2>6, <2>7, <2>8, <2>9, <2>10, <2>11, <2>12 DEF IndInv
<1>13. ASSUME NEW u \in Tcbs, Free(u)
      PROVE  IndInv'
  <2>1. /\ tcb[u] = "running" /\ pc[u] = "free" /\ local[u].del
        /\ local[u].task \in Handles /\ cthd[local[u].task].alloc
        /\ cthd[local[u].task].held \in {None, u}
        /\ cthd[local[u].task].tcb = None
    BY <1>13, RecordTypes DEF Free, At, IndInv, TypeOK, CallInv, Creating, Deleting,
       PlaceInv
  <2>2. /\ ~Pending(local[u].task) /\ ~Stale(local[u].task) /\ Gone(local[u].task)
        /\ \A v \in Tcbs : mine[v] # local[u].task
    BY <1>13, <2>1, RecordTypes, TypeFacts DEF IndInv, TaskInv, CallInv, BlockInv,
       MineInv, TcbInv, PlaceInv, Creating, Deleting, Pending, Stale, Gone
  <2>3. /\ \A v \in Tcbs : pc'[v] = IF v = u THEN "user" ELSE pc[v]
        /\ \A v \in Tcbs : local'[v] = IF v = u THEN NoLocal ELSE local[v]
        /\ \A g \in Handles : cthd'[g] = IF g = local[u].task THEN NoBlock ELSE cthd[g]
        /\ UNCHANGED <<grtcthrd, tcb, mother, mine>>
    BY <1>13, <2>1, RecordTypes DEF Free, Goto, IndInv, TypeOK, Blocks, Locals
  <2>4. /\ \A g \in Handles : Pending(g)' <=> Pending(g)
        /\ \A g \in Handles : Stale(g)' <=> Stale(g)
        /\ \A g \in Handles : Gone(g)' <=> Gone(g) /\ g # local[u].task
    BY <2>1, <2>2, <2>3, RecordTypes, TypeFacts
       DEF IndInv, TaskInv, CallInv, Creating, Deleting, Pending, Stale, Gone
  <2>5. TypeOK'
    BY <1>13, <2>1, <2>2, <2>3, <2>4, RecordTypes
       DEF Free, Goto, IndInv, TypeOK, Labels, TcbOrNone, HandleOrNone
  <2>6. TaskInv'
    BY <2>1, <2>2, <2>3, <2>4, RecordTypes, TypeFacts
       DEF IndInv, Creating, Deleting, TaskInv
  <2>7. CallInv'
    BY <2>1, <2>2, <2>3, <2>4, RecordTypes, TypeFacts
       DEF IndInv, Creating, Deleting, CallInv, TaskInv, BlockInv, PlaceInv
  <2>8. BlockInv'
    BY <2>1, <2>2, <2>3, <2>4, RecordTypes, TypeFacts
       DEF IndInv, Creating, Deleting, BlockInv
  <2>9. MineInv'
    BY <2>1, <2>2, <2>3, <2>4, RecordTypes, TypeFacts
       DEF IndInv, Creating, Deleting, MineInv, TaskInv, CallInv, BlockInv, PlaceInv,
       TcbInv
  <2>10. TcbInv'
    BY <2>1, <2>2, <2>3, <2>4, RecordTypes, TypeFacts
       DEF IndInv, Creating, Deleting, TcbInv, TaskInv, CallInv, BlockInv, MineInv,
       PlaceInv
  <2>11. PlaceInv'
    BY <2>1, <2>2, <2>3, <2>4, RecordTypes, TypeFacts
       DEF IndInv, Creating, Deleting, PlaceInv, TaskInv, CallInv, BlockInv, MineInv,
       TcbInv
  <2>12. TableInv'
    BY <2>1, <2>2, <2>3, <2>4, RecordTypes, TypeFacts
       DEF IndInv, Creating, Deleting, TableInv, Listed
  <2>13. ReturnKept'
    BY <2>1, <2>2, <2>3, <2>4, RecordTypes, TypeFacts
       DEF IndInv, Creating, Deleting, ReturnKept, BlockInv
  <2>14. QED BY <2>5, <2>6, <2>7, <2>8, <2>9, <2>10, <2>11, <2>12, <2>13 DEF IndInv
<1>14. ASSUME NEW u \in Tcbs, CTHREAD(u)
      PROVE  IndInv'
  <2>1. /\ tcb[u] = "running" /\ pc[u] = "start"
        /\ mine[u] \in Handles
        /\ local[u] = NoLocal
    BY <1>14, RecordTypes DEF CTHREAD, At, IndInv, TypeOK, TaskInv, HandleOrNone
  <2>2. /\ cthd[mine[u]].alloc /\ ~Stale(mine[u]) /\ ~cthd[mine[u]].posted
        /\ cthd[mine[u]].tcb \in {None, u}
        /\ cthd[mine[u]].tcb = None => Pending(mine[u])
        /\ \A v \in Tcbs : pc[v] \in Creating \cup Deleting /\ local[v].task = mine[u]
                 => pc[v] = "store" /\ local[v].r1 = u
    BY <1>14, <2>1, RecordTypes, TypeFacts DEF IndInv, TaskInv, CallInv, BlockInv,
       MineInv, TcbInv, PlaceInv, Creating, Deleting, Pending, Stale
  <2>3. /\ \A v \in Tcbs : pc'[v] = IF v = u THEN "user" ELSE pc[v]
        /\ \A g \in Handles : g # mine[u] => cthd'[g] = cthd[g]
        /\ cthd'[mine[u]].tcb = u
        /\ (cthd'[mine[u]].alloc <=> cthd[mine[u]].alloc)
        /\ (cthd'[mine[u]].posted <=> cthd[mine[u]].posted)
        /\ cthd'[mine[u]].rc = cthd[mine[u]].rc
        /\ cthd'[mine[u]].held = cthd[mine[u]].held
        /\ cthd'[mine[u]].res = cthd[mine[u]].res
        /\ UNCHANGED <<grtcthrd, tcb, mother, mine, local>>
    BY <1>14, <2>1, RecordTypes DEF CTHREAD, Goto, IndInv, TypeOK, Blocks, Locals
  <2>4. /\ \A g \in Handles : Pending(g)' <=> Pending(g)
        /\ \A g \in Handles : Stale(g)' <=> Stale(g)
        /\ \A g \in Handles : Gone(g)' <=> Gone(g)
    BY <2>1, <2>2, <2>3, RecordTypes, TypeFacts
       DEF IndInv, TaskInv, CallInv, Creating, Deleting, Pending, Stale, Gone
  <2>5. TypeOK'
    <3>1. cthd[mine[u]] \in Blocks /\ u \in TcbOrNone
      BY <2>1, RecordTypes DEF IndInv, TypeOK, TcbOrNone
    <3>2. [cthd[mine[u]] EXCEPT !.tcb = u] \in Blocks
      BY <3>1, Updates, RecordTypes
    <3>3. cthd' = [cthd EXCEPT ![mine[u]] = [cthd[mine[u]] EXCEPT !.tcb = u]]
      BY <1>14, <2>1, <2>2, <2>3, <2>4 DEF CTHREAD, IndInv, TypeOK, Blocks
    <3>4. cthd' \in [Handles -> Blocks]
      BY <2>1, <2>2, <2>3, <2>4, <3>2, <3>3 DEF IndInv, TypeOK
    <3>5. QED
      BY <1>14, <2>1, <2>2, <2>3, <2>4, <3>1, <3>2, <3>3, <3>4, RecordTypes
         DEF CTHREAD, Goto, IndInv, TypeOK, Labels, TcbOrNone, HandleOrNone
  <2>6. TaskInv'
    BY <2>1, <2>2, <2>3, <2>4, RecordTypes, TypeFacts
       DEF IndInv, Creating, Deleting, TaskInv
  <2>7. CallInv'
    BY <2>1, <2>2, <2>3, <2>4, RecordTypes, TypeFacts
       DEF IndInv, Creating, Deleting, CallInv, TaskInv, BlockInv, PlaceInv
  <2>8. BlockInv'
    BY <2>1, <2>2, <2>3, <2>4, RecordTypes, TypeFacts
       DEF IndInv, Creating, Deleting, BlockInv
  <2>9. MineInv'
    BY <2>1, <2>2, <2>3, <2>4, RecordTypes, TypeFacts
       DEF IndInv, Creating, Deleting, MineInv, TaskInv, CallInv, BlockInv, PlaceInv,
       TcbInv
  <2>10. TcbInv'
    BY <2>1, <2>2, <2>3, <2>4, RecordTypes, TypeFacts
       DEF IndInv, Creating, Deleting, TcbInv, TaskInv, CallInv, BlockInv, MineInv,
       PlaceInv
  <2>11. PlaceInv'
    BY <2>1, <2>2, <2>3, <2>4, RecordTypes, TypeFacts
       DEF IndInv, Creating, Deleting, PlaceInv, TaskInv, CallInv, BlockInv, MineInv,
       TcbInv
  <2>12. TableInv'
    BY <2>1, <2>2, <2>3, <2>4, RecordTypes, TypeFacts
       DEF IndInv, Creating, Deleting, TableInv, Listed
  <2>13. ReturnKept'
    BY <2>1, <2>2, <2>3, <2>4, RecordTypes, TypeFacts
       DEF IndInv, Creating, Deleting, ReturnKept, BlockInv
  <2>14. QED BY <2>5, <2>6, <2>7, <2>8, <2>9, <2>10, <2>11, <2>12, <2>13 DEF IndInv
<1>15. ASSUME NEW u \in Tcbs, TaskEnds(u)
      PROVE  IndInv'
  <2>1. /\ u # Main /\ tcb[u] = "running" /\ pc[u] \in {"user", "exit"}
        /\ mine[u] \in Handles
        /\ local[u] = NoLocal
    BY <1>15, RecordTypes DEF TaskEnds, At, IndInv, TypeOK, TaskInv, HandleOrNone
  <2>2. /\ cthd[mine[u]].alloc /\ cthd[mine[u]].tcb = u
    BY <1>15, <2>1, RecordTypes, TypeFacts DEF IndInv, TaskInv, CallInv, BlockInv,
       MineInv, TcbInv, PlaceInv, Creating, Deleting
  <2>3. /\ \A v \in Tcbs : tcb'[v] = IF v = u THEN "ended" ELSE tcb[v]
        /\ \A g \in Handles :
              /\ (cthd'[g].alloc <=> cthd[g].alloc) /\ cthd'[g].tcb = cthd[g].tcb
              /\ cthd'[g].rc = cthd[g].rc /\ cthd'[g].res = cthd[g].res
              /\ cthd'[g].posted <=> (cthd[g].posted \/ g = mine[u])
              /\ cthd'[g].held = IF cthd[g].held = u THEN None ELSE cthd[g].held
        /\ UNCHANGED <<grtcthrd, mother, mine, pc, local>>
    BY <1>15, <2>1, RecordTypes DEF TaskEnds, Goto, IndInv, TypeOK, Blocks, Locals
  <2>4. /\ \A g \in Handles : Pending(g)' <=> Pending(g)
        /\ \A g \in Handles : Stale(g)' <=> Stale(g)
        /\ \A g \in Handles : Gone(g)' <=> Gone(g)
    BY <2>1, <2>2, <2>3, RecordTypes, TypeFacts
       DEF IndInv, TaskInv, CallInv, Creating, Deleting, Pending, Stale, Gone
  <2>5. TypeOK'
    <3>1. \A p \in BOOLEAN, v \in TcbOrNone, g \in Handles : [cthd[g] EXCEPT !.posted = p, !.held = v] \in Blocks
      BY Updates, RecordTypes DEF IndInv, TypeOK
    <3>2. \A g \in Handles : /\ cthd[g].posted \in BOOLEAN /\ cthd[g].held \in TcbOrNone
                            /\ cthd'[g] = [cthd[g] EXCEPT !.posted = @ \/ g = mine[u],
                                                   !.held = IF @ = u THEN None ELSE @]
      BY <1>15 DEF TaskEnds, IndInv, TypeOK, Blocks
    <3>3. ASSUME NEW g \in Handles PROVE cthd'[g] \in Blocks
      <4> DEFINE p == cthd[g].posted \/ g = mine[u]
                 v == IF cthd[g].held = u THEN None ELSE cthd[g].held
      <4>1. p \in BOOLEAN /\ v \in TcbOrNone
        BY <3>2 DEF TcbOrNone
      <4>2. cthd'[g] = [cthd[g] EXCEPT !.posted = p, !.held = v]
        BY <3>2
      <4> HIDE DEF p, v
      <4>3. [cthd[g] EXCEPT !.posted = p, !.held = v] \in Blocks
        BY <3>1, <4>1
      <4>4. QED BY <4>2, <4>3
    <3>4. cthd' \in [Handles -> Blocks]
      BY <1>15, <3>3 DEF TaskEnds
    <3>5. QED
      BY <1>15, <3>4 DEF TaskEnds, IndInv, TypeOK
  <2>6. TaskInv'
    BY <2>1, <2>2, <2>3, <2>4, RecordTypes, TypeFacts
       DEF IndInv, Creating, Deleting, TaskInv
  <2>7. CallInv'
    BY <2>1, <2>2, <2>3, <2>4, RecordTypes, TypeFacts
       DEF IndInv, Creating, Deleting, CallInv, TaskInv, BlockInv, PlaceInv
  <2>8. BlockInv'
    BY <2>1, <2>2, <2>3, <2>4, RecordTypes, TypeFacts
       DEF IndInv, Creating, Deleting, BlockInv
  <2>9. MineInv'
    BY <2>1, <2>2, <2>3, <2>4, RecordTypes, TypeFacts
       DEF IndInv, Creating, Deleting, MineInv, TaskInv, CallInv, BlockInv, PlaceInv,
       TcbInv
  <2>10. TcbInv'
    BY <2>1, <2>2, <2>3, <2>4, RecordTypes, TypeFacts
       DEF IndInv, Creating, Deleting, TcbInv, TaskInv, CallInv, BlockInv, MineInv,
       PlaceInv
  <2>11. PlaceInv'
    BY <2>1, <2>2, <2>3, <2>4, RecordTypes, TypeFacts
       DEF IndInv, Creating, Deleting, PlaceInv, TaskInv, CallInv, BlockInv, MineInv,
       TcbInv
  <2>12. TableInv'
    BY <2>1, <2>2, <2>3, <2>4, RecordTypes, TypeFacts
       DEF IndInv, Creating, Deleting, TableInv, Listed
  <2>13. ReturnKept'
    BY <2>1, <2>2, <2>3, <2>4, RecordTypes, TypeFacts
       DEF IndInv, Creating, Deleting, ReturnKept, BlockInv
  <2>14. QED BY <2>5, <2>6, <2>7, <2>8, <2>9, <2>10, <2>11, <2>12, <2>13 DEF IndInv
<1>16. ASSUME NEW u \in Tcbs, NEW r \in Rcs, CTEXIT(u, r)
      PROVE  IndInv'
  <2>1. /\ u # Main /\ tcb[u] = "running" /\ pc[u] = "user"
        /\ mine[u] \in Handles
        /\ local[u] = NoLocal
    BY <1>16, RecordTypes DEF CTEXIT, At, IndInv, TypeOK, TaskInv, HandleOrNone
  <2>2. /\ \A v \in Tcbs : pc'[v] = IF v = u THEN "exit" ELSE pc[v]
        /\ \A g \in Handles : g # mine[u] => cthd'[g] = cthd[g]
        /\ cthd'[mine[u]].rc = r /\ cthd'[mine[u]].res = r
        /\ (cthd'[mine[u]].alloc <=> cthd[mine[u]].alloc)
        /\ cthd'[mine[u]].tcb = cthd[mine[u]].tcb
        /\ (cthd'[mine[u]].posted <=> cthd[mine[u]].posted)
        /\ cthd'[mine[u]].held = cthd[mine[u]].held
        /\ UNCHANGED <<grtcthrd, tcb, mother, mine, local>>
    BY <1>16, <2>1, RecordTypes DEF CTEXIT, Goto, IndInv, TypeOK, Blocks, Locals
  <2>3. /\ \A g \in Handles : Pending(g)' <=> Pending(g)
        /\ \A g \in Handles : Stale(g)' <=> Stale(g)
        /\ \A g \in Handles : Gone(g)' <=> Gone(g)
    BY <2>1, <2>2, RecordTypes, TypeFacts DEF IndInv, TaskInv, CallInv, Creating,
       Deleting, Pending, Stale, Gone
  <2>4. TypeOK'
    <3>1. [cthd[mine[u]] EXCEPT !.rc = r, !.res = r] \in Blocks
      BY ZenonT(60), <1>16, <2>1, <2>2, <2>3 DEF IndInv, TypeOK, Blocks, TcbOrNone
    <3>2. cthd' = [cthd EXCEPT ![mine[u]] = [cthd[mine[u]] EXCEPT !.rc = r, !.res = r]]
      BY <1>16, <2>1, <2>2, <2>3 DEF CTEXIT, IndInv, TypeOK, Blocks
    <3>3. cthd' \in [Handles -> Blocks]
      BY <2>1, <2>2, <2>3, <3>1, <3>2 DEF IndInv, TypeOK
    <3>4. QED
      BY <1>16, <2>1, <2>2, <2>3, <3>1, <3>2, <3>3, RecordTypes
         DEF CTEXIT, Goto, IndInv, TypeOK, Labels, TcbOrNone, HandleOrNone
  <2>5. TaskInv'
    BY <2>1, <2>2, <2>3, RecordTypes, TypeFacts DEF IndInv, Creating, Deleting, TaskInv
  <2>6. CallInv'
    BY <2>1, <2>2, <2>3, RecordTypes, TypeFacts
       DEF IndInv, Creating, Deleting, CallInv, TaskInv, BlockInv, PlaceInv
  <2>7. BlockInv'
    BY <2>1, <2>2, <2>3, RecordTypes, TypeFacts DEF IndInv, Creating, Deleting, BlockInv
  <2>8. MineInv'
    BY <2>1, <2>2, <2>3, RecordTypes, TypeFacts
       DEF IndInv, Creating, Deleting, MineInv, TaskInv, CallInv, BlockInv, PlaceInv,
       TcbInv
  <2>9. TcbInv'
    BY <2>1, <2>2, <2>3, RecordTypes, TypeFacts
       DEF IndInv, Creating, Deleting, TcbInv, TaskInv, CallInv, BlockInv, MineInv,
       PlaceInv
  <2>10. PlaceInv'
    BY <2>1, <2>2, <2>3, RecordTypes, TypeFacts
       DEF IndInv, Creating, Deleting, PlaceInv, TaskInv, CallInv, BlockInv, MineInv,
       TcbInv
  <2>11. TableInv'
    BY <2>1, <2>2, <2>3, RecordTypes, TypeFacts
       DEF IndInv, Creating, Deleting, TableInv, Listed
  <2>12. ReturnKept'
    BY <2>1, <2>2, <2>3, RecordTypes, TypeFacts
       DEF IndInv, Creating, Deleting, ReturnKept, BlockInv
  <2>13. QED BY <2>4, <2>5, <2>6, <2>7, <2>8, <2>9, <2>10, <2>11, <2>12 DEF IndInv
<1>17. ASSUME NEW u \in Tcbs, NEW h \in Handles, cthread_wait(u, h)
      PROVE  IndInv'
  <2>1. /\ tcb[u] = "running" /\ pc[u] = "user"
    BY <1>17, RecordTypes DEF cthread_wait, At, IndInv, TypeOK
  <2>2. /\ \A g \in Handles : g # h => cthd'[g] = cthd[g]
        /\ cthd'[h].posted <=> FALSE
        /\ (cthd'[h].alloc <=> cthd[h].alloc) /\ cthd'[h].tcb = cthd[h].tcb
        /\ cthd'[h].rc = cthd[h].rc /\ cthd'[h].held = cthd[h].held
        /\ cthd'[h].res = cthd[h].res
        /\ UNCHANGED <<grtcthrd, tcb, mother, mine, pc, local>>
    BY <1>17, <2>1, RecordTypes DEF cthread_wait, Goto, IndInv, TypeOK, Blocks, Locals
  <2>3. /\ \A g \in Handles : Pending(g)' <=> Pending(g)
        /\ \A g \in Handles : Stale(g)' <=> Stale(g)
        /\ \A g \in Handles : Gone(g)' <=> Gone(g)
    BY <2>1, <2>2, RecordTypes, TypeFacts DEF IndInv, TaskInv, CallInv, Creating,
       Deleting, Pending, Stale, Gone
  <2>4. TypeOK'
    <3>1. [cthd[h] EXCEPT !.posted = FALSE] \in Blocks
      BY ZenonT(60), <1>17, <2>1, <2>2, <2>3 DEF IndInv, TypeOK, Blocks, TcbOrNone
    <3>2. cthd' = [cthd EXCEPT ![h] = [cthd[h] EXCEPT !.posted = FALSE]]
      BY <1>17, <2>1, <2>2, <2>3 DEF cthread_wait, IndInv, TypeOK, Blocks
    <3>3. cthd' \in [Handles -> Blocks]
      BY <2>1, <2>2, <2>3, <3>1, <3>2 DEF IndInv, TypeOK
    <3>4. QED
      BY <1>17, <2>1, <2>2, <2>3, <3>1, <3>2, <3>3, RecordTypes
         DEF cthread_wait, Goto, IndInv, TypeOK, Labels, TcbOrNone, HandleOrNone
  <2>5. TaskInv'
    BY <2>1, <2>2, <2>3, RecordTypes, TypeFacts DEF IndInv, Creating, Deleting, TaskInv
  <2>6. CallInv'
    BY <2>1, <2>2, <2>3, RecordTypes, TypeFacts
       DEF IndInv, Creating, Deleting, CallInv, TaskInv, BlockInv, PlaceInv
  <2>7. BlockInv'
    BY <2>1, <2>2, <2>3, RecordTypes, TypeFacts DEF IndInv, Creating, Deleting, BlockInv
  <2>8. MineInv'
    BY <2>1, <2>2, <2>3, RecordTypes, TypeFacts
       DEF IndInv, Creating, Deleting, MineInv, TaskInv, CallInv, BlockInv, PlaceInv,
       TcbInv
  <2>9. TcbInv'
    BY <2>1, <2>2, <2>3, RecordTypes, TypeFacts
       DEF IndInv, Creating, Deleting, TcbInv, TaskInv, CallInv, BlockInv, MineInv,
       PlaceInv
  <2>10. PlaceInv'
    BY <2>1, <2>2, <2>3, RecordTypes, TypeFacts
       DEF IndInv, Creating, Deleting, PlaceInv, TaskInv, CallInv, BlockInv, MineInv,
       TcbInv
  <2>11. TableInv'
    BY <2>1, <2>2, <2>3, RecordTypes, TypeFacts
       DEF IndInv, Creating, Deleting, TableInv, Listed
  <2>12. ReturnKept'
    BY <2>1, <2>2, <2>3, RecordTypes, TypeFacts
       DEF IndInv, Creating, Deleting, ReturnKept, BlockInv
  <2>13. QED BY <2>4, <2>5, <2>6, <2>7, <2>8, <2>9, <2>10, <2>11, <2>12 DEF IndInv
<1>18. ASSUME NEW u \in Tcbs, NEW h \in Handles, cthread_delete(u, h)
      PROVE  IndInv'
  <2>1. /\ tcb[u] = "running" /\ pc[u] = "user"
        /\ cthd[h].held = u /\ cthd[h].alloc
        /\ \A v \in Tcbs : ~InCall(v, h)
        /\ cthd[h].tcb # None => tcb[cthd[h].tcb] = "ended"
    BY <1>18, RecordTypes DEF cthread_delete, At, IndInv, TypeOK, CallInv, Creating,
       Deleting, BlockInv, TcbInv, Stale, InCall, Deletable, ended
  <2>2. /\ \A v \in Tcbs : pc'[v] = IF v = u THEN "unlist" ELSE pc[v]
        /\ \A v \in Tcbs : v # u => local'[v] = local[v]
        /\ local'[u].task = h /\ local'[u].r1 = None /\ local'[u].del
        /\ UNCHANGED <<grtcthrd, cthd, tcb, mother, mine>>
    BY <1>18, <2>1, RecordTypes DEF cthread_delete, Goto, IndInv, TypeOK, NoLocal
  <2>3. /\ \A g \in Handles : Pending(g)' <=> Pending(g)
        /\ \A g \in Handles : Stale(g)' <=> Stale(g)
        /\ \A g \in Handles : Gone(g)' <=> Gone(g)
    BY <2>1, <2>2, RecordTypes, TypeFacts DEF IndInv, TaskInv, CallInv, Creating,
       Deleting, Pending, Stale, Gone
  <2>4. TypeOK'
    <3>1. [NoLocal EXCEPT !.task = h, !.del = TRUE] \in Locals
      BY <1>18, <2>1, <2>2, <2>3, RecordTypes, HandleAssumption
         DEF IndInv, TypeOK, Locals, TcbOrNone, HandleOrNone
    <3>2. local' = [local EXCEPT ![u] = [NoLocal EXCEPT !.task = h, !.del = TRUE]]
      BY <1>18 DEF cthread_delete, IndInv, TypeOK, Locals
    <3>3. local' \in [Tcbs -> Locals]
      BY <3>1, <3>2 DEF IndInv, TypeOK
    <3>4. QED
      BY <1>18, <2>1, <2>2, <2>3, <3>1, <3>2, <3>3, RecordTypes
         DEF cthread_delete, Goto, IndInv, TypeOK, Labels, TcbOrNone, HandleOrNone
  <2>5. TaskInv'
    BY <2>1, <2>2, <2>3, RecordTypes, TypeFacts DEF IndInv, Creating, Deleting, TaskInv
  <2>6. CallInv'
    BY <2>1, <2>2, <2>3, RecordTypes, TypeFacts
       DEF IndInv, Creating, Deleting, CallInv, TaskInv, BlockInv, PlaceInv
  <2>7. BlockInv'
    BY <2>1, <2>2, <2>3, RecordTypes, TypeFacts DEF IndInv, Creating, Deleting, BlockInv
  <2>8. MineInv'
    BY <2>1, <2>2, <2>3, RecordTypes, TypeFacts
       DEF IndInv, Creating, Deleting, MineInv, TaskInv, CallInv, BlockInv, PlaceInv,
       TcbInv
  <2>9. TcbInv'
    BY <2>1, <2>2, <2>3, RecordTypes, TypeFacts
       DEF IndInv, Creating, Deleting, TcbInv, TaskInv, CallInv, BlockInv, MineInv,
       PlaceInv
  <2>10. PlaceInv'
    BY <2>1, <2>2, <2>3, RecordTypes, TypeFacts
       DEF IndInv, Creating, Deleting, PlaceInv, TaskInv, CallInv, BlockInv, MineInv,
       TcbInv
  <2>11. TableInv'
    BY <2>1, <2>2, <2>3, RecordTypes, TypeFacts
       DEF IndInv, Creating, Deleting, TableInv, Listed
  <2>12. ReturnKept'
    BY <2>1, <2>2, <2>3, RecordTypes, TypeFacts
       DEF IndInv, Creating, Deleting, ReturnKept, BlockInv
  <2>13. QED BY <2>4, <2>5, <2>6, <2>7, <2>8, <2>9, <2>10, <2>11, <2>12 DEF IndInv
<1>19. ASSUME NEW u \in Tcbs, NEW h \in Handles, cthread_detach(u, h)
      PROVE  IndInv'
  <2>1. /\ tcb[u] = "running" /\ pc[u] = "user"
        /\ cthd[h].held = u /\ cthd[h].alloc
        /\ \A v \in Tcbs : ~InCall(v, h)
        /\ tcb[cthd[h].tcb] = "ended"
    BY <1>19, RecordTypes DEF cthread_detach, At, IndInv, TypeOK, CallInv, Creating,
       Deleting, BlockInv, TcbInv, Stale, InCall, ended
  <2>2. /\ \A v \in Tcbs : pc'[v] = IF v = u THEN "detach" ELSE pc[v]
        /\ \A v \in Tcbs : v # u => local'[v] = local[v]
        /\ local'[u].task = h /\ local'[u].r1 = None /\ ~local'[u].del
        /\ UNCHANGED <<grtcthrd, cthd, tcb, mother, mine>>
    BY <1>19, <2>1, RecordTypes DEF cthread_detach, Goto, IndInv, TypeOK, NoLocal
  <2>3. /\ \A g \in Handles : Pending(g)' <=> Pending(g)
        /\ \A g \in Handles : Stale(g)' <=> Stale(g)
        /\ \A g \in Handles : Gone(g)' <=> Gone(g)
    BY <2>1, <2>2, RecordTypes, TypeFacts DEF IndInv, TaskInv, CallInv, Creating,
       Deleting, Pending, Stale, Gone
  <2>4. TypeOK'
    <3>1. [NoLocal EXCEPT !.task = h] \in Locals
      BY <1>19, <2>1, <2>2, <2>3, RecordTypes, HandleAssumption
         DEF IndInv, TypeOK, Locals, TcbOrNone, HandleOrNone
    <3>2. local' = [local EXCEPT ![u] = [NoLocal EXCEPT !.task = h]]
      BY <1>19 DEF cthread_detach, IndInv, TypeOK, Locals
    <3>3. local' \in [Tcbs -> Locals]
      BY <3>1, <3>2 DEF IndInv, TypeOK
    <3>4. QED
      BY <1>19, <2>1, <2>2, <2>3, <3>1, <3>2, <3>3, RecordTypes
         DEF cthread_detach, Goto, IndInv, TypeOK, Labels, TcbOrNone, HandleOrNone
  <2>5. TaskInv'
    BY <2>1, <2>2, <2>3, RecordTypes, TypeFacts DEF IndInv, Creating, Deleting, TaskInv
  <2>6. CallInv'
    BY <2>1, <2>2, <2>3, RecordTypes, TypeFacts
       DEF IndInv, Creating, Deleting, CallInv, TaskInv, BlockInv, PlaceInv
  <2>7. BlockInv'
    BY <2>1, <2>2, <2>3, RecordTypes, TypeFacts DEF IndInv, Creating, Deleting, BlockInv
  <2>8. MineInv'
    BY <2>1, <2>2, <2>3, RecordTypes, TypeFacts
       DEF IndInv, Creating, Deleting, MineInv, TaskInv, CallInv, BlockInv, PlaceInv,
       TcbInv
  <2>9. TcbInv'
    BY <2>1, <2>2, <2>3, RecordTypes, TypeFacts
       DEF IndInv, Creating, Deleting, TcbInv, TaskInv, CallInv, BlockInv, MineInv,
       PlaceInv
  <2>10. PlaceInv'
    BY <2>1, <2>2, <2>3, RecordTypes, TypeFacts
       DEF IndInv, Creating, Deleting, PlaceInv, TaskInv, CallInv, BlockInv, MineInv,
       TcbInv
  <2>11. TableInv'
    BY <2>1, <2>2, <2>3, RecordTypes, TypeFacts
       DEF IndInv, Creating, Deleting, TableInv, Listed
  <2>12. ReturnKept'
    BY <2>1, <2>2, <2>3, RecordTypes, TypeFacts
       DEF IndInv, Creating, Deleting, ReturnKept, BlockInv
  <2>13. QED BY <2>4, <2>5, <2>6, <2>7, <2>8, <2>9, <2>10, <2>11, <2>12 DEF IndInv
<1>20. CASE UNCHANGED vars
  <2>1. TypeOK'
    BY <1>20 DEF vars, IndInv, TypeOK
  <2>2. TaskInv'
    BY <1>20 DEF vars, IndInv, TaskInv, Creating, Deleting
  <2>3. CallInv'
    BY <1>20 DEF vars, IndInv, CallInv, Creating, Deleting
  <2>4. BlockInv'
    BY <1>20 DEF vars, IndInv, BlockInv
  <2>5. MineInv'
    BY <1>20 DEF vars, IndInv, MineInv, Pending
  <2>6. TcbInv'
    BY <1>20 DEF vars, IndInv, TcbInv, Stale
  <2>7. PlaceInv'
    BY <1>20 DEF vars, IndInv, PlaceInv, Creating, Deleting
  <2>8. TableInv'
    BY <1>20 DEF vars, IndInv, TableInv, Listed, Gone
  <2>9. ReturnKept'
    BY <1>20 DEF vars, IndInv, ReturnKept
  <2>10. QED BY <2>1, <2>2, <2>3, <2>4, <2>5, <2>6, <2>7, <2>8, <2>9 DEF IndInv
<1>21. QED BY <1>1, <1>2, <1>3, <1>4, <1>5, <1>6, <1>7, <1>8, <1>9, <1>10, <1>11,
              <1>12, <1>13, <1>14, <1>15, <1>16, <1>17, <1>18, <1>19, <1>20
              DEF Next, Step

----------------------------------------------------------------------------
(* The program starts with the main task, no handle and an empty table.    *)
LEMMA Initial == Init => IndInv
<1> USE TcbAssumption, HandleAssumption, RcAssumption
<1> SUFFICES ASSUME Init PROVE IndInv
  OBVIOUS
<1>1. TypeOK
  BY RecordTypes DEF Init, TypeOK, Labels, TcbOrNone, HandleOrNone
<1>2. TaskInv /\ CallInv /\ BlockInv /\ MineInv /\ TcbInv /\ PlaceInv /\ ReturnKept
  BY RecordTypes DEF Init, TaskInv, CallInv, BlockInv, MineInv, TcbInv, PlaceInv,
     ReturnKept,
                     Creating, Deleting
<1>3. TableInv
  BY RecordTypes DEF Init, TableInv, Listed
<1>4. QED BY <1>1, <1>2, <1>3 DEF IndInv

LEMMA Invariant == Spec => []IndInv
<1>1. Init => IndInv
  BY Initial
<1>2. IndInv /\ [Next]_vars => IndInv'
  BY Inductive
<1>3. QED BY <1>1, <1>2, PTL DEF Spec

----------------------------------------------------------------------------
(* What the invariant says of the table. *)

(* A handle on its way through cthread_delete() has left the table. *)
LEMMA GoneIsLeaving ==
    ASSUME IndInv, NEW h \in Handles
    PROVE  Gone(h) <=> h \in Leaving
  BY RecordTypes DEF IndInv, TaskInv, Gone, Leaving, Deleting

LEMMA TableIsExact == ASSUME IndInv PROVE TableExact
<1>1. \A i \in 1 .. Len(grtcthrd) : grtcthrd[i] \in Handles
  BY DEF IndInv, TypeOK
<1>2. \A h \in Handles : Listed(h) <=> cthd[h].alloc /\ h \notin Leaving
  BY GoneIsLeaving DEF IndInv, TableInv
<1>3. {grtcthrd[i] : i \in 1 .. Len(grtcthrd)} = {h \in Handles : cthd[h].alloc} \ Leaving
  BY <1>1, <1>2 DEF Listed
<1>4. QED BY <1>3 DEF TableExact, IndInv, TableInv

(* cthread_find() of a running task: of the handles with its TCB address   *)
(* only its own is listed, but for one whose DETACH is under way.          *)
LEMMA SelfIsFound == ASSUME IndInv PROVE SelfIsOwn
<1> USE TcbAssumption, HandleAssumption
<1> SUFFICES ASSUME NEW u \in Tcbs, tcb[u] = "running", pc[u] # "start", ~Detaching(u)
             PROVE  cthread_find(u) = mine[u]
  BY DEF SelfIsOwn
<1> DEFINE f == cthread_find(u)
<1>1. /\ f = None => \A h \in Handles : Listed(h) => cthd[h].tcb # u
      /\ f # None => f \in Handles /\ Listed(f) /\ cthd[f].tcb = u
  BY FindFacts DEF IndInv
<1> HIDE DEF f
<1>2. f # None => mine[u] = f
  <2> SUFFICES ASSUME f # None PROVE mine[u] = f
    OBVIOUS
  <2>1. f \in Handles /\ ~Gone(f) /\ cthd[f].tcb = u
    BY <1>1 DEF IndInv, TableInv
  <2>2. ~Stale(f)
    BY <2>1 DEF Stale, Gone, Detaching
  <2>3. QED BY <2>1, <2>2 DEF IndInv, TcbInv
<1>3. mine[u] # None => f # None
  <2> SUFFICES ASSUME mine[u] # None PROVE f # None
    OBVIOUS
  <2> DEFINE h == mine[u]
  <2>1. h \in Handles /\ cthd[h].alloc /\ cthd[h].tcb = u
    BY TypeFacts DEF IndInv, MineInv
  <2>2. ~Gone(h)
    BY <2>1 DEF Gone, IndInv, PlaceInv
  <2>3. Listed(h)
    BY <2>1, <2>2 DEF IndInv, TableInv
  <2>4. QED BY <1>1, <2>1, <2>3
<1>4. QED BY <1>2, <1>3 DEF f

LEMMA EndSeen == ASSUME IndInv PROVE EndIsSeen
<1> USE TcbAssumption, HandleAssumption
<1> SUFFICES ASSUME NEW u \in Tcbs, u # Main, mine[u] # None, cthd[mine[u]].held # None
             PROVE  ended(mine[u]) <=> tcb[u] = "ended"
  BY DEF EndIsSeen
<1>1. mine[u] \in Handles
  BY TypeFacts DEF IndInv
<1>2. cthd[mine[u]].tcb = u
  BY DEF IndInv, MineInv, CallInv, Pending, Creating
<1>3. ~Stale(mine[u])
  BY DEF IndInv, PlaceInv, Stale
<1>4. QED BY <1>1, <1>2, <1>3 DEF ended, IndInv, TcbInv

----------------------------------------------------------------------------
(* Every variable holds a value of its kind. *)
THEOREM ThreadTyped == Spec => []TypeOK
<1>1. IndInv => TypeOK
  BY DEF IndInv
<1>2. QED BY <1>1, Invariant, PTL

(* cthread_delete() and a failed cthread_create_ex() free no handle whose  *)
(* subtask still runs on the stack in it (#11, #465).                      *)
THEOREM StackIsKept == Spec => []StackInUse
<1>1. IndInv => StackInUse
  BY DEF IndInv, MineInv, StackInUse
<1>2. QED BY <1>1, Invariant, PTL

(* What cthread_wait(), cthread_delete() and cthread_detach() learn of a   *)
(* thread's end, and the value it returned, are true and stay so (#403,    *)
(* #431, #465).                                                            *)
THEOREM EndIsToldAlways == Spec => []EndIsTold
<1>1. IndInv => EndIsTold
  BY EndSeen DEF EndIsTold, IndInv
<1>2. QED BY <1>1, Invariant, PTL

(* The table in the GRT holds the live handles, each once, and             *)
(* cthread_self() finds in it the handle of the task that calls.           *)
THEOREM HandlesAreExactAlways == Spec => []HandlesAreExact
<1>1. IndInv => HandlesAreExact
  BY TableIsExact, SelfIsFound DEF HandlesAreExact
<1>2. QED BY <1>1, Invariant, PTL
=============================================================================
