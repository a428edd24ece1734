---------------------------- MODULE MutexProofs ----------------------------
(***************************************************************************)
(* The safety properties of Mutex for any number of tasks, mutexes and     *)
(* nested locks, as long as arrayadd() finds storage.                      *)
(***************************************************************************)
EXTENDS Mutex, TLAPS

(* The inductive invariant behind the safety properties: for a task that   *)
(* has the ENQ of m, what the two words and the array are at each point of *)
(* the calls and of the cleanup.                                           *)

(* t has just got the ENQ of m and has not counted the lock yet. *)
Fresh(t, m) == arg[t] = m /\ pc[t] \in {"lk_owner", "lk_count"} /\ rc[t] = 0

(* The points at which m's count is 0 although t has the ENQ. *)
Uncounted(t, m) ==
    \/ Fresh(t, m)
    \/ arg[t] = m /\ pc[t] \in {"uk_list", "uk_owner", "uk_deq", "cl_deq"}

(* ... at which m has no owner, *)
Unowned(t, m) ==
    /\ arg[t] = m
    /\ \/ pc[t] = "lk_owner" /\ rc[t] = 0
       \/ pc[t] \in {"uk_deq", "cl_count", "cl_deq"}

(* ... and at which m is not in t's array. *)
Unlisted(t, m) ==
    /\ arg[t] = m
    /\ \/ pc[t] \in {"lk_owner", "lk_count", "lk_add"} /\ rc[t] = 0
       \/ pc[t] \in {"uk_owner", "uk_deq", "cl_owner", "cl_count", "cl_deq"}

ArgInv ==
    \A t \in Tasks : arg[t] = NoMutex <=> pc[t] \in {"run", "cl_next", "ended"}

(* Where a task must have the ENQ, and where it has none. *)
EnqInv ==
    \A t \in Tasks :
        /\ pc[t] \in {"lk_owner", "lk_count", "lk_add", "uk_list", "uk_owner",
                      "uk_deq", "fr_unlk", "cl_owner", "cl_count", "cl_deq"}
              => enq[arg[t]] = t
        /\ pc[t] = "fr_zero" => enq[arg[t]] = NoTask
        /\ pc[t] = "ended" => \A m \in Mutexes : enq[m] # t

HolderInv ==
    \A t \in Tasks, m \in Mutexes :
        enq[m] = t =>
            /\ owner[m] = IF Unowned(t, m) THEN NoTask ELSE t
            /\ Uncounted(t, m) => count[m] = 0 /\ depth[t][m] = 0
            /\ ~ Uncounted(t, m) =>
                  /\ depth[t][m] > 0
                  /\ IF arg[t] = m /\ pc[t] = "fr_unlk"
                     THEN count[m] = 1 ELSE count[m] = depth[t][m]

OthersInv ==
    /\ \A t \in Tasks, m \in Mutexes : enq[m] # t => depth[t][m] = 0
    /\ \A m \in Mutexes : enq[m] = NoTask => count[m] = 0 /\ owner[m] = NoTask

ListInv ==
    \A t \in Tasks, m \in Mutexes :
        InArray(crtmutx[t], m) <=> enq[m] = t /\ ~ Unlisted(t, m)

NoDuplicates(a) == \A i, j \in 1 .. Len(a) : a[i] = a[j] => i = j

DupInv == \A t \in Tasks : NoDuplicates(crtmutx[t])

StateInv ==
    /\ \A m \in Mutexes, t \in Tasks :
          mstate[m] # "live" /\ enq[m] = t => arg[t] = m
    /\ \A m \in Mutexes : mstate[m] = "free" =>
          enq[m] = NoTask /\ \A t \in Tasks : arg[t] # m
    /\ \A m \in Mutexes, t, u \in Tasks :
          mstate[m] = "dying" /\ arg[t] = m /\ arg[u] = m => t = u
    /\ \A t \in Tasks : pc[t] \in {"fr_unlk", "fr_zero"} => mstate[arg[t]] = "dying"
    /\ \A t \in Tasks :
          pc[t] \in {"lk_enq", "lk_owner", "lk_count", "lk_add",
                     "cl_owner", "cl_count", "cl_deq"} => mstate[arg[t]] = "live"

IndInv == TypeOK /\ ArgInv /\ EnqInv /\ HolderInv /\ OthersInv /\ ListInv
          /\ DupInv /\ StateInv

----------------------------------------------------------------------------
(* Facts about the arrays. *)

(* arrayadd() adds its item and no other. *)
LEMMA AddFacts ==
    ASSUME NEW S, NEW a \in Seq(S), NEW x \in S
    PROVE  /\ arrayadd(a, x) \in Seq(S)
           /\ \A y : InArray(arrayadd(a, x), y) <=> InArray(a, y) \/ y = x
           /\ NoDuplicates(a) /\ ~ InArray(a, x) => NoDuplicates(arrayadd(a, x))
<1>1. arrayadd(a, x) \in Seq(S) /\ Len(arrayadd(a, x)) = Len(a) + 1
  BY DEF arrayadd
<1>2. \A i \in 1 .. Len(a) : arrayadd(a, x)[i] = a[i]
  BY DEF arrayadd
<1>3. arrayadd(a, x)[Len(a) + 1] = x
  BY DEF arrayadd
<1>4. Len(a) \in Nat
  OBVIOUS
<1>5. ASSUME NEW y PROVE InArray(arrayadd(a, x), y) <=> InArray(a, y) \/ y = x
  BY <1>1, <1>2, <1>3, <1>4 DEF InArray
<1>6. NoDuplicates(a) /\ ~ InArray(a, x) => NoDuplicates(arrayadd(a, x))
  BY <1>1, <1>2, <1>3, <1>4 DEF InArray, NoDuplicates
<1>7. QED BY <1>1, <1>5, <1>6

(* arraydel() of an array without duplicates removes that item only. *)
LEMMA DelFacts ==
    ASSUME NEW S, NEW a \in Seq(S), NEW k \in 1 .. Len(a), NoDuplicates(a)
    PROVE  /\ arraydel(a, k) \in Seq(S)
           /\ \A y : InArray(arraydel(a, k), y) <=> InArray(a, y) /\ y # a[k]
           /\ NoDuplicates(arraydel(a, k))
<1> DEFINE d == arraydel(a, k)
<1>1. Len(a) \in Nat /\ Len(a) - 1 \in Nat
  OBVIOUS
<1>2. d = [j \in 1 .. Len(a) - 1 |-> IF j < k THEN a[j] ELSE a[j + 1]]
  BY DEF arraydel
<1>3. \A j \in 1 .. Len(a) - 1 : (IF j < k THEN a[j] ELSE a[j + 1]) \in S
  BY <1>1
<1>4. d \in [1 .. Len(a) - 1 -> S]
  BY <1>2, <1>3
<1>5. d \in Seq(S) /\ Len(d) = Len(a) - 1
  BY <1>1, <1>4
<1> HIDE DEF d
<1>6. ASSUME NEW y PROVE InArray(d, y) <=> InArray(a, y) /\ y # a[k]
  <2>1. ASSUME InArray(d, y) PROVE InArray(a, y) /\ y # a[k]
    <3>1. PICK j \in 1 .. Len(d) : d[j] = y
      BY <2>1 DEF InArray
    <3>2. CASE j < k
      BY <3>1, <3>2, <1>1, <1>2, <1>5 DEF InArray, NoDuplicates
    <3>3. CASE ~ (j < k)
      BY <3>1, <3>3, <1>1, <1>2, <1>5 DEF InArray, NoDuplicates
    <3>4. QED BY <3>2, <3>3
  <2>2. ASSUME InArray(a, y), y # a[k] PROVE InArray(d, y)
    <3>1. PICK i \in 1 .. Len(a) : a[i] = y
      BY <2>2 DEF InArray
    <3>2. CASE i < k
      <4>1. i \in 1 .. Len(d) /\ d[i] = y
        BY <3>1, <3>2, <1>1, <1>2, <1>5
      <4>2. QED BY <4>1 DEF InArray
    <3>3. CASE i > k
      <4>1. i - 1 \in 1 .. Len(d) /\ d[i - 1] = y
        BY <3>1, <3>3, <1>1, <1>2, <1>5
      <4>2. QED BY <4>1 DEF InArray
    <3>4. QED BY <3>1, <3>2, <3>3, <2>2
  <2>3. QED BY <2>1, <2>2
<1>7. NoDuplicates(d)
  <2>1. SUFFICES ASSUME NEW i \in 1 .. Len(d), NEW j \in 1 .. Len(d), d[i] = d[j]
                 PROVE  i = j
    BY DEF NoDuplicates
  <2>2. (i < k => d[i] = a[i]) /\ (~ (i < k) => d[i] = a[i + 1])
    BY <1>1, <1>2, <1>5
  <2>3. (j < k => d[j] = a[j]) /\ (~ (j < k) => d[j] = a[j + 1])
    BY <1>1, <1>2, <1>5
  <2>4. \A p, q \in 1 .. Len(a) : a[p] = a[q] => p = q
    BY DEF NoDuplicates
  <2>5. CASE i < k /\ j < k
    <3>1. i \in 1 .. Len(a) /\ j \in 1 .. Len(a)
      BY <2>5, <1>1, <1>5
    <3>2. a[i] = a[j]
      BY <2>1, <2>2, <2>3, <2>5
    <3>3. i = j
      BY <3>1, <3>2, <2>4
    <3>4. QED BY <3>3, <2>5
  <2>6. CASE i < k /\ ~ (j < k)
    <3>1. i \in 1 .. Len(a) /\ j + 1 \in 1 .. Len(a)
      BY <2>6, <1>1, <1>5
    <3>2. a[i] = a[j + 1]
      BY <2>1, <2>2, <2>3, <2>6
    <3>3. i = j + 1
      BY <3>1, <3>2, <2>4
    <3>4. QED BY <3>3, <2>6
  <2>7. CASE ~ (i < k) /\ j < k
    <3>1. i + 1 \in 1 .. Len(a) /\ j \in 1 .. Len(a)
      BY <2>7, <1>1, <1>5
    <3>2. a[i + 1] = a[j]
      BY <2>1, <2>2, <2>3, <2>7
    <3>3. i + 1 = j
      BY <3>1, <3>2, <2>4
    <3>4. QED BY <3>3, <2>7
  <2>8. CASE ~ (i < k) /\ ~ (j < k)
    <3>1. i + 1 \in 1 .. Len(a) /\ j + 1 \in 1 .. Len(a)
      BY <2>8, <1>1, <1>5
    <3>2. a[i + 1] = a[j + 1]
      BY <2>1, <2>2, <2>3, <2>8
    <3>3. i + 1 = j + 1
      BY <3>1, <3>2, <2>4
    <3>4. QED BY <3>3, <2>8
  <2>9. QED BY <2>5, <2>6, <2>7, <2>8
<1>8. QED BY <1>5, <1>6, <1>7 DEF d

(* An array holds its last item. *)
LEMMA ElementInArray ==
    ASSUME NEW S, NEW a \in Seq(S), NEW k \in 1 .. Len(a)
    PROVE  InArray(a, a[k]) /\ a[k] \in S
  BY DEF InArray

(* The loop of mtxunlk() removes the mutex and nothing else. *)
LEMMA DropFacts ==
    ASSUME NEW S, NEW a \in Seq(S), NEW x, NoDuplicates(a)
    PROVE  /\ arraydrop(a, x) \in Seq(S)
           /\ \A y : InArray(arraydrop(a, x), y) <=> InArray(a, y) /\ y # x
           /\ NoDuplicates(arraydrop(a, x))
<1>1. CASE ~ InArray(a, x)
  BY <1>1 DEF arraydrop, InArray
<1>2. CASE InArray(a, x)
  <2> DEFINE P(i) == a[i] = x /\ \A j \in i + 1 .. Len(a) : a[j] # x
             k    == CHOOSE i \in 1 .. Len(a) : P(i)
  <2>1. PICK i \in 1 .. Len(a) : a[i] = x
    BY <1>2 DEF InArray
  <2>2. P(i)
    BY <2>1 DEF NoDuplicates
  <2>3. k \in 1 .. Len(a) /\ P(k)
    BY <2>2
  <2>4. arraydrop(a, x) = arraydel(a, k)
    BY <1>2 DEF arraydrop
  <2> HIDE DEF k
  <2>5. QED BY <2>3, <2>4, DelFacts
<1>3. QED BY <1>1, <1>2

(* What mtxheld() says of a task that is at rest, or in the cleanup. *)
LEMMA HeldFacts ==
    ASSUME IndInv, NEW t \in Tasks, NEW m \in Mutexes
    PROVE  /\ mtxheld(t, m) => enq[m] = t
           /\ enq[m] = t /\ pc[t] \in {"run", "cl_owner", "fr_unlk"} => mtxheld(t, m)
<1> USE TaskAssumption, MutexAssumption
<1>1. ASSUME mtxheld(t, m), enq[m] # t PROVE FALSE
  <2>1. CASE enq[m] = NoTask
    BY <1>1, <2>1 DEF mtxheld, IndInv, OthersInv
  <2>2. CASE enq[m] \in Tasks
    BY <1>1, <2>2 DEF mtxheld, IndInv, HolderInv
  <2>3. QED BY <2>1, <2>2 DEF IndInv, TypeOK
<1>2. ASSUME enq[m] = t, pc[t] \in {"run", "cl_owner", "fr_unlk"} PROVE mtxheld(t, m)
  <2>1. ~ Unowned(t, m) /\ ~ Uncounted(t, m)
    BY <1>2 DEF Unowned, Uncounted, Fresh
  <2>2. owner[m] = t /\ count[m] # 0
    BY <1>2, <2>1 DEF IndInv, TypeOK, HolderInv
  <2>3. QED BY <2>2 DEF mtxheld
<1>3. QED BY <1>1, <1>2

(* Every step preserves the invariant. *)
LEMMA Inductive ==
    ASSUME MemFails = FALSE, IndInv, [Next]_vars
    PROVE  IndInv'
<1> USE TaskAssumption, MutexAssumption
<1>1. ASSUME NEW t \in Tasks, LockEnq(t)
      PROVE  IndInv'
  <2>1. TypeOK'
    BY <1>1 DEF LockEnq, Goto, EnqHave, IndInv, TypeOK, Labels
  <2>2. ArgInv'
    BY <1>1 DEF LockEnq, Goto, EnqHave, IndInv, ArgInv, TypeOK
  <2>3. EnqInv'
    BY <1>1 DEF LockEnq, Goto, EnqHave, IndInv, EnqInv, StateInv, ArgInv, TypeOK
  <2>4. HolderInv'
    BY <1>1 DEF LockEnq, Goto, EnqHave, IndInv, HolderInv, OthersInv, StateInv, EnqInv, ArgInv, TypeOK, Unowned, Uncounted, Fresh
  <2>5. OthersInv'
    BY <1>1 DEF LockEnq, Goto, EnqHave, IndInv, OthersInv, HolderInv, EnqInv, ArgInv, TypeOK, Unowned, Uncounted, Fresh
  <2>6. ListInv'
    BY <1>1 DEF LockEnq, Goto, EnqHave, IndInv, ListInv, EnqInv, ArgInv, TypeOK, Unlisted
  <2>7. DupInv'
    BY <1>1 DEF LockEnq, Goto, EnqHave, IndInv, DupInv, TypeOK
  <2>8. StateInv'
    BY <1>1 DEF LockEnq, Goto, EnqHave, IndInv, StateInv, EnqInv, ArgInv, TypeOK
  <2>9. QED BY <2>1, <2>2, <2>3, <2>4, <2>5, <2>6, <2>7, <2>8 DEF IndInv
<1>2. ASSUME NEW t \in Tasks, LockOwner(t)
      PROVE  IndInv'
  <2>1. TypeOK'
    BY <1>2 DEF LockOwner, Goto, IndInv, TypeOK, Labels
  <2>2. ArgInv'
    BY <1>2 DEF LockOwner, Goto, IndInv, ArgInv, TypeOK
  <2>3. EnqInv'
    BY <1>2 DEF LockOwner, Goto, IndInv, EnqInv, StateInv, ArgInv, TypeOK
  <2>4. HolderInv'
    BY <1>2 DEF LockOwner, Goto, IndInv, HolderInv, OthersInv, StateInv, EnqInv, ArgInv, TypeOK, Unowned, Uncounted, Fresh
  <2>5. OthersInv'
    BY <1>2 DEF LockOwner, Goto, IndInv, OthersInv, HolderInv, EnqInv, ArgInv, TypeOK, Unowned, Uncounted, Fresh
  <2>6. ListInv'
    BY <1>2 DEF LockOwner, Goto, IndInv, ListInv, EnqInv, ArgInv, TypeOK, Unlisted
  <2>7. DupInv'
    BY <1>2 DEF LockOwner, Goto, IndInv, DupInv, TypeOK
  <2>8. StateInv'
    BY <1>2 DEF LockOwner, Goto, IndInv, StateInv, EnqInv, ArgInv, TypeOK
  <2>9. QED BY <2>1, <2>2, <2>3, <2>4, <2>5, <2>6, <2>7, <2>8 DEF IndInv
<1>3. ASSUME NEW t \in Tasks, LockCount(t)
      PROVE  IndInv'
  <2>1. depth' \in [Tasks -> [Mutexes -> Nat]]
    <3>1. arg[t] \in Mutexes /\ depth[t] \in [Mutexes -> Nat]
      BY <1>3 DEF LockCount, IndInv, TypeOK, ArgInv
    <3>2. [depth[t] EXCEPT ![arg[t]] = @ + 1] \in [Mutexes -> Nat]
      BY <3>1
    <3>3. depth' = [depth EXCEPT ![t] = [depth[t] EXCEPT ![arg[t]] = @ + 1]]
      BY <1>3 DEF LockCount, IndInv, TypeOK
    <3>4. QED BY <3>2, <3>3 DEF IndInv, TypeOK
  <2>2. TypeOK'
    BY <1>3, <2>1 DEF LockCount, Goto, IndInv, TypeOK, Labels
  <2>3. ArgInv'
    BY <1>3, <2>1 DEF LockCount, Goto, IndInv, ArgInv, TypeOK
  <2>4. EnqInv'
    BY <1>3, <2>1 DEF LockCount, Goto, IndInv, EnqInv, StateInv, ArgInv, TypeOK
  <2>5. HolderInv'
    BY <1>3, <2>1 DEF LockCount, Goto, IndInv, HolderInv, OthersInv, StateInv, EnqInv, ArgInv, TypeOK, Unowned, Uncounted, Fresh
  <2>6. OthersInv'
    BY <1>3, <2>1 DEF LockCount, Goto, IndInv, OthersInv, HolderInv, EnqInv, ArgInv, TypeOK, Unowned, Uncounted, Fresh
  <2>7. ListInv'
    BY <1>3, <2>1 DEF LockCount, Goto, IndInv, ListInv, EnqInv, ArgInv, TypeOK, Unlisted
  <2>8. DupInv'
    BY <1>3, <2>1 DEF LockCount, Goto, IndInv, DupInv, TypeOK
  <2>9. StateInv'
    BY <1>3, <2>1 DEF LockCount, Goto, IndInv, StateInv, EnqInv, ArgInv, TypeOK
  <2>10. QED BY <2>2, <2>3, <2>4, <2>5, <2>6, <2>7, <2>8, <2>9 DEF IndInv
<1>4. ASSUME NEW t \in Tasks, LockAdd(t)
      PROVE  IndInv'
  <2>1. /\ arrayadd(crtmutx[t], arg[t]) \in Seq(Mutexes)
        /\ \A y : InArray(arrayadd(crtmutx[t], arg[t]), y) <=> InArray(crtmutx[t], y) \/ y = arg[t]
        /\ rc[t] = 0 => NoDuplicates(arrayadd(crtmutx[t], arg[t]))
    <3>1. crtmutx[t] \in Seq(Mutexes) /\ arg[t] \in Mutexes /\ NoDuplicates(crtmutx[t])
      BY <1>4 DEF LockAdd, IndInv, TypeOK, ArgInv, DupInv
    <3>2. rc[t] = 0 => ~ InArray(crtmutx[t], arg[t])
      BY <1>4, <3>1 DEF LockAdd, IndInv, ListInv, Unlisted
    <3>3. QED BY <3>1, <3>2, AddFacts
  <2>2. crtmutx' = IF rc[t] = 0 THEN [crtmutx EXCEPT ![t] = arrayadd(crtmutx[t], arg[t])]
                             ELSE crtmutx
    BY <1>4, <2>1 DEF LockAdd
  <2>3. CASE rc[t] = 0
    <3>1. TypeOK'
      BY <1>4, <2>1, <2>2, <2>3 DEF LockAdd, Goto, IndInv, TypeOK, Labels
    <3>2. ArgInv'
      BY <1>4, <2>1, <2>2, <2>3 DEF LockAdd, Goto, IndInv, ArgInv, TypeOK
    <3>3. EnqInv'
      BY <1>4, <2>1, <2>2, <2>3 DEF LockAdd, Goto, IndInv, EnqInv, StateInv, ArgInv, TypeOK
    <3>4. HolderInv'
      BY <1>4, <2>1, <2>2, <2>3 DEF LockAdd, Goto, IndInv, HolderInv, OthersInv, StateInv, EnqInv, ArgInv, TypeOK, Unowned, Uncounted, Fresh
    <3>5. OthersInv'
      BY <1>4, <2>1, <2>2, <2>3 DEF LockAdd, Goto, IndInv, OthersInv, HolderInv, EnqInv, ArgInv, TypeOK, Unowned, Uncounted, Fresh
    <3>6. ListInv'
      BY <1>4, <2>1, <2>2, <2>3 DEF LockAdd, Goto, IndInv, ListInv, EnqInv, ArgInv, TypeOK, Unlisted
    <3>7. DupInv'
      BY <1>4, <2>1, <2>2, <2>3 DEF LockAdd, Goto, IndInv, DupInv, TypeOK
    <3>8. StateInv'
      BY <1>4, <2>1, <2>2, <2>3 DEF LockAdd, Goto, IndInv, StateInv, EnqInv, ArgInv, TypeOK
    <3>9. QED BY <3>1, <3>2, <3>3, <3>4, <3>5, <3>6, <3>7, <3>8 DEF IndInv
  <2>4. CASE ~ (rc[t] = 0)
    <3>1. TypeOK'
      BY <1>4, <2>1, <2>2, <2>4 DEF LockAdd, Goto, IndInv, TypeOK, Labels
    <3>2. ArgInv'
      BY <1>4, <2>1, <2>2, <2>4 DEF LockAdd, Goto, IndInv, ArgInv, TypeOK
    <3>3. EnqInv'
      BY <1>4, <2>1, <2>2, <2>4 DEF LockAdd, Goto, IndInv, EnqInv, StateInv, ArgInv, TypeOK
    <3>4. HolderInv'
      BY <1>4, <2>1, <2>2, <2>4 DEF LockAdd, Goto, IndInv, HolderInv, OthersInv, StateInv, EnqInv, ArgInv, TypeOK, Unowned, Uncounted, Fresh
    <3>5. OthersInv'
      BY <1>4, <2>1, <2>2, <2>4 DEF LockAdd, Goto, IndInv, OthersInv, HolderInv, EnqInv, ArgInv, TypeOK, Unowned, Uncounted, Fresh
    <3>6. ListInv'
      BY <1>4, <2>1, <2>2, <2>4 DEF LockAdd, Goto, IndInv, ListInv, EnqInv, ArgInv, TypeOK, Unlisted
    <3>7. DupInv'
      BY <1>4, <2>1, <2>2, <2>4 DEF LockAdd, Goto, IndInv, DupInv, TypeOK
    <3>8. StateInv'
      BY <1>4, <2>1, <2>2, <2>4 DEF LockAdd, Goto, IndInv, StateInv, EnqInv, ArgInv, TypeOK
    <3>9. QED BY <3>1, <3>2, <3>3, <3>4, <3>5, <3>6, <3>7, <3>8 DEF IndInv
  <2>5. QED BY <2>3, <2>4
<1>5. ASSUME NEW t \in Tasks, UnlockList(t)
      PROVE  IndInv'
  <2>1. /\ arraydrop(crtmutx[t], arg[t]) \in Seq(Mutexes)
        /\ \A y : InArray(arraydrop(crtmutx[t], arg[t]), y) <=> InArray(crtmutx[t], y) /\ y # arg[t]
        /\ NoDuplicates(arraydrop(crtmutx[t], arg[t]))
    BY <1>5, DropFacts DEF UnlockList, IndInv, TypeOK, DupInv
  <2>2. TypeOK'
    BY <1>5, <2>1 DEF UnlockList, Goto, IndInv, TypeOK, Labels
  <2>3. ArgInv'
    BY <1>5, <2>1 DEF UnlockList, Goto, IndInv, ArgInv, TypeOK
  <2>4. EnqInv'
    BY <1>5, <2>1 DEF UnlockList, Goto, IndInv, EnqInv, StateInv, ArgInv, TypeOK
  <2>5. HolderInv'
    BY <1>5, <2>1 DEF UnlockList, Goto, IndInv, HolderInv, OthersInv, StateInv, EnqInv, ArgInv, TypeOK, Unowned, Uncounted, Fresh
  <2>6. OthersInv'
    BY <1>5, <2>1 DEF UnlockList, Goto, IndInv, OthersInv, HolderInv, EnqInv, ArgInv, TypeOK, Unowned, Uncounted, Fresh
  <2>7. ListInv'
    BY <1>5, <2>1 DEF UnlockList, Goto, IndInv, ListInv, EnqInv, ArgInv, TypeOK, Unlisted
  <2>8. DupInv'
    BY <1>5, <2>1 DEF UnlockList, Goto, IndInv, DupInv, TypeOK
  <2>9. StateInv'
    BY <1>5, <2>1 DEF UnlockList, Goto, IndInv, StateInv, EnqInv, ArgInv, TypeOK
  <2>10. QED BY <2>2, <2>3, <2>4, <2>5, <2>6, <2>7, <2>8, <2>9 DEF IndInv
<1>6. ASSUME NEW t \in Tasks, UnlockOwner(t)
      PROVE  IndInv'
  <2>1. TypeOK'
    BY <1>6 DEF UnlockOwner, Goto, IndInv, TypeOK, Labels
  <2>2. ArgInv'
    BY <1>6 DEF UnlockOwner, Goto, IndInv, ArgInv, TypeOK
  <2>3. EnqInv'
    BY <1>6 DEF UnlockOwner, Goto, IndInv, EnqInv, StateInv, ArgInv, TypeOK
  <2>4. HolderInv'
    BY <1>6 DEF UnlockOwner, Goto, IndInv, HolderInv, OthersInv, StateInv, EnqInv, ArgInv, TypeOK, Unowned, Uncounted, Fresh
  <2>5. OthersInv'
    BY <1>6 DEF UnlockOwner, Goto, IndInv, OthersInv, HolderInv, EnqInv, ArgInv, TypeOK, Unowned, Uncounted, Fresh
  <2>6. ListInv'
    BY <1>6 DEF UnlockOwner, Goto, IndInv, ListInv, EnqInv, ArgInv, TypeOK, Unlisted
  <2>7. DupInv'
    BY <1>6 DEF UnlockOwner, Goto, IndInv, DupInv, TypeOK
  <2>8. StateInv'
    BY <1>6 DEF UnlockOwner, Goto, IndInv, StateInv, EnqInv, ArgInv, TypeOK
  <2>9. QED BY <2>1, <2>2, <2>3, <2>4, <2>5, <2>6, <2>7, <2>8 DEF IndInv
<1>7. ASSUME NEW t \in Tasks, UnlockDeq(t)
      PROVE  IndInv'
  <2>1. /\ arg[t] \in Mutexes /\ enq[arg[t]] = t /\ pc[t] = "uk_deq"
        /\ enq' = [enq EXCEPT ![arg[t]] = NoTask]
    BY ZenonT(60), <1>7 DEF UnlockDeq, Deq, IndInv, ArgInv, EnqInv, TypeOK
  <2>2. CASE mstate[arg[t]] = "dying"
    <3>1. /\ pc'  = [pc EXCEPT ![t] = "fr_zero"]
          /\ UNCHANGED <<owner, count, mstate, crtmutx, arg, rc, depth>>
      BY <1>7, <2>1, <2>2 DEF UnlockDeq, Goto, Deq, IndInv, ArgInv, TypeOK
    <3>2. TypeOK'
      BY <2>1, <2>2, <3>1 DEF IndInv, TypeOK, Labels
    <3>3. ArgInv'
      BY <2>1, <2>2, <3>1 DEF IndInv, ArgInv, TypeOK
    <3>4. EnqInv'
      BY <2>1, <2>2, <3>1 DEF IndInv, EnqInv, StateInv, ArgInv, TypeOK
    <3>5. HolderInv'
      BY <2>1, <2>2, <3>1 DEF IndInv, HolderInv, OthersInv, StateInv, EnqInv, ArgInv, TypeOK, Unowned, Uncounted, Fresh
    <3>6. OthersInv'
      BY <2>1, <2>2, <3>1 DEF IndInv, OthersInv, HolderInv, EnqInv, ArgInv, TypeOK, Unowned, Uncounted, Fresh
    <3>7. ListInv'
      BY <2>1, <2>2, <3>1 DEF IndInv, ListInv, EnqInv, ArgInv, TypeOK, Unlisted
    <3>8. DupInv'
      BY <2>1, <2>2, <3>1 DEF IndInv, DupInv, TypeOK
    <3>9. StateInv'
      BY <2>1, <2>2, <3>1 DEF IndInv, StateInv, EnqInv, ArgInv, TypeOK
    <3>10. QED BY <3>2, <3>3, <3>4, <3>5, <3>6, <3>7, <3>8, <3>9 DEF IndInv
  <2>3. CASE ~ (mstate[arg[t]] = "dying")
    <3>1. /\ pc'  = [pc EXCEPT ![t] = "run"]
          /\ arg' = [arg EXCEPT ![t] = NoMutex]
          /\ UNCHANGED <<owner, count, mstate, crtmutx, rc, depth>>
      BY <1>7, <2>1, <2>3 DEF UnlockDeq, Goto, Deq, IndInv, ArgInv, TypeOK
    <3>2. TypeOK'
      BY <2>1, <2>3, <3>1 DEF IndInv, TypeOK, Labels
    <3>3. ArgInv'
      BY <2>1, <2>3, <3>1 DEF IndInv, ArgInv, TypeOK
    <3>4. EnqInv'
      BY <2>1, <2>3, <3>1 DEF IndInv, EnqInv, StateInv, ArgInv, TypeOK
    <3>5. HolderInv'
      BY <2>1, <2>3, <3>1 DEF IndInv, HolderInv, OthersInv, StateInv, EnqInv, ArgInv, TypeOK, Unowned, Uncounted, Fresh
    <3>6. OthersInv'
      BY <2>1, <2>3, <3>1 DEF IndInv, OthersInv, HolderInv, EnqInv, ArgInv, TypeOK, Unowned, Uncounted, Fresh
    <3>7. ListInv'
      BY <2>1, <2>3, <3>1 DEF IndInv, ListInv, EnqInv, ArgInv, TypeOK, Unlisted
    <3>8. DupInv'
      BY <2>1, <2>3, <3>1 DEF IndInv, DupInv, TypeOK
    <3>9. StateInv'
      BY <2>1, <2>3, <3>1 DEF IndInv, StateInv, EnqInv, ArgInv, TypeOK
    <3>10. QED BY <3>2, <3>3, <3>4, <3>5, <3>6, <3>7, <3>8, <3>9 DEF IndInv
  <2>4. QED BY <2>2, <2>3
<1>8. ASSUME NEW t \in Tasks, FreeUnlock(t)
      PROVE  IndInv'
  <2>1. mtxheld(t, arg[t]) <=> enq[arg[t]] = t
    BY <1>8, HeldFacts DEF FreeUnlock, IndInv, ArgInv, TypeOK
  <2>2. depth' \in [Tasks -> [Mutexes -> Nat]]
    <3>1. arg[t] \in Mutexes /\ depth[t] \in [Mutexes -> Nat]
      BY <1>8, <2>1 DEF FreeUnlock, IndInv, TypeOK, ArgInv
    <3>2. [depth[t] EXCEPT ![arg[t]] = 0] \in [Mutexes -> Nat]
      BY <3>1
    <3>3. depth' = [depth EXCEPT ![t] = [depth[t] EXCEPT ![arg[t]] = 0]]
      BY <1>8, <2>1 DEF FreeUnlock, IndInv, TypeOK
    <3>4. QED BY <3>2, <3>3 DEF IndInv, TypeOK
  <2>3. TypeOK'
    BY <1>8, <2>1, <2>2 DEF FreeUnlock, Goto, Uncount, mtxheld, IndInv, TypeOK, Labels
  <2>4. ArgInv'
    BY <1>8, <2>1, <2>2 DEF FreeUnlock, Goto, Uncount, mtxheld, IndInv, ArgInv, TypeOK
  <2>5. EnqInv'
    BY <1>8, <2>1, <2>2 DEF FreeUnlock, Goto, Uncount, mtxheld, IndInv, EnqInv, StateInv, ArgInv, TypeOK
  <2>6. HolderInv'
    BY <1>8, <2>1, <2>2 DEF FreeUnlock, Goto, Uncount, mtxheld, IndInv, HolderInv, OthersInv, StateInv, EnqInv, ArgInv, TypeOK, Unowned, Uncounted, Fresh
  <2>7. OthersInv'
    BY <1>8, <2>1, <2>2 DEF FreeUnlock, Goto, Uncount, mtxheld, IndInv, OthersInv, HolderInv, EnqInv, ArgInv, TypeOK, Unowned, Uncounted, Fresh
  <2>8. ListInv'
    BY <1>8, <2>1, <2>2 DEF FreeUnlock, Goto, Uncount, mtxheld, IndInv, ListInv, EnqInv, ArgInv, TypeOK, Unlisted
  <2>9. DupInv'
    BY <1>8, <2>1, <2>2 DEF FreeUnlock, Goto, Uncount, mtxheld, IndInv, DupInv, TypeOK
  <2>10. StateInv'
    BY <1>8, <2>1, <2>2 DEF FreeUnlock, Goto, Uncount, mtxheld, IndInv, StateInv, EnqInv, ArgInv, TypeOK
  <2>11. QED BY <2>3, <2>4, <2>5, <2>6, <2>7, <2>8, <2>9, <2>10 DEF IndInv
<1>9. ASSUME NEW t \in Tasks, FreeZero(t)
      PROVE  IndInv'
  <2>1. TypeOK'
    BY <1>9 DEF FreeZero, Goto, IndInv, TypeOK, Labels
  <2>2. ArgInv'
    BY <1>9 DEF FreeZero, Goto, IndInv, ArgInv, TypeOK
  <2>3. EnqInv'
    BY <1>9 DEF FreeZero, Goto, IndInv, EnqInv, StateInv, ArgInv, TypeOK
  <2>4. HolderInv'
    BY <1>9 DEF FreeZero, Goto, IndInv, HolderInv, OthersInv, StateInv, EnqInv, ArgInv, TypeOK, Unowned, Uncounted, Fresh
  <2>5. OthersInv'
    BY <1>9 DEF FreeZero, Goto, IndInv, OthersInv, HolderInv, EnqInv, ArgInv, TypeOK, Unowned, Uncounted, Fresh
  <2>6. ListInv'
    BY <1>9 DEF FreeZero, Goto, IndInv, ListInv, EnqInv, ArgInv, TypeOK, Unlisted
  <2>7. DupInv'
    BY <1>9 DEF FreeZero, Goto, IndInv, DupInv, TypeOK
  <2>8. StateInv'
    BY <1>9 DEF FreeZero, Goto, IndInv, StateInv, EnqInv, ArgInv, TypeOK
  <2>9. QED BY <2>1, <2>2, <2>3, <2>4, <2>5, <2>6, <2>7, <2>8 DEF IndInv
<1>10. ASSUME NEW t \in Tasks, CleanNext(t)
      PROVE  IndInv'
  <2>1. /\ crtmutx[t] \in Seq(Mutexes) /\ NoDuplicates(crtmutx[t])
        /\ Len(crtmutx[t]) \in 1 .. Len(crtmutx[t])
    <3>1. crtmutx[t] \in Seq(Mutexes) /\ crtmutx[t] # <<>> /\ NoDuplicates(crtmutx[t])
      BY <1>10 DEF CleanNext, IndInv, TypeOK, DupInv
    <3>2. QED BY <3>1
  <2>2. /\ arraydel(crtmutx[t], Len(crtmutx[t])) \in Seq(Mutexes)
        /\ \A y : InArray(arraydel(crtmutx[t], Len(crtmutx[t])), y)
                    <=> InArray(crtmutx[t], y) /\ y # crtmutx[t][Len(crtmutx[t])]
        /\ NoDuplicates(arraydel(crtmutx[t], Len(crtmutx[t])))
    BY <2>1, DelFacts
  <2>3. /\ crtmutx[t][Len(crtmutx[t])] \in Mutexes
        /\ enq[crtmutx[t][Len(crtmutx[t])]] = t
    BY <2>1, ElementInArray DEF IndInv, ListInv
  <2>4. mstate[crtmutx[t][Len(crtmutx[t])]] = "live"
    <3>1. arg[t] = NoMutex
      BY <1>10, <2>1, <2>2, <2>3 DEF CleanNext, IndInv, ArgInv
    <3>2. QED BY <2>3, <3>1 DEF IndInv, StateInv
  <2>5. /\ pc[t] = "cl_next" /\ arg[t] = NoMutex
        /\ pc' = [pc EXCEPT ![t] = "cl_owner"]
        /\ arg' = [arg EXCEPT ![t] = crtmutx[t][Len(crtmutx[t])]]
        /\ crtmutx' = [crtmutx EXCEPT ![t] = arraydel(crtmutx[t], Len(crtmutx[t]))]
        /\ UNCHANGED <<enq, owner, count, mstate, rc, depth>>
    BY <1>10, <2>1, <2>2, <2>3, <2>4 DEF CleanNext, Goto, IndInv, ArgInv, TypeOK
  <2>6. TypeOK'
    BY <2>1, <2>2, <2>3, <2>4, <2>5 DEF IndInv, TypeOK, Labels
  <2>7. ArgInv'
    BY <2>1, <2>2, <2>3, <2>4, <2>5 DEF IndInv, ArgInv, TypeOK
  <2>8. EnqInv'
    BY <2>1, <2>2, <2>3, <2>4, <2>5 DEF IndInv, EnqInv, StateInv, ArgInv, TypeOK
  <2>9. HolderInv'
    BY <2>1, <2>2, <2>3, <2>4, <2>5 DEF IndInv, HolderInv, OthersInv, StateInv, EnqInv, ArgInv, TypeOK, Unowned, Uncounted, Fresh
  <2>10. OthersInv'
    BY <2>1, <2>2, <2>3, <2>4, <2>5 DEF IndInv, OthersInv, HolderInv, EnqInv, ArgInv, TypeOK, Unowned, Uncounted, Fresh
  <2>11. ListInv'
    BY <2>1, <2>2, <2>3, <2>4, <2>5 DEF IndInv, ListInv, EnqInv, ArgInv, TypeOK, Unlisted
  <2>12. DupInv'
    BY <2>1, <2>2, <2>3, <2>4, <2>5 DEF IndInv, DupInv, TypeOK
  <2>13. StateInv'
    BY SMTT(60), <2>1, <2>2, <2>3, <2>4, <2>5 DEF IndInv, StateInv, EnqInv, ArgInv, TypeOK
  <2>14. QED BY <2>6, <2>7, <2>8, <2>9, <2>10, <2>11, <2>12, <2>13 DEF IndInv
<1>11. ASSUME NEW t \in Tasks, CleanOwner(t)
      PROVE  IndInv'
  <2>1. arg[t] \in Mutexes /\ enq[arg[t]] = t
    BY ZenonT(60), <1>11 DEF CleanOwner, IndInv, ArgInv, EnqInv, TypeOK
  <2>2. mtxheld(t, arg[t])
    BY <1>11, <2>1, HeldFacts DEF CleanOwner
  <2>3. /\ pc[t] = "cl_owner" /\ pc' = [pc EXCEPT ![t] = "cl_count"]
        /\ owner' = [owner EXCEPT ![arg[t]] = NoTask]
        /\ UNCHANGED <<enq, count, mstate, crtmutx, arg, rc, depth>>
    BY <1>11, <2>1, <2>2 DEF CleanOwner, Goto, mtxheld, IndInv, ArgInv, TypeOK
  <2>4. TypeOK'
    BY <2>1, <2>2, <2>3 DEF IndInv, TypeOK, Labels
  <2>5. ArgInv'
    BY <2>1, <2>2, <2>3 DEF IndInv, ArgInv, TypeOK
  <2>6. EnqInv'
    BY <2>1, <2>2, <2>3 DEF IndInv, EnqInv, StateInv, ArgInv, TypeOK
  <2>7. HolderInv'
    BY <2>1, <2>2, <2>3 DEF IndInv, HolderInv, OthersInv, StateInv, EnqInv, ArgInv, TypeOK, Unowned, Uncounted, Fresh
  <2>8. OthersInv'
    BY <2>1, <2>2, <2>3 DEF IndInv, OthersInv, HolderInv, EnqInv, ArgInv, TypeOK, Unowned, Uncounted, Fresh
  <2>9. ListInv'
    BY <2>1, <2>2, <2>3 DEF IndInv, ListInv, EnqInv, ArgInv, TypeOK, Unlisted
  <2>10. DupInv'
    BY <2>1, <2>2, <2>3 DEF IndInv, DupInv, TypeOK
  <2>11. StateInv'
    BY <2>1, <2>2, <2>3 DEF IndInv, StateInv, EnqInv, ArgInv, TypeOK
  <2>12. QED BY <2>4, <2>5, <2>6, <2>7, <2>8, <2>9, <2>10, <2>11 DEF IndInv
<1>12. ASSUME NEW t \in Tasks, CleanCount(t)
      PROVE  IndInv'
  <2>1. TypeOK'
    BY <1>12 DEF CleanCount, Goto, IndInv, TypeOK, Labels
  <2>2. ArgInv'
    BY <1>12 DEF CleanCount, Goto, IndInv, ArgInv, TypeOK
  <2>3. EnqInv'
    BY <1>12 DEF CleanCount, Goto, IndInv, EnqInv, StateInv, ArgInv, TypeOK
  <2>4. HolderInv'
    BY <1>12 DEF CleanCount, Goto, IndInv, HolderInv, OthersInv, StateInv, EnqInv, ArgInv, TypeOK, Unowned, Uncounted, Fresh
  <2>5. OthersInv'
    BY <1>12 DEF CleanCount, Goto, IndInv, OthersInv, HolderInv, EnqInv, ArgInv, TypeOK, Unowned, Uncounted, Fresh
  <2>6. ListInv'
    BY <1>12 DEF CleanCount, Goto, IndInv, ListInv, EnqInv, ArgInv, TypeOK, Unlisted
  <2>7. DupInv'
    BY <1>12 DEF CleanCount, Goto, IndInv, DupInv, TypeOK
  <2>8. StateInv'
    BY <1>12 DEF CleanCount, Goto, IndInv, StateInv, EnqInv, ArgInv, TypeOK
  <2>9. QED BY <2>1, <2>2, <2>3, <2>4, <2>5, <2>6, <2>7, <2>8 DEF IndInv
<1>13. ASSUME NEW t \in Tasks, CleanDeq(t)
      PROVE  IndInv'
  <2>1. TypeOK'
    BY <1>13 DEF CleanDeq, Goto, Deq, IndInv, TypeOK, Labels
  <2>2. ArgInv'
    BY <1>13 DEF CleanDeq, Goto, Deq, IndInv, ArgInv, TypeOK
  <2>3. EnqInv'
    BY <1>13 DEF CleanDeq, Goto, Deq, IndInv, EnqInv, StateInv, ArgInv, TypeOK
  <2>4. HolderInv'
    BY <1>13 DEF CleanDeq, Goto, Deq, IndInv, HolderInv, OthersInv, StateInv, EnqInv, ArgInv, TypeOK, Unowned, Uncounted, Fresh
  <2>5. OthersInv'
    BY <1>13 DEF CleanDeq, Goto, Deq, IndInv, OthersInv, HolderInv, EnqInv, ArgInv, TypeOK, Unowned, Uncounted, Fresh
  <2>6. ListInv'
    BY <1>13 DEF CleanDeq, Goto, Deq, IndInv, ListInv, EnqInv, ArgInv, TypeOK, Unlisted
  <2>7. DupInv'
    BY <1>13 DEF CleanDeq, Goto, Deq, IndInv, DupInv, TypeOK
  <2>8. StateInv'
    BY <1>13 DEF CleanDeq, Goto, Deq, IndInv, StateInv, EnqInv, ArgInv, TypeOK
  <2>9. QED BY <2>1, <2>2, <2>3, <2>4, <2>5, <2>6, <2>7, <2>8 DEF IndInv
<1>14. ASSUME NEW t \in Tasks, TaskEnd(t)
      PROVE  IndInv'
  <2>1. \A m \in Mutexes : enq[m] # t
    <3>1. \A m \in Mutexes : ~ InArray(crtmutx[t], m)
      BY <1>14 DEF TaskEnd, InArray
    <3>2. \A m \in Mutexes : ~ Unlisted(t, m)
      BY <1>14 DEF TaskEnd, IndInv, ArgInv, Unlisted
    <3>3. QED BY <3>1, <3>2 DEF IndInv, ListInv
  <2>2. enq' = enq
    BY <1>14, <2>1, <2>1 DEF TaskEnd, IndInv, TypeOK
  <2>3. /\ pc[t] = "cl_next" /\ arg[t] = NoMutex
        /\ pc' = [pc EXCEPT ![t] = "ended"]
        /\ depth' = [depth EXCEPT ![t] = [m \in Mutexes |-> 0]]
        /\ UNCHANGED <<owner, count, mstate, crtmutx, arg, rc>>
    BY <1>14, <2>1, <2>2 DEF TaskEnd, Goto, IndInv, ArgInv, TypeOK
  <2>4. TypeOK'
    BY <2>1, <2>2, <2>3 DEF IndInv, TypeOK, Labels
  <2>5. ArgInv'
    BY <2>1, <2>2, <2>3 DEF IndInv, ArgInv, TypeOK
  <2>6. EnqInv'
    BY <2>1, <2>2, <2>3 DEF IndInv, EnqInv, StateInv, ArgInv, TypeOK
  <2>7. HolderInv'
    BY <2>1, <2>2, <2>3 DEF IndInv, HolderInv, OthersInv, StateInv, EnqInv, ArgInv, TypeOK, Unowned, Uncounted, Fresh
  <2>8. OthersInv'
    BY <2>1, <2>2, <2>3 DEF IndInv, OthersInv, HolderInv, EnqInv, ArgInv, TypeOK, Unowned, Uncounted, Fresh
  <2>9. ListInv'
    BY <2>1, <2>2, <2>3 DEF IndInv, ListInv, EnqInv, ArgInv, TypeOK, Unlisted
  <2>10. DupInv'
    BY <2>1, <2>2, <2>3 DEF IndInv, DupInv, TypeOK
  <2>11. StateInv'
    BY <2>1, <2>2, <2>3 DEF IndInv, StateInv, EnqInv, ArgInv, TypeOK
  <2>12. QED BY <2>4, <2>5, <2>6, <2>7, <2>8, <2>9, <2>10, <2>11 DEF IndInv
<1>15. ASSUME NEW t \in Tasks, NEW m \in Mutexes, mtxnew(t, m)
      PROVE  IndInv'
  <2>1. TypeOK'
    BY <1>15 DEF mtxnew, Goto, IndInv, TypeOK, Labels
  <2>2. ArgInv'
    BY <1>15 DEF mtxnew, Goto, IndInv, ArgInv, TypeOK
  <2>3. EnqInv'
    BY <1>15 DEF mtxnew, Goto, IndInv, EnqInv, StateInv, ArgInv, TypeOK
  <2>4. HolderInv'
    BY <1>15 DEF mtxnew, Goto, IndInv, HolderInv, OthersInv, StateInv, EnqInv, ArgInv, TypeOK, Unowned, Uncounted, Fresh
  <2>5. OthersInv'
    BY <1>15 DEF mtxnew, Goto, IndInv, OthersInv, HolderInv, EnqInv, ArgInv, TypeOK, Unowned, Uncounted, Fresh
  <2>6. ListInv'
    BY <1>15 DEF mtxnew, Goto, IndInv, ListInv, EnqInv, ArgInv, TypeOK, Unlisted
  <2>7. DupInv'
    BY <1>15 DEF mtxnew, Goto, IndInv, DupInv, TypeOK
  <2>8. StateInv'
    BY <1>15 DEF mtxnew, Goto, IndInv, StateInv, EnqInv, ArgInv, TypeOK
  <2>9. QED BY <2>1, <2>2, <2>3, <2>4, <2>5, <2>6, <2>7, <2>8 DEF IndInv
<1>16. ASSUME NEW t \in Tasks, NEW m \in Mutexes, mtxlock(t, m)
      PROVE  IndInv'
  <2>1. TypeOK'
    BY <1>16 DEF mtxlock, Goto, MayLock, IndInv, TypeOK, Labels
  <2>2. ArgInv'
    BY <1>16 DEF mtxlock, Goto, MayLock, IndInv, ArgInv, TypeOK
  <2>3. EnqInv'
    BY <1>16 DEF mtxlock, Goto, MayLock, IndInv, EnqInv, StateInv, ArgInv, TypeOK
  <2>4. HolderInv'
    BY <1>16 DEF mtxlock, Goto, MayLock, IndInv, HolderInv, OthersInv, StateInv, EnqInv, ArgInv, TypeOK, Unowned, Uncounted, Fresh
  <2>5. OthersInv'
    BY <1>16 DEF mtxlock, Goto, MayLock, IndInv, OthersInv, HolderInv, EnqInv, ArgInv, TypeOK, Unowned, Uncounted, Fresh
  <2>6. ListInv'
    BY <1>16 DEF mtxlock, Goto, MayLock, IndInv, ListInv, EnqInv, ArgInv, TypeOK, Unlisted
  <2>7. DupInv'
    BY <1>16 DEF mtxlock, Goto, MayLock, IndInv, DupInv, TypeOK
  <2>8. StateInv'
    BY <1>16 DEF mtxlock, Goto, MayLock, IndInv, StateInv, EnqInv, ArgInv, TypeOK
  <2>9. QED BY <2>1, <2>2, <2>3, <2>4, <2>5, <2>6, <2>7, <2>8 DEF IndInv
<1>17. ASSUME NEW t \in Tasks, NEW m \in Mutexes, mtxtry(t, m)
      PROVE  IndInv'
  <2>1. CASE enq[m] = t
    <3>1. TypeOK'
      BY <1>17, <2>1 DEF mtxtry, Goto, EnqHave, MayLock, IndInv, TypeOK, Labels
    <3>2. ArgInv'
      BY <1>17, <2>1 DEF mtxtry, Goto, EnqHave, MayLock, IndInv, ArgInv, TypeOK
    <3>3. EnqInv'
      BY <1>17, <2>1 DEF mtxtry, Goto, EnqHave, MayLock, IndInv, EnqInv, StateInv, ArgInv, TypeOK
    <3>4. HolderInv'
      BY <1>17, <2>1 DEF mtxtry, Goto, EnqHave, MayLock, IndInv, HolderInv, OthersInv, StateInv, EnqInv, ArgInv, TypeOK, Unowned, Uncounted, Fresh
    <3>5. OthersInv'
      BY <1>17, <2>1 DEF mtxtry, Goto, EnqHave, MayLock, IndInv, OthersInv, HolderInv, EnqInv, ArgInv, TypeOK, Unowned, Uncounted, Fresh
    <3>6. ListInv'
      BY <1>17, <2>1 DEF mtxtry, Goto, EnqHave, MayLock, IndInv, ListInv, EnqInv, ArgInv, TypeOK, Unlisted
    <3>7. DupInv'
      BY <1>17, <2>1 DEF mtxtry, Goto, EnqHave, MayLock, IndInv, DupInv, TypeOK
    <3>8. StateInv'
      BY <1>17, <2>1 DEF mtxtry, Goto, EnqHave, MayLock, IndInv, StateInv, EnqInv, ArgInv, TypeOK
    <3>9. QED BY <3>1, <3>2, <3>3, <3>4, <3>5, <3>6, <3>7, <3>8 DEF IndInv
  <2>2. CASE ~ (enq[m] = t)
    <3>1. TypeOK'
      BY <1>17, <2>2 DEF mtxtry, Goto, EnqHave, MayLock, IndInv, TypeOK, Labels
    <3>2. ArgInv'
      BY <1>17, <2>2 DEF mtxtry, Goto, EnqHave, MayLock, IndInv, ArgInv, TypeOK
    <3>3. EnqInv'
      BY <1>17, <2>2 DEF mtxtry, Goto, EnqHave, MayLock, IndInv, EnqInv, StateInv, ArgInv, TypeOK
    <3>4. HolderInv'
      BY <1>17, <2>2 DEF mtxtry, Goto, EnqHave, MayLock, IndInv, HolderInv, OthersInv, StateInv, EnqInv, ArgInv, TypeOK, Unowned, Uncounted, Fresh
    <3>5. OthersInv'
      BY <1>17, <2>2 DEF mtxtry, Goto, EnqHave, MayLock, IndInv, OthersInv, HolderInv, EnqInv, ArgInv, TypeOK, Unowned, Uncounted, Fresh
    <3>6. ListInv'
      BY <1>17, <2>2 DEF mtxtry, Goto, EnqHave, MayLock, IndInv, ListInv, EnqInv, ArgInv, TypeOK, Unlisted
    <3>7. DupInv'
      BY <1>17, <2>2 DEF mtxtry, Goto, EnqHave, MayLock, IndInv, DupInv, TypeOK
    <3>8. StateInv'
      BY <1>17, <2>2 DEF mtxtry, Goto, EnqHave, MayLock, IndInv, StateInv, EnqInv, ArgInv, TypeOK
    <3>9. QED BY <3>1, <3>2, <3>3, <3>4, <3>5, <3>6, <3>7, <3>8 DEF IndInv
  <2>3. QED BY <2>1, <2>2
<1>18. ASSUME NEW t \in Tasks, NEW m \in Mutexes, mtxunlk(t, m)
      PROVE  IndInv'
  <2>1. mtxheld(t, m) <=> enq[m] = t
    BY <1>18, HeldFacts DEF mtxunlk, IndInv, ArgInv, TypeOK
  <2>2. depth' \in [Tasks -> [Mutexes -> Nat]]
    <3>1. m \in Mutexes /\ depth[t] \in [Mutexes -> Nat]
      BY <1>18, <2>1 DEF mtxunlk, IndInv, TypeOK, ArgInv
    <3>2. [depth[t] EXCEPT ![m] = IF @ = 0 THEN 0 ELSE @ - 1] \in [Mutexes -> Nat]
      BY <3>1
    <3>3. depth' = [depth EXCEPT ![t] = [depth[t] EXCEPT ![m] = IF @ = 0 THEN 0 ELSE @ - 1]]
      BY <1>18, <2>1 DEF mtxunlk, IndInv, TypeOK
    <3>4. QED BY <3>2, <3>3 DEF IndInv, TypeOK
  <2>3. CASE count[m] = 1
    <3>1. /\ pc[t] = "run" /\ arg[t] = NoMutex /\ mstate[m] = "live" /\ enq[m] = t
          /\ pc'  = [pc EXCEPT ![t] = "uk_list"]
          /\ arg' = [arg EXCEPT ![t] = m]
          /\ count' = [count EXCEPT ![m] = @ - 1]
          /\ depth' = [depth EXCEPT ![t][m] = IF @ = 0 THEN 0 ELSE @ - 1]
          /\ UNCHANGED <<enq, owner, mstate, crtmutx, rc>>
      BY <1>18, <2>1, <2>2, <2>3 DEF mtxunlk, Goto, Uncount, mtxheld, IndInv, ArgInv, TypeOK
    <3>2. TypeOK'
      BY <2>1, <2>2, <2>3, <3>1 DEF IndInv, TypeOK, Labels
    <3>3. ArgInv'
      BY <2>1, <2>2, <2>3, <3>1 DEF IndInv, ArgInv, TypeOK
    <3>4. EnqInv'
      BY <2>1, <2>2, <2>3, <3>1 DEF IndInv, EnqInv, StateInv, ArgInv, TypeOK
    <3>5. HolderInv'
      BY <2>1, <2>2, <2>3, <3>1 DEF IndInv, HolderInv, OthersInv, StateInv, EnqInv, ArgInv, TypeOK, Unowned, Uncounted, Fresh
    <3>6. OthersInv'
      BY <2>1, <2>2, <2>3, <3>1 DEF IndInv, OthersInv, HolderInv, EnqInv, ArgInv, TypeOK, Unowned, Uncounted, Fresh
    <3>7. ListInv'
      BY <2>1, <2>2, <2>3, <3>1 DEF IndInv, ListInv, EnqInv, ArgInv, TypeOK, Unlisted
    <3>8. DupInv'
      BY <2>1, <2>2, <2>3, <3>1 DEF IndInv, DupInv, TypeOK
    <3>9. StateInv'
      BY <2>1, <2>2, <2>3, <3>1 DEF IndInv, StateInv, EnqInv, ArgInv, TypeOK
    <3>10. QED BY <3>2, <3>3, <3>4, <3>5, <3>6, <3>7, <3>8, <3>9 DEF IndInv
  <2>4. CASE ~ (count[m] = 1)
    <3>1. TypeOK'
      BY <1>18, <2>1, <2>2, <2>4 DEF mtxunlk, Goto, Uncount, mtxheld, IndInv, TypeOK, Labels
    <3>2. ArgInv'
      BY <1>18, <2>1, <2>2, <2>4 DEF mtxunlk, Goto, Uncount, mtxheld, IndInv, ArgInv, TypeOK
    <3>3. EnqInv'
      BY <1>18, <2>1, <2>2, <2>4 DEF mtxunlk, Goto, Uncount, mtxheld, IndInv, EnqInv, StateInv, ArgInv, TypeOK
    <3>4. HolderInv'
      BY <1>18, <2>1, <2>2, <2>4 DEF mtxunlk, Goto, Uncount, mtxheld, IndInv, HolderInv, OthersInv, StateInv, EnqInv, ArgInv, TypeOK, Unowned, Uncounted, Fresh
    <3>5. OthersInv'
      BY <1>18, <2>1, <2>2, <2>4 DEF mtxunlk, Goto, Uncount, mtxheld, IndInv, OthersInv, HolderInv, EnqInv, ArgInv, TypeOK, Unowned, Uncounted, Fresh
    <3>6. ListInv'
      BY <1>18, <2>1, <2>2, <2>4 DEF mtxunlk, Goto, Uncount, mtxheld, IndInv, ListInv, EnqInv, ArgInv, TypeOK, Unlisted
    <3>7. DupInv'
      BY <1>18, <2>1, <2>2, <2>4 DEF mtxunlk, Goto, Uncount, mtxheld, IndInv, DupInv, TypeOK
    <3>8. StateInv'
      BY <1>18, <2>1, <2>2, <2>4 DEF mtxunlk, Goto, Uncount, mtxheld, IndInv, StateInv, EnqInv, ArgInv, TypeOK
    <3>9. QED BY <3>1, <3>2, <3>3, <3>4, <3>5, <3>6, <3>7, <3>8 DEF IndInv
  <2>5. QED BY <2>3, <2>4
<1>19. ASSUME NEW t \in Tasks, NEW m \in Mutexes, mtxfree(t, m)
      PROVE  IndInv'
  <2>1. mtxheld(t, m) <=> enq[m] = t
    BY <1>19, HeldFacts DEF mtxfree, IndInv, ArgInv, TypeOK
  <2>2. CASE mtxheld(t, m)
    <3>1. /\ pc[t] = "run" /\ arg[t] = NoMutex /\ mstate[m] = "live" /\ enq[m] = t
          /\ \A u \in Tasks : arg[u] # m
          /\ pc' = [pc EXCEPT ![t] = "fr_unlk"]
          /\ arg' = [arg EXCEPT ![t] = m]
          /\ mstate' = [mstate EXCEPT ![m] = "dying"]
          /\ count' = [count EXCEPT ![m] = 1]
          /\ UNCHANGED <<enq, owner, crtmutx, rc, depth>>
      BY <1>19, <2>1, <2>2 DEF mtxfree, Goto, mtxheld, IndInv, ArgInv, TypeOK
    <3>2. TypeOK'
      BY <2>1, <2>2, <3>1 DEF IndInv, TypeOK, Labels
    <3>3. ArgInv'
      BY <2>1, <2>2, <3>1 DEF IndInv, ArgInv, TypeOK
    <3>4. EnqInv'
      BY <2>1, <2>2, <3>1 DEF IndInv, EnqInv, StateInv, ArgInv, TypeOK
    <3>5. HolderInv'
      BY <2>1, <2>2, <3>1 DEF IndInv, HolderInv, OthersInv, StateInv, EnqInv, ArgInv, TypeOK, Unowned, Uncounted, Fresh
    <3>6. OthersInv'
      BY <2>1, <2>2, <3>1 DEF IndInv, OthersInv, HolderInv, EnqInv, ArgInv, TypeOK, Unowned, Uncounted, Fresh
    <3>7. ListInv'
      BY <2>1, <2>2, <3>1 DEF IndInv, ListInv, EnqInv, ArgInv, TypeOK, Unlisted
    <3>8. DupInv'
      BY <2>1, <2>2, <3>1 DEF IndInv, DupInv, TypeOK
    <3>9. StateInv'
      BY <2>1, <2>2, <3>1 DEF IndInv, StateInv, EnqInv, ArgInv, TypeOK
    <3>10. QED BY <3>2, <3>3, <3>4, <3>5, <3>6, <3>7, <3>8, <3>9 DEF IndInv
  <2>3. CASE ~ (mtxheld(t, m))
    <3>1. TypeOK'
      BY <1>19, <2>1, <2>3 DEF mtxfree, Goto, mtxheld, IndInv, TypeOK, Labels
    <3>2. ArgInv'
      BY <1>19, <2>1, <2>3 DEF mtxfree, Goto, mtxheld, IndInv, ArgInv, TypeOK
    <3>3. EnqInv'
      BY <1>19, <2>1, <2>3 DEF mtxfree, Goto, mtxheld, IndInv, EnqInv, StateInv, ArgInv, TypeOK
    <3>4. HolderInv'
      BY <1>19, <2>1, <2>3 DEF mtxfree, Goto, mtxheld, IndInv, HolderInv, OthersInv, StateInv, EnqInv, ArgInv, TypeOK, Unowned, Uncounted, Fresh
    <3>5. OthersInv'
      BY <1>19, <2>1, <2>3 DEF mtxfree, Goto, mtxheld, IndInv, OthersInv, HolderInv, EnqInv, ArgInv, TypeOK, Unowned, Uncounted, Fresh
    <3>6. ListInv'
      BY <1>19, <2>1, <2>3 DEF mtxfree, Goto, mtxheld, IndInv, ListInv, EnqInv, ArgInv, TypeOK, Unlisted
    <3>7. DupInv'
      BY <1>19, <2>1, <2>3 DEF mtxfree, Goto, mtxheld, IndInv, DupInv, TypeOK
    <3>8. StateInv'
      BY <1>19, <2>1, <2>3 DEF mtxfree, Goto, mtxheld, IndInv, StateInv, EnqInv, ArgInv, TypeOK
    <3>9. QED BY <3>1, <3>2, <3>3, <3>4, <3>5, <3>6, <3>7, <3>8 DEF IndInv
  <2>4. QED BY <2>2, <2>3
<1>20. ASSUME NEW t \in Tasks, Return(t)
      PROVE  IndInv'
  <2>1. TypeOK'
    BY <1>20 DEF Return, Goto, IndInv, TypeOK, Labels
  <2>2. ArgInv'
    BY <1>20 DEF Return, Goto, IndInv, ArgInv, TypeOK
  <2>3. EnqInv'
    BY <1>20 DEF Return, Goto, IndInv, EnqInv, StateInv, ArgInv, TypeOK
  <2>4. HolderInv'
    BY <1>20 DEF Return, Goto, IndInv, HolderInv, OthersInv, StateInv, EnqInv, ArgInv, TypeOK, Unowned, Uncounted, Fresh
  <2>5. OthersInv'
    BY <1>20 DEF Return, Goto, IndInv, OthersInv, HolderInv, EnqInv, ArgInv, TypeOK, Unowned, Uncounted, Fresh
  <2>6. ListInv'
    BY <1>20 DEF Return, Goto, IndInv, ListInv, EnqInv, ArgInv, TypeOK, Unlisted
  <2>7. DupInv'
    BY <1>20 DEF Return, Goto, IndInv, DupInv, TypeOK
  <2>8. StateInv'
    BY <1>20 DEF Return, Goto, IndInv, StateInv, EnqInv, ArgInv, TypeOK
  <2>9. QED BY <2>1, <2>2, <2>3, <2>4, <2>5, <2>6, <2>7, <2>8 DEF IndInv
<1>21. ASSUME NEW t \in Tasks, Attach(t)
      PROVE  IndInv'
  <2>1. TypeOK'
    BY <1>21 DEF Attach, Goto, IndInv, TypeOK, Labels
  <2>2. ArgInv'
    BY <1>21 DEF Attach, Goto, IndInv, ArgInv, TypeOK
  <2>3. EnqInv'
    BY <1>21 DEF Attach, Goto, IndInv, EnqInv, StateInv, ArgInv, TypeOK
  <2>4. HolderInv'
    BY <1>21 DEF Attach, Goto, IndInv, HolderInv, OthersInv, StateInv, EnqInv, ArgInv, TypeOK, Unowned, Uncounted, Fresh
  <2>5. OthersInv'
    BY <1>21 DEF Attach, Goto, IndInv, OthersInv, HolderInv, EnqInv, ArgInv, TypeOK, Unowned, Uncounted, Fresh
  <2>6. ListInv'
    BY <1>21 DEF Attach, Goto, IndInv, ListInv, EnqInv, ArgInv, TypeOK, Unlisted
  <2>7. DupInv'
    BY <1>21 DEF Attach, Goto, IndInv, DupInv, TypeOK
  <2>8. StateInv'
    BY <1>21 DEF Attach, Goto, IndInv, StateInv, EnqInv, ArgInv, TypeOK
  <2>9. QED BY <2>1, <2>2, <2>3, <2>4, <2>5, <2>6, <2>7, <2>8 DEF IndInv
<1>22. CASE UNCHANGED vars
  BY <1>22 DEF vars, IndInv, TypeOK, Labels, ArgInv, EnqInv, HolderInv, OthersInv,
               ListInv, DupInv, StateInv, Unowned, Uncounted, Fresh, Unlisted
<1>23. QED
  BY <1>1, <1>2, <1>3, <1>4, <1>5, <1>6, <1>7, <1>8, <1>9, <1>10, <1>11, <1>12, <1>13, <1>14, <1>15, <1>16, <1>17, <1>18, <1>19, <1>20, <1>21, <1>22 DEF Next, Inside, Call

(* The initial state satisfies the invariant. *)
LEMMA InitInv == Init => IndInv
<1> USE TaskAssumption, MutexAssumption
<1>1. SUFFICES ASSUME Init PROVE IndInv
  OBVIOUS
<1>2. \A t \in Tasks, m \in Mutexes : ~ InArray(crtmutx[t], m)
  BY <1>1 DEF Init, InArray
<1>3. \A t \in Tasks : NoDuplicates(crtmutx[t])
  BY <1>1 DEF Init, NoDuplicates
<1>4. TypeOK
  BY <1>1 DEF Init, TypeOK, Labels
<1>5. ListInv /\ DupInv
  BY <1>1, <1>2, <1>3 DEF Init, ListInv, DupInv
<1>6. ArgInv /\ EnqInv /\ HolderInv /\ OthersInv /\ StateInv
  BY <1>1 DEF Init, ArgInv, EnqInv, HolderInv, OthersInv, StateInv
<1>7. QED BY <1>4, <1>5, <1>6 DEF IndInv

(* The invariant implies each of the properties that the runs check. *)
LEMMA Consequences ==
    ASSUME IndInv
    PROVE  /\ TypeOK /\ HeldIsSerialized /\ CountIsDepth /\ ListIsExact
           /\ FreedIsClean /\ EndedHoldsNothing /\ MutualExclusion
<1> USE TaskAssumption, MutexAssumption
<1>1. HeldIsSerialized
  BY HeldFacts DEF HeldIsSerialized
<1>2. \A t \in Tasks, m \in Mutexes :
         pc[t] = "run" => ~ Uncounted(t, m) /\ ~ Unowned(t, m) /\ ~ Unlisted(t, m)
  BY DEF IndInv, Uncounted, Fresh, Unowned, Unlisted
<1>3. CountIsDepth
  <2>1. SUFFICES ASSUME NEW t \in Tasks, NEW m \in Mutexes, pc[t] = "run"
                 PROVE  /\ enq[m] = t <=> depth[t][m] > 0
                        /\ depth[t][m] > 0 => mtxheld(t, m) /\ count[m] = depth[t][m]
    BY DEF CountIsDepth
  <2>2. CASE enq[m] = t
    BY <2>1, <2>2, <1>2, HeldFacts DEF IndInv, HolderInv, TypeOK
  <2>3. CASE enq[m] # t
    BY <2>3 DEF IndInv, OthersInv
  <2>4. QED BY <2>2, <2>3
<1>4. ListIsExact
  <2>1. ASSUME NEW t \in Tasks, pc[t] = "run", NEW m \in Mutexes
        PROVE  mtxheld(t, m) <=> InArray(crtmutx[t], m)
    BY <2>1, <1>2, HeldFacts DEF IndInv, ListInv
  <2>2. QED BY <2>1 DEF ListIsExact, IndInv, DupInv, NoDuplicates
<1>5. FreedIsClean
  BY DEF FreedIsClean, mtxavail, IndInv, StateInv, OthersInv, ListInv
<1>6. EndedHoldsNothing
  <2>1. SUFFICES ASSUME NEW t \in Tasks, NEW m \in Mutexes, pc[t] = "ended", owner[m] = t
                 PROVE  FALSE
    BY DEF EndedHoldsNothing
  <2>2. enq[m] # t
    BY <2>1 DEF IndInv, EnqInv
  <2>3. CASE enq[m] = NoTask
    BY <2>1, <2>3 DEF IndInv, OthersInv
  <2>4. CASE enq[m] \in Tasks
    BY <2>1, <2>2, <2>4 DEF IndInv, HolderInv
  <2>5. QED BY <2>3, <2>4 DEF IndInv, TypeOK
<1>7. MutualExclusion
  <2>1. \A t \in Tasks, m \in Mutexes : depth[t][m] > 0 => enq[m] = t
    BY DEF IndInv, OthersInv
  <2>2. QED BY <2>1 DEF MutualExclusion
<1>8. QED BY <1>1, <1>3, <1>4, <1>5, <1>6, <1>7 DEF IndInv

(* IndInv is an invariant of the mutexes. *)
LEMMA Invariance == ASSUME MemFails = FALSE PROVE Spec => []IndInv
<1>1. Init => IndInv
  BY InitInv
<1>2. IndInv /\ [Next]_vars => IndInv'
  BY Inductive
<1>3. QED BY <1>1, <1>2, PTL DEF Spec

----------------------------------------------------------------------------
(* Every variable keeps its type, in particular no count goes below 0,     *)
(* whoever calls mtxunlk().                                                *)
THEOREM MutexTyped == ASSUME MemFails = FALSE PROVE Spec => []TypeOK
<1>1. IndInv => TypeOK
  BY DEF IndInv
<1>2. QED BY <1>1, Invariance, PTL

(* mtxheld() is never true for a task without the ENQ: the unserialized    *)
(* test in mtxunlk(), mtxfree() and mtxclup() is safe.                     *)
THEOREM HeldIsSerializedThm == ASSUME MemFails = FALSE PROVE Spec => []HeldIsSerialized
<1>1. IndInv => HeldIsSerialized
  BY Consequences
<1>2. QED BY <1>1, Invariance, PTL

(* No two tasks are between the lock and the unlock of one mutex. *)
THEOREM MutualExclusionThm == ASSUME MemFails = FALSE PROVE Spec => []MutualExclusion
<1>1. IndInv => MutualExclusion
  BY Consequences
<1>2. QED BY <1>1, Invariance, PTL

(* A mutex is free after exactly as many mtxunlk() as mtxlock() calls. *)
THEOREM CountIsDepthThm == ASSUME MemFails = FALSE PROVE Spec => []CountIsDepth
<1>1. IndInv => CountIsDepth
  BY Consequences
<1>2. QED BY <1>1, Invariance, PTL

(* crtmutx is the list of the mutexes a task holds, each once. *)
THEOREM ListIsExactThm == ASSUME MemFails = FALSE PROVE Spec => []ListIsExact
<1>1. IndInv => ListIsExact
  BY Consequences
<1>2. QED BY <1>1, Invariance, PTL

(* mtxfree() leaves no ENQ, no list entry and no owner behind. *)
THEOREM FreedIsCleanThm == ASSUME MemFails = FALSE PROVE Spec => []FreedIsClean
<1>1. IndInv => FreedIsClean
  BY Consequences
<1>2. QED BY <1>1, Invariance, PTL

(* The cleanup of a thread releases every mutex the thread still holds. *)
THEOREM EndedHoldsNothingThm == ASSUME MemFails = FALSE PROVE Spec => []EndedHoldsNothing
<1>1. IndInv => EndedHoldsNothing
  BY Consequences
<1>2. QED BY <1>1, Invariance, PTL

(* Between calls the words, the ENQ queue and the lists agree. *)
THEOREM BooksAreExactThm == ASSUME MemFails = FALSE PROVE Spec => []BooksAreExact
<1>1. IndInv => BooksAreExact
  <2>1. IndInv => TypeOK
    BY DEF IndInv
  <2>2. QED BY <2>1, Consequences DEF BooksAreExact
<1>2. QED BY <1>1, Invariance, PTL

----------------------------------------------------------------------------
(* A step of the mutexes is a step of the abstract recursive mutex, or     *)
(* changes nothing there.                                                  *)
LEMMA StepRefines ==
    ASSUME MemFails = FALSE, IndInv, [Next]_vars
    PROVE  [Abstract!Next]_<<absHolder, absLevel>>
<1> USE TaskAssumption, MutexAssumption
<1>1. ASSUME NEW t \in Tasks, LockOwner(t) PROVE UNCHANGED <<absHolder, absLevel>>
  <2>1. ASSUME NEW x \in Mutexes
        PROVE  absHolder'[x] = absHolder[x] /\ absLevel'[x] = absLevel[x]
    BY <1>1, <2>1 DEF LockOwner, Goto, absHolder, absLevel, IndInv, TypeOK, ArgInv, EnqInv, HolderInv, OthersInv, StateInv, Unowned, Uncounted, Fresh
  <2>2. QED BY <2>1 DEF absHolder, absLevel
<1>2. ASSUME NEW t \in Tasks, LockCount(t)
      PROVE  \/ Abstract!Acquire(t, arg[t])
             \/ UNCHANGED <<absHolder, absLevel>>
  <2>1. arg[t] \in Mutexes /\ owner[arg[t]] = t /\ mstate[arg[t]] = "live" /\ count[arg[t]] \in Nat
    <3>1. pc[t] = "lk_count"
      BY <1>2 DEF LockCount
    <3>2. arg[t] \in Mutexes /\ enq[arg[t]] = t /\ mstate[arg[t]] = "live"
      <4>1. arg[t] \in Mutexes
        BY <3>1 DEF IndInv, TypeOK, ArgInv
      <4>2. enq[arg[t]] = t
        BY <3>1 DEF IndInv, EnqInv
      <4>3. mstate[arg[t]] = "live"
        BY <3>1 DEF IndInv, StateInv
      <4>4. QED BY <4>1, <4>2, <4>3
    <3>3. owner[arg[t]] = t /\ count[arg[t]] \in Nat
      BY ZenonT(60), <3>1, <3>2 DEF IndInv, TypeOK, HolderInv, Unowned
    <3>4. QED BY <3>2, <3>3
  <2>2. owner' = owner /\ mstate' = mstate /\ count' = [count EXCEPT ![arg[t]] = @ + 1]
    BY <1>2 DEF LockCount, Goto
  <2>3. absHolder[arg[t]] \in {NoTask, t}
    BY <2>1 DEF absHolder, mtxheld
  <2>4. absHolder' = [absHolder EXCEPT ![arg[t]] = t]
    <3>1. ASSUME NEW z \in Mutexes
          PROVE  absHolder'[z] = [absHolder EXCEPT ![arg[t]] = t][z]
      BY <2>1, <2>2 DEF absHolder, absLevel, mtxheld, IndInv, TypeOK
    <3>2. QED BY <3>1 DEF absHolder
  <2>5. absLevel' = [absLevel EXCEPT ![arg[t]] = absLevel[arg[t]] + 1]
    <3>1. ASSUME NEW z \in Mutexes
          PROVE  absLevel'[z] = [absLevel EXCEPT ![arg[t]] = absLevel[arg[t]] + 1][z]
      BY <2>1, <2>2 DEF absLevel, mtxheld, IndInv, TypeOK
    <3>2. QED BY <3>1 DEF absLevel
  <2>6. QED BY <2>3, <2>4, <2>5 DEF Abstract!Acquire
<1>3. ASSUME NEW t \in Tasks, UnlockOwner(t) PROVE UNCHANGED <<absHolder, absLevel>>
  <2>1. ASSUME NEW x \in Mutexes
        PROVE  absHolder'[x] = absHolder[x] /\ absLevel'[x] = absLevel[x]
    BY <1>3, <2>1 DEF UnlockOwner, Goto, absHolder, absLevel, IndInv, TypeOK, ArgInv, EnqInv, HolderInv, OthersInv, StateInv, Unowned, Uncounted, Fresh
  <2>2. QED BY <2>1 DEF absHolder, absLevel
<1>4. ASSUME NEW t \in Tasks, FreeUnlock(t) PROVE UNCHANGED <<absHolder, absLevel>>
  <2>1. ASSUME NEW x \in Mutexes
        PROVE  absHolder'[x] = absHolder[x] /\ absLevel'[x] = absLevel[x]
    BY <1>4, <2>1 DEF FreeUnlock, Goto, Uncount, mtxheld, absHolder, absLevel, IndInv, TypeOK, ArgInv, EnqInv, HolderInv, OthersInv, StateInv, Unowned, Uncounted, Fresh
  <2>2. QED BY <2>1 DEF absHolder, absLevel
<1>5. ASSUME NEW t \in Tasks, FreeZero(t) PROVE UNCHANGED <<absHolder, absLevel>>
  <2>1. ASSUME NEW x \in Mutexes
        PROVE  absHolder'[x] = absHolder[x] /\ absLevel'[x] = absLevel[x]
    BY <1>5, <2>1 DEF FreeZero, Goto, absHolder, absLevel, IndInv, TypeOK, ArgInv, EnqInv, HolderInv, OthersInv, StateInv, Unowned, Uncounted, Fresh
  <2>2. QED BY <2>1 DEF absHolder, absLevel
<1>6. ASSUME NEW t \in Tasks, CleanOwner(t)
      PROVE  \/ Abstract!ReleaseAll(t, arg[t])
             \/ UNCHANGED <<absHolder, absLevel>>
  <2>1. CASE ~ mtxheld(t, arg[t])
    <3>1. ASSUME NEW x \in Mutexes
          PROVE  absHolder'[x] = absHolder[x] /\ absLevel'[x] = absLevel[x]
      BY <1>6, <2>1, <3>1, HeldFacts DEF CleanOwner, Goto, mtxheld, absHolder, absLevel, IndInv, TypeOK, ArgInv, EnqInv, HolderInv, OthersInv, StateInv, Unowned, Uncounted, Fresh
    <3>2. QED BY <3>1 DEF absHolder, absLevel
  <2>2. CASE mtxheld(t, arg[t])
    <3>1. arg[t] \in Mutexes /\ mtxheld(t, arg[t]) /\ mstate[arg[t]] = "live" /\ count[arg[t]] \in Nat
      <4>1. pc[t] = "cl_owner"
        BY <1>6 DEF CleanOwner
      <4>2. arg[t] \in Mutexes /\ enq[arg[t]] = t /\ mstate[arg[t]] = "live"
        <5>1. arg[t] \in Mutexes
          BY <4>1 DEF IndInv, TypeOK, ArgInv
        <5>2. enq[arg[t]] = t
          BY <4>1 DEF IndInv, EnqInv
        <5>3. mstate[arg[t]] = "live"
          BY <4>1 DEF IndInv, StateInv
        <5>4. QED BY <5>1, <5>2, <5>3
      <4>3. owner[arg[t]] = t /\ count[arg[t]] \in Nat
        BY ZenonT(60), <4>1, <4>2 DEF IndInv, TypeOK, HolderInv, Unowned
      <4>4. QED BY <4>2, <4>3, <2>2
    <3>2. owner' = [owner EXCEPT ![arg[t]] = NoTask] /\ mstate' = mstate /\ count' = count
      BY <1>6, <2>2 DEF CleanOwner, Goto
    <3>3. absHolder[arg[t]] = t
      BY <3>1 DEF absHolder, mtxheld
    <3>4. absHolder' = [absHolder EXCEPT ![arg[t]] = NoTask]
      <4>1. ASSUME NEW z \in Mutexes
            PROVE  absHolder'[z] = [absHolder EXCEPT ![arg[t]] = NoTask][z]
        BY <3>1, <3>2 DEF absHolder, absLevel, mtxheld, IndInv, TypeOK
      <4>2. QED BY <4>1 DEF absHolder
    <3>5. absLevel' = [absLevel EXCEPT ![arg[t]] = 0]
      <4>1. ASSUME NEW z \in Mutexes
            PROVE  absLevel'[z] = [absLevel EXCEPT ![arg[t]] = 0][z]
        BY <3>1, <3>2 DEF absLevel, mtxheld, IndInv, TypeOK
      <4>2. QED BY <4>1 DEF absLevel
    <3>6. QED BY <3>3, <3>4, <3>5 DEF Abstract!ReleaseAll
  <2>3. QED BY <2>1, <2>2
<1>7. ASSUME NEW t \in Tasks, CleanCount(t) PROVE UNCHANGED <<absHolder, absLevel>>
  <2>1. ASSUME NEW x \in Mutexes
        PROVE  absHolder'[x] = absHolder[x] /\ absLevel'[x] = absLevel[x]
    BY <1>7, <2>1 DEF CleanCount, Goto, absHolder, absLevel, IndInv, TypeOK, ArgInv, EnqInv, HolderInv, OthersInv, StateInv, Unowned, Uncounted, Fresh
  <2>2. QED BY <2>1 DEF absHolder, absLevel
<1>8. ASSUME NEW t \in Tasks, NEW m \in Mutexes, mtxnew(t, m) PROVE UNCHANGED <<absHolder, absLevel>>
  <2>1. ASSUME NEW x \in Mutexes
        PROVE  absHolder'[x] = absHolder[x] /\ absLevel'[x] = absLevel[x]
    BY <1>8, <2>1 DEF mtxnew, Goto, absHolder, absLevel, IndInv, TypeOK, ArgInv, EnqInv, HolderInv, OthersInv, StateInv, Unowned, Uncounted, Fresh
  <2>2. QED BY <2>1 DEF absHolder, absLevel
<1>9. ASSUME NEW t \in Tasks, NEW m \in Mutexes, mtxunlk(t, m)
      PROVE  \/ Abstract!Release(t, m)
             \/ UNCHANGED <<absHolder, absLevel>>
  <2>1. m \in Mutexes /\ mtxheld(t, m) /\ mstate[m] = "live" /\ count[m] \in Nat
    BY <1>9 DEF mtxunlk, Goto, Uncount, IndInv, TypeOK, ArgInv, EnqInv, HolderInv, OthersInv, StateInv, Unowned, Uncounted, Fresh
  <2>2. owner' = owner /\ mstate' = mstate /\ count' = [count EXCEPT ![m] = @ - 1]
    BY <1>9 DEF mtxunlk, Goto, Uncount
  <2>3. absHolder[m] = t
    BY <2>1 DEF absHolder, mtxheld
  <2>4. absHolder' = [absHolder EXCEPT ![m] = IF absLevel[m] = 1 THEN NoTask ELSE t]
    <3>1. ASSUME NEW z \in Mutexes
          PROVE  absHolder'[z] = [absHolder EXCEPT ![m] = IF absLevel[m] = 1 THEN NoTask ELSE t][z]
      BY <2>1, <2>2 DEF absHolder, absLevel, mtxheld, IndInv, TypeOK
    <3>2. QED BY <3>1 DEF absHolder
  <2>5. absLevel' = [absLevel EXCEPT ![m] = absLevel[m] - 1]
    <3>1. ASSUME NEW z \in Mutexes
          PROVE  absLevel'[z] = [absLevel EXCEPT ![m] = absLevel[m] - 1][z]
      BY <2>1, <2>2 DEF absLevel, mtxheld, IndInv, TypeOK
    <3>2. QED BY <3>1 DEF absLevel
  <2>6. QED BY <2>3, <2>4, <2>5 DEF Abstract!Release
<1>10. ASSUME NEW t \in Tasks, NEW m \in Mutexes, mtxfree(t, m)
      PROVE  \/ Abstract!ReleaseAll(t, m)
             \/ UNCHANGED <<absHolder, absLevel>>
  <2>1. CASE ~ mtxheld(t, m)
    <3>1. ASSUME NEW x \in Mutexes
          PROVE  absHolder'[x] = absHolder[x] /\ absLevel'[x] = absLevel[x]
      BY <1>10, <2>1, <3>1, HeldFacts DEF mtxfree, Goto, mtxheld, absHolder, absLevel, IndInv, TypeOK, ArgInv, EnqInv, HolderInv, OthersInv, StateInv, Unowned, Uncounted, Fresh
    <3>2. QED BY <3>1 DEF absHolder, absLevel
  <2>2. CASE mtxheld(t, m)
    <3>1. m \in Mutexes /\ mtxheld(t, m) /\ mstate[m] = "live" /\ count[m] \in Nat
      BY <1>10, <2>2 DEF mtxfree, Goto, IndInv, TypeOK, ArgInv, EnqInv, HolderInv, OthersInv, StateInv, Unowned, Uncounted, Fresh
    <3>2. owner' = owner /\ mstate' = [mstate EXCEPT ![m] = "dying"] /\ count' = [count EXCEPT ![m] = 1]
      BY <1>10, <2>2 DEF mtxfree, Goto
    <3>3. absHolder[m] = t
      BY <3>1 DEF absHolder, mtxheld
    <3>4. absHolder' = [absHolder EXCEPT ![m] = NoTask]
      <4>1. ASSUME NEW z \in Mutexes
            PROVE  absHolder'[z] = [absHolder EXCEPT ![m] = NoTask][z]
        BY <3>1, <3>2 DEF absHolder, absLevel, mtxheld, IndInv, TypeOK
      <4>2. QED BY <4>1 DEF absHolder
    <3>5. absLevel' = [absLevel EXCEPT ![m] = 0]
      <4>1. ASSUME NEW z \in Mutexes
            PROVE  absLevel'[z] = [absLevel EXCEPT ![m] = 0][z]
        BY <3>1, <3>2 DEF absLevel, mtxheld, IndInv, TypeOK
      <4>2. QED BY <4>1 DEF absLevel
    <3>6. QED BY <3>3, <3>4, <3>5 DEF Abstract!ReleaseAll
  <2>3. QED BY <2>1, <2>2
<1>11. ASSUME UNCHANGED <<owner, count, mstate>> PROVE UNCHANGED <<absHolder, absLevel>>
  BY <1>11 DEF absHolder, absLevel
<1>12. QED
  <2>1. ASSUME NEW t \in Tasks, NEW m \in Mutexes,
               Abstract!Acquire(t, m) \/ Abstract!Release(t, m) \/ Abstract!ReleaseAll(t, m)
        PROVE  Abstract!Next
    BY <2>1 DEF Abstract!Next
  <2>2. ASSUME NEW t \in Tasks, Inside(t) PROVE [Abstract!Next]_<<absHolder, absLevel>>
    <3>1. ASSUME LockCount(t) \/ CleanOwner(t) PROVE arg[t] \in Mutexes
      BY <3>1 DEF LockCount, CleanOwner, IndInv, TypeOK, ArgInv
    <3>2. CASE LockCount(t)
      BY <3>1, <3>2, <1>2, <2>1
    <3>3. CASE CleanOwner(t)
      BY <3>1, <3>3, <1>6, <2>1
    <3>4. CASE LockOwner(t) \/ UnlockOwner(t) \/ FreeUnlock(t) \/ FreeZero(t) \/ CleanCount(t)
      BY <3>4, <1>1, <1>3, <1>4, <1>5, <1>7
    <3>5. CASE LockEnq(t) \/ LockAdd(t) \/ UnlockList(t) \/ UnlockDeq(t) \/ CleanNext(t) \/ CleanDeq(t) \/ TaskEnd(t)
      <4>1. UNCHANGED <<owner, count, mstate>>
        BY <3>5 DEF LockEnq, LockAdd, UnlockList, UnlockDeq, CleanNext, CleanDeq, TaskEnd
      <4>2. QED BY <4>1, <1>11
    <3>6. QED BY <2>2, <3>2, <3>3, <3>4, <3>5 DEF Inside
  <2>3. ASSUME NEW t \in Tasks, NEW m \in Mutexes, Call(t, m)
        PROVE  [Abstract!Next]_<<absHolder, absLevel>>
    <3>1. CASE mtxnew(t, m)
      BY <3>1, <1>8
    <3>2. CASE mtxlock(t, m) \/ mtxtry(t, m)
      BY <3>2, <1>11 DEF mtxlock, mtxtry
    <3>3. CASE mtxunlk(t, m)
      BY <3>3, <1>9, <2>1
    <3>4. CASE mtxfree(t, m)
      BY <3>4, <1>10, <2>1
    <3>5. QED BY <2>3, <3>1, <3>2, <3>3, <3>4 DEF Call
  <2>4. ASSUME NEW t \in Tasks, Return(t) \/ Attach(t)
        PROVE  [Abstract!Next]_<<absHolder, absLevel>>
    BY <2>4, <1>11 DEF Return, Attach
  <2>5. CASE UNCHANGED vars
    BY <2>5, <1>11 DEF vars
  <2>6. QED BY <2>2, <2>3, <2>4, <2>5 DEF Next

(* The mutexes implement the abstract recursive mutex. *)
THEOREM Refinement == ASSUME MemFails = FALSE PROVE Spec => ImplementsRecursiveMutex
<1>1. Init => Abstract!Init
  BY DEF Init, Abstract!Init, absHolder, absLevel
<1>2. IndInv /\ [Next]_vars => [Abstract!Next]_<<absHolder, absLevel>>
  BY StepRefines
<1>3. QED BY <1>1, <1>2, Invariance, PTL DEF Spec, ImplementsRecursiveMutex, Abstract!Spec

=============================================================================
