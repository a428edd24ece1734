----------------------------- MODULE TimerProofs ----------------------------
(***************************************************************************)
(* The safety properties of Timer for any number of clients, threads and   *)
(* requests, as long as the functions the timer thread calls purge nothing. *)
(***************************************************************************)
EXTENDS Timer, ArrayFacts

(* A value of tmr, and the queue in it: the array holds the queued TQEs,   *)
(* each once, and no free storage.                                         *)
TmrValues == [tqe : Seq(Tqes), wakeup : BOOLEAN, at : [Tqes -> Tqe]]

GoodQueue(s) ==
    /\ Distinct(s.tqe)
    /\ \A q \in Tqes : Has(s.tqe, q) <=> s.at[q].st = "queued"
    /\ \A q \in Tqes : s.at[q].st # "gone" => s.at[q].alloc

(* A TQE that has been made and is not queued yet is in the hands of one   *)
(* client.                                                                 *)
MadeInv ==
    /\ \A c \in Clients : pc[c] = "add" =>
          tmr.at[local[c].tqe].st = "made"
    /\ \A c, d \in Clients : pc[c] = "add" /\ pc[d] = "add"
          /\ local[c].tqe = local[d].tqe => c = d

(* The types, with that of tmr as a whole, and a TQE where one is added. *)
TypeInv ==
    /\ TypeOK /\ tmr \in TmrValues
    /\ \A c \in Clients : pc[c] = "add" => local[c].tqe \in Tqes

QueueInv == GoodQueue(tmr) /\ MadeInv

----------------------------------------------------------------------------
(* The operations on the queue.  s is the value before, z the one after.   *)

(* z differs from s in no TQE's place, *)
SameQueue(s, z) ==
    /\ z.tqe = s.tqe
    /\ \A q \in Tqes : z.at[q].st = s.at[q].st /\ (z.at[q].alloc <=> s.at[q].alloc)

(* ... and loses none that a client is about to queue. *)
KeepsMade(s, z) == \A q \in Tqes : s.at[q].st = "made" => z.at[q].st = "made"

LEMMA NoTqeFacts ==
    NoTqe \in Tqe /\ NoTqe.st = "gone" /\ ~ NoTqe.alloc
  BY DEF NoTqe, Tqe, Kinds

LEMMA SameFacts ==
    ASSUME NEW s, NEW z, SameQueue(s, z)
    PROVE  (GoodQueue(s) => GoodQueue(z)) /\ KeepsMade(s, z)
  BY DEF SameQueue, GoodQueue, KeepsMade

(* The search of every tqe_ function ends at an element, or finds none. *)
LEMMA IndexFacts ==
    ASSUME NEW s \in TmrValues, NEW id
    PROVE  /\ Index(s, id) \in 0 .. Len(s.tqe)
           /\ Index(s, id) # 0 => s.tqe[Index(s, id)] \in Tqes
           /\ Index(s, id) # 0 => Index(s, id) \in 1 .. Len(s.tqe)
<1> DEFINE F == {i \in 1 .. Len(s.tqe) : s.at[s.tqe[i]].id = id}
<1>1. s.tqe \in Seq(Tqes) /\ Len(s.tqe) \in Nat
  BY DEF TmrValues
<1>2. CASE F = {}
  <2>1. Index(s, id) = 0
    BY <1>2 DEF Index
  <2>2. QED BY <1>1, <2>1
<1>3. CASE F # {}
  <2>1. Index(s, id) = CHOOSE i \in F : \A j \in F : i <= j
    BY <1>3 DEF Index
  <2>2. F \subseteq Nat
    OBVIOUS
  <2>3. Index(s, id) \in F
    BY <1>3, <2>1, <2>2, Least
  <2>4. QED BY <1>1, <2>3
<1>4. QED BY <1>2, <1>3

(* Assigning to one TQE. *)
LEMMA PutFacts ==
    ASSUME NEW s \in TmrValues, NEW q \in Tqes, NEW r \in Tqe, NEW w \in BOOLEAN, NEW z,
           z = [tqe |-> s.tqe, wakeup |-> w, at |-> [s.at EXCEPT ![q] = r]]
    PROVE  /\ z \in TmrValues /\ z.tqe = s.tqe /\ z.at[q] = r
           /\ \A p \in Tqes : p # q => z.at[p] = s.at[p]
  BY DEF TmrValues

LEMMA DisableFacts ==
    ASSUME NEW s \in TmrValues, NEW id
    PROVE  tqe_disable(s, id) \in TmrValues /\ SameQueue(s, tqe_disable(s, id))
<1> DEFINE i == Index(s, id)
           q == s.tqe[i]
           r == [s.at[q] EXCEPT !.disabled = TRUE]
<1>1. CASE i = 0
  BY <1>1 DEF tqe_disable, SameQueue
<1>2. CASE i # 0
  <2>1. q \in Tqes
    BY <1>2, IndexFacts
  <2>2. s.at[q] \in Tqe /\ s.wakeup \in BOOLEAN
    BY <2>1 DEF TmrValues
  <2>3. r \in Tqe /\ r.st = s.at[q].st /\ (r.alloc <=> s.at[q].alloc)
    BY <2>2 DEF Tqe
  <2>4. tqe_disable(s, id) = [tqe |-> s.tqe, wakeup |-> s.wakeup,
                              at |-> [s.at EXCEPT ![q] = r]]
    BY <1>2, <2>1 DEF tqe_disable, TmrValues
  <2> HIDE DEF q, r
  <2> DEFINE z == tqe_disable(s, id)
  <2>5. z = [tqe |-> s.tqe, wakeup |-> s.wakeup, at |-> [s.at EXCEPT ![q] = r]]
    BY <2>4
  <2> HIDE DEF z
  <2>6. /\ z \in TmrValues /\ z.tqe = s.tqe /\ z.at[q] = r
        /\ \A p \in Tqes : p # q => z.at[p] = s.at[p]
    BY <2>1, <2>2, <2>3, <2>5, PutFacts
  <2>7. SameQueue(s, z)
    BY <2>3, <2>6 DEF SameQueue
  <2>8. QED BY <2>6, <2>7 DEF z
<1>3. QED BY <1>1, <1>2

LEMMA EnableFacts ==
    ASSUME NEW s \in TmrValues, NEW id
    PROVE  tqe_enable(s, id) \in TmrValues /\ SameQueue(s, tqe_enable(s, id))
<1> DEFINE i == Index(s, id)
           q == s.tqe[i]
           r == [s.at[q] EXCEPT !.disabled = FALSE,
                                !.due = s.at[q].bintvl = 0 /\ s.at[q].due]
           w == s.wakeup \/ s.at[q].bintvl # 0
<1>1. CASE i = 0
  BY <1>1 DEF tqe_enable, SameQueue
<1>2. CASE i # 0
  <2>1. q \in Tqes
    BY <1>2, IndexFacts
  <2>2. s.at[q] \in Tqe /\ w \in BOOLEAN
    BY <2>1 DEF TmrValues
  <2>3. r \in Tqe /\ r.st = s.at[q].st /\ (r.alloc <=> s.at[q].alloc)
    BY <2>2 DEF Tqe
  <2>4. tqe_enable(s, id) = [tqe |-> s.tqe, wakeup |-> w, at |-> [s.at EXCEPT ![q] = r]]
    BY <1>2, <2>1 DEF tqe_enable, TmrValues
  <2> HIDE DEF q, r, w
  <2> DEFINE z == tqe_enable(s, id)
  <2>5. z = [tqe |-> s.tqe, wakeup |-> w, at |-> [s.at EXCEPT ![q] = r]]
    BY <2>4
  <2> HIDE DEF z
  <2>6. /\ z \in TmrValues /\ z.tqe = s.tqe /\ z.at[q] = r
        /\ \A p \in Tqes : p # q => z.at[p] = s.at[p]
    BY <2>1, <2>2, <2>3, <2>5, PutFacts
  <2>7. SameQueue(s, z)
    BY <2>3, <2>6 DEF SameQueue
  <2>8. QED BY <2>6, <2>7 DEF z
<1>3. QED BY <1>1, <1>2

LEMMA ResetFacts ==
    ASSUME NEW s \in TmrValues, NEW id, NEW b \in Intervals
    PROVE  tqe_reset(s, id, b) \in TmrValues /\ SameQueue(s, tqe_reset(s, id, b))
<1> DEFINE i == Index(s, id)
           q == s.tqe[i]
           anew == ~ s.at[q].disabled /\ b # 0
           r == [s.at[q] EXCEPT !.bintvl = b, !.due = s.at[q].due /\ ~ anew]
           w == s.wakeup \/ anew
<1>1. CASE i = 0
  BY <1>1 DEF tqe_reset, SameQueue
<1>2. CASE i # 0
  <2>1. q \in Tqes
    BY <1>2, IndexFacts
  <2>2. s.at[q] \in Tqe /\ w \in BOOLEAN
    BY <2>1 DEF TmrValues
  <2>3. r \in Tqe /\ r.st = s.at[q].st /\ (r.alloc <=> s.at[q].alloc)
    BY <2>2, IntervalAssumption DEF Tqe
  <2>4. tqe_reset(s, id, b) = [tqe |-> s.tqe, wakeup |-> w, at |-> [s.at EXCEPT ![q] = r]]
    BY <1>2, <2>1 DEF tqe_reset, TmrValues
  <2> HIDE DEF q, r, w
  <2> DEFINE z == tqe_reset(s, id, b)
  <2>5. z = [tqe |-> s.tqe, wakeup |-> w, at |-> [s.at EXCEPT ![q] = r]]
    BY <2>4
  <2> HIDE DEF z
  <2>6. /\ z \in TmrValues /\ z.tqe = s.tqe /\ z.at[q] = r
        /\ \A p \in Tqes : p # q => z.at[p] = s.at[p]
    BY <2>1, <2>2, <2>3, <2>5, PutFacts
  <2>7. SameQueue(s, z)
    BY <2>3, <2>6 DEF SameQueue
  <2>8. QED BY <2>6, <2>7 DEF z
<1>3. QED BY <1>1, <1>2

(* Freeing the TQE at i and deleting the element: tqe_purge(), and what    *)
(* tmr_thread() does with a one-shot.                                      *)
LEMMA FreeFacts ==
    ASSUME NEW s \in TmrValues, NEW q \in Tqes, NEW i
    PROVE  LET z == [s EXCEPT !.at[q] = NoTqe, !.tqe = arraydel(@, i)]
           IN  /\ z \in TmrValues
               /\ GoodQueue(s) /\ i \in 1 .. Len(s.tqe) /\ q = s.tqe[i]
                    => GoodQueue(z) /\ KeepsMade(s, z)
<1> DEFINE z == [s EXCEPT !.at[q] = NoTqe, !.tqe = arraydel(@, i)]
<1>1. s.tqe \in Seq(Tqes) /\ s.at \in [Tqes -> Tqe]
  BY DEF TmrValues
<1>2. arraydel(s.tqe, i) \in Seq(Tqes)
  BY <1>1, RemovedFacts DEF arraydel, Removed
<1>3. z \in TmrValues /\ z.tqe = arraydel(s.tqe, i) /\ z.at[q] = NoTqe
      /\ \A p \in Tqes : p # q => z.at[p] = s.at[p]
  BY <1>1, <1>2, NoTqeFacts DEF TmrValues
<1> HIDE DEF z
<1>4. ASSUME GoodQueue(s), i \in 1 .. Len(s.tqe), q = s.tqe[i]
      PROVE  GoodQueue(z) /\ KeepsMade(s, z)
  <2>1. z.tqe = Removed(s.tqe, i)
    BY <1>3, <1>4 DEF arraydel, Removed
  <2>2. Distinct(z.tqe) /\ \A p \in Tqes : Has(z.tqe, p) <=> Has(s.tqe, p) /\ p # q
    BY <2>1, <1>1, <1>4, RemovedFacts DEF GoodQueue
  <2>3. s.at[q].st = "queued"
    BY <1>4 DEF GoodQueue, Has
  <2>4. QED BY <2>2, <2>3, <1>3, <1>4, NoTqeFacts DEF GoodQueue, KeepsMade
<1>5. QED BY <1>3, <1>4 DEF z

LEMMA PurgeFacts ==
    ASSUME NEW s \in TmrValues, NEW id
    PROVE  /\ tqe_purge(s, id) \in TmrValues
           /\ GoodQueue(s) => GoodQueue(tqe_purge(s, id)) /\ KeepsMade(s, tqe_purge(s, id))
<1> DEFINE i == Index(s, id)
<1>1. CASE i = 0
  BY <1>1 DEF tqe_purge, KeepsMade
<1>2. CASE i # 0
  <2>1. s.tqe[i] \in Tqes /\ i \in 1 .. Len(s.tqe)
    BY <1>2, IndexFacts
  <2>2. tqe_purge(s, id) = [s EXCEPT !.at[s.tqe[i]] = NoTqe, !.tqe = arraydel(@, i)]
    BY <1>2 DEF tqe_purge, TmrValues
  <2> HIDE DEF i
  <2>3. LET z == [s EXCEPT !.at[s.tqe[i]] = NoTqe, !.tqe = arraydel(@, i)]
        IN  z \in TmrValues /\ (GoodQueue(s) => GoodQueue(z) /\ KeepsMade(s, z))
    BY <2>1, FreeFacts
  <2>4. QED BY <2>2, <2>3
<1>3. QED BY <1>1, <1>2

(* tqe_new() takes free storage, which is not queued. *)
LEMMA NewFacts ==
    ASSUME NEW s \in TmrValues, NEW q \in Tqes, ~ s.at[q].alloc,
           NEW kind \in Kinds, NEW b \in Intervals, NEW id \in Ids
    PROVE  LET z == tqe_new(s, q, kind, b, id)
           IN  /\ z \in TmrValues /\ z.tqe = s.tqe /\ z.at[q].st = "made"
               /\ \A p \in Tqes : p # q => z.at[p] = s.at[p]
               /\ GoodQueue(s) => GoodQueue(z) /\ KeepsMade(s, z) /\ s.at[q].st = "gone"
<1> DEFINE r == [NoTqe EXCEPT !.alloc = TRUE, !.id = id, !.kind = kind, !.bintvl = b,
                              !.due = b = 0, !.st = "made"]
           z == tqe_new(s, q, kind, b, id)
<1>1. r \in Tqe /\ r.alloc /\ r.st = "made"
  BY IntervalAssumption DEF NoTqe, Tqe, Kinds
<1>2. /\ z = [tqe |-> s.tqe, wakeup |-> s.wakeup, at |-> [s.at EXCEPT ![q] = r]]
      /\ s.wakeup \in BOOLEAN
  BY DEF tqe_new, TmrValues
<1> HIDE DEF r, z
<1>3. /\ z \in TmrValues /\ z.tqe = s.tqe /\ z.at[q] = r
      /\ \A p \in Tqes : p # q => z.at[p] = s.at[p]
  <2>1. r \in Tqe /\ s.tqe \in Seq(Tqes) /\ s.at \in [Tqes -> Tqe]
    BY <1>1 DEF TmrValues
  <2>2. z.tqe = s.tqe /\ z.wakeup = s.wakeup /\ z.at = [s.at EXCEPT ![q] = r]
    BY <1>2
  <2>3. z \in TmrValues
    BY <1>2, <2>1 DEF TmrValues
  <2>4. QED BY <2>1, <2>2, <2>3
<1>4. ASSUME GoodQueue(s) PROVE GoodQueue(z) /\ KeepsMade(s, z) /\ s.at[q].st = "gone"
  <2>1. s.at[q].st = "gone"
    BY <1>4 DEF GoodQueue, TmrValues
  <2>2. QED BY <2>1, <1>1, <1>3, <1>4 DEF GoodQueue, KeepsMade
<1>5. QED BY <1>1, <1>3, <1>4 DEF z

(* The section that ends every request function. *)
LEMMA QueueFacts ==
    ASSUME NEW s \in TmrValues, NEW q \in Tqes
    PROVE  LET z == Queue(s, q)
           IN  /\ z \in TmrValues /\ z.tqe = Append(s.tqe, q)
               /\ \A p \in Tqes : p # q => z.at[p] = s.at[p]
               /\ GoodQueue(s) /\ s.at[q].st = "made" => GoodQueue(z)
<1> DEFINE r == [s.at[q] EXCEPT !.st = "queued", !.stopped = Stopping]
           z == Queue(s, q)
<1>1. s.tqe \in Seq(Tqes) /\ s.at \in [Tqes -> Tqe] /\ Stopping \in BOOLEAN
  BY DEF TmrValues, Stopping
<1>2. r \in Tqe /\ (r.alloc <=> s.at[q].alloc) /\ r.st = "queued"
  BY <1>1 DEF Tqe
<1>3. z = [tqe |-> Append(s.tqe, q), wakeup |-> TRUE, at |-> [s.at EXCEPT ![q] = r]]
  <2>1. z = [s EXCEPT !.tqe = Append(s.tqe, q), !.wakeup = TRUE,
                      !.at = [s.at EXCEPT ![q] = r]]
    BY <1>1 DEF Queue, arrayadd
  <2> HIDE DEF r
  <2>2. QED BY <2>1 DEF TmrValues
<1> HIDE DEF r, z
<1>4. /\ z \in TmrValues /\ z.tqe = Append(s.tqe, q) /\ z.at[q] = r
      /\ \A p \in Tqes : p # q => z.at[p] = s.at[p]
  BY <1>1, <1>2, <1>3 DEF TmrValues
<1>5. ASSUME GoodQueue(s), s.at[q].st = "made" PROVE GoodQueue(z)
  <2>1. ~ Has(s.tqe, q)
    BY <1>5 DEF GoodQueue
  <2>2. Distinct(z.tqe) /\ \A p \in Tqes : Has(z.tqe, p) <=> Has(s.tqe, p) \/ p = q
    BY <2>1, <1>1, <1>4, <1>5, AddedFacts DEF GoodQueue
  <2>3. QED BY <2>2, <1>2, <1>4, <1>5 DEF GoodQueue
<1>6. QED BY <1>4, <1>5 DEF z

(* A call of the service from the function of a request. *)
LEMMA CalledFacts ==
    ASSUME NEW s \in TmrValues, NEW z \in Called(s)
    PROVE  /\ z \in TmrValues
           /\ "purge" \notin CallOps =>
                 /\ GoodQueue(s) => GoodQueue(z) /\ KeepsMade(s, z)
                 /\ \A i \in 1 .. Len(s.tqe) : i \in 1 .. Len(z.tqe) /\ z.tqe[i] = s.tqe[i]
<1> DEFINE Facts == /\ z \in TmrValues
                    /\ GoodQueue(s) => GoodQueue(z) /\ KeepsMade(s, z)
                    /\ \A i \in 1 .. Len(s.tqe) :
                          i \in 1 .. Len(z.tqe) /\ z.tqe[i] = s.tqe[i]
<1>1. \/ z = s
      \/ "purge" \in CallOps /\ \E id \in Ids : z = tqe_purge(s, id)
      \/ \E id \in Ids : z = tqe_disable(s, id) \/ z = tqe_enable(s, id)
      \/ \E w \in Tqes \X Kinds \X Intervals \X Ids :
            ~ s.at[w[1]].alloc /\ z = Queue(tqe_new(s, w[1], w[2], w[3], w[4]), w[1])
  BY DEF Called
<1>2. CASE z = s
  BY <1>2 DEF KeepsMade
<1>3. ASSUME "purge" \in CallOps, NEW id \in Ids, z = tqe_purge(s, id)
      PROVE  z \in TmrValues
  BY <1>3, PurgeFacts
<1>4. ASSUME NEW id \in Ids, z = tqe_disable(s, id) \/ z = tqe_enable(s, id)
      PROVE  Facts
  <2>1. z \in TmrValues /\ SameQueue(s, z)
    BY <1>4, DisableFacts, EnableFacts
  <2>2. QED BY <2>1, SameFacts DEF SameQueue
<1>5. ASSUME NEW w \in Tqes \X Kinds \X Intervals \X Ids, ~ s.at[w[1]].alloc,
             z = Queue(tqe_new(s, w[1], w[2], w[3], w[4]), w[1])
      PROVE  Facts
  <2> DEFINE q == w[1]
             y == tqe_new(s, q, w[2], w[3], w[4])
  <2>1. q \in Tqes /\ w[2] \in Kinds /\ w[3] \in Intervals /\ w[4] \in Ids
    OBVIOUS
  <2>2. /\ y \in TmrValues /\ y.tqe = s.tqe /\ y.at[q].st = "made"
        /\ \A p \in Tqes : p # q => y.at[p] = s.at[p]
        /\ GoodQueue(s) => GoodQueue(y) /\ KeepsMade(s, y) /\ s.at[q].st = "gone"
    BY <1>5, <2>1, NewFacts
  <2> HIDE DEF y, q
  <2>3. z = Queue(y, q)
    BY <1>5 DEF y, q
  <2>4. /\ z \in TmrValues /\ z.tqe = Append(y.tqe, q)
        /\ \A p \in Tqes : p # q => z.at[p] = y.at[p]
        /\ GoodQueue(y) => GoodQueue(z)
    BY <2>1, <2>2, <2>3, QueueFacts
  <2>5. \A i \in 1 .. Len(s.tqe) : i \in 1 .. Len(z.tqe) /\ z.tqe[i] = s.tqe[i]
    BY <2>1, <2>2, <2>4 DEF TmrValues
  <2>6. GoodQueue(s) => GoodQueue(z) /\ KeepsMade(s, z)
    BY <2>2, <2>4 DEF KeepsMade
  <2>7. QED BY <2>4, <2>5, <2>6
<1>6. QED BY <1>1, <1>2, <1>3, <1>4, <1>5

(* What becomes of the request at i of the array. *)
LEMMA SettleFacts ==
    ASSUME NEW s \in TmrValues, NEW i, NEW q \in Tqes, NEW kind \in Kinds
    PROVE  /\ Settle(s, i, q, kind) \in TmrValues
           /\ GoodQueue(s) /\ i \in 1 .. Len(s.tqe) /\ q = s.tqe[i]
                => GoodQueue(Settle(s, i, q, kind)) /\ KeepsMade(s, Settle(s, i, q, kind))
<1> DEFINE z == Settle(s, i, q, kind)
<1>1. CASE kind = "once"
  <2>1. z = [s EXCEPT !.at[q] = NoTqe, !.tqe = arraydel(@, i)]
    BY <1>1 DEF Settle
  <2>2. LET y == [s EXCEPT !.at[q] = NoTqe, !.tqe = arraydel(@, i)]
        IN  /\ y \in TmrValues
            /\ GoodQueue(s) /\ i \in 1 .. Len(s.tqe) /\ q = s.tqe[i]
                 => GoodQueue(y) /\ KeepsMade(s, y)
    BY FreeFacts
  <2> HIDE DEF z
  <2>3. QED BY <2>1, <2>2 DEF z
<1>2. CASE kind # "once"
  <2> DEFINE r == IF kind = "keep" THEN [s.at[q] EXCEPT !.disabled = TRUE]
                                   ELSE [s.at[q] EXCEPT !.due = FALSE]
  <2>1. s.at \in [Tqes -> Tqe] /\ s.tqe \in Seq(Tqes) /\ s.wakeup \in BOOLEAN
    BY DEF TmrValues
  <2>2. r \in Tqe /\ r.st = s.at[q].st /\ (r.alloc <=> s.at[q].alloc)
    <3>1. s.at[q] \in Tqe
      BY <2>1
    <3>2. QED BY ZenonT(60), <3>1 DEF Tqe
  <2>3. z = [tqe |-> s.tqe, wakeup |-> s.wakeup, at |-> [s.at EXCEPT ![q] = r]]
    BY <1>2 DEF Settle, TmrValues, Kinds
  <2> HIDE DEF r, z
  <2>4. z \in TmrValues
    BY <2>1, <2>2, <2>3 DEF TmrValues
  <2>5. SameQueue(s, z)
    BY <2>1, <2>2, <2>3 DEF SameQueue
  <2>6. QED BY <2>4, <2>5, SameFacts DEF z
<1>3. QED BY <1>1, <1>2

(* One element of the pass. *)
LEMMA ElementFacts ==
    ASSUME TypeInv, NEW h \in Threads, Element(h)
    PROVE  /\ tmr' \in TmrValues
           /\ "purge" \notin CallOps /\ GoodQueue(tmr)
                => GoodQueue(tmr') /\ KeepsMade(tmr, tmr')
<1>1. tmr \in TmrValues /\ n \in Nat /\ n > 0 /\ tmr.tqe \in Seq(Tqes)
  BY DEF TypeInv, TypeOK, Element
<1>2. CASE UNCHANGED tmr
  BY <1>1, <1>2 DEF KeepsMade
<1>3. CASE ~ UNCHANGED tmr
  <2> DEFINE q == tmr.tqe[n]
             kind == tmr.at[q].kind
  <2>1. n \in 1 .. Len(tmr.tqe) /\ \E s \in Called(tmr) : tmr' = Settle(s, n, q, kind)
    BY <1>1, <1>3 DEF Element
  <2>2. q \in Tqes
    BY <1>1, <2>1
  <2>3. kind \in Kinds
    BY <1>1, <2>2 DEF TmrValues, Tqe
  <2> HIDE DEF q, kind
  <2>4. PICK s \in Called(tmr) : tmr' = Settle(s, n, q, kind)
    BY <2>1
  <2>5. /\ s \in TmrValues
        /\ "purge" \notin CallOps =>
              /\ GoodQueue(tmr) => GoodQueue(s) /\ KeepsMade(tmr, s)
              /\ \A i \in 1 .. Len(tmr.tqe) : i \in 1 .. Len(s.tqe) /\ s.tqe[i] = tmr.tqe[i]
    BY <1>1, CalledFacts
  <2>6. tmr' \in TmrValues
    BY <2>2, <2>3, <2>4, <2>5, SettleFacts
  <2>7. ASSUME "purge" \notin CallOps, GoodQueue(tmr)
        PROVE  GoodQueue(tmr') /\ KeepsMade(tmr, tmr')
    <3>1. n \in 1 .. Len(s.tqe) /\ q = s.tqe[n]
      BY <2>1, <2>5, <2>7 DEF q
    <3>2. GoodQueue(tmr') /\ KeepsMade(s, tmr')
      BY <2>2, <2>3, <2>4, <2>5, <2>7, <3>1, SettleFacts
    <3>3. QED BY <2>5, <2>7, <3>2 DEF KeepsMade
  <2>8. QED BY <2>6, <2>7
<1>4. QED BY <1>2, <1>3

(* Assigning to wakeup, to a clock, and to the history of every TQE. *)
LEMMA WakeFacts ==
    ASSUME NEW s \in TmrValues, NEW w \in BOOLEAN
    PROVE  LET z == [s EXCEPT !.wakeup = w] IN z \in TmrValues /\ SameQueue(s, z)
  BY DEF TmrValues, SameQueue

LEMMA StopFacts ==
    ASSUME NEW s \in TmrValues
    PROVE  LET z == [s EXCEPT !.at = [q \in Tqes |-> [@[q] EXCEPT !.stopped = TRUE]]]
           IN  z \in TmrValues /\ SameQueue(s, z)
<1> DEFINE f == [q \in Tqes |-> [s.at[q] EXCEPT !.stopped = TRUE]]
           z == [s EXCEPT !.at = f]
<1>1. ASSUME NEW q \in Tqes
      PROVE  f[q] \in Tqe /\ f[q].st = s.at[q].st /\ (f[q].alloc <=> s.at[q].alloc)
  <2>1. s.at[q] \in Tqe /\ f[q] = [s.at[q] EXCEPT !.stopped = TRUE]
    BY DEF TmrValues
  <2> HIDE DEF f
  <2>2. QED BY <2>1 DEF Tqe
<1>2. f \in [Tqes -> Tqe]
  BY <1>1
<1> HIDE DEF f
<1>3. z \in TmrValues /\ SameQueue(s, z)
  BY <1>1, <1>2 DEF TmrValues, SameQueue
<1>4. QED BY <1>3 DEF f

LEMMA DueFacts ==
    ASSUME NEW s \in TmrValues, NEW q \in Tqes
    PROVE  LET z == [s EXCEPT !.at[q].due = TRUE] IN z \in TmrValues /\ SameQueue(s, z)
<1> DEFINE r == [s.at[q] EXCEPT !.due = TRUE]
           z == [s EXCEPT !.at = [s.at EXCEPT ![q] = r]]
<1>1. r \in Tqe /\ r.st = s.at[q].st /\ (r.alloc <=> s.at[q].alloc)
  <2>1. s.at[q] \in Tqe
    BY DEF TmrValues
  <2>2. QED BY <2>1 DEF Tqe
<1> HIDE DEF r
<1>2. z \in TmrValues /\ SameQueue(s, z)
  BY <1>1 DEF TmrValues, SameQueue
<1>3. QED BY <1>2 DEF r

(* A TQE that could not be queued is freed. *)
LEMMA DropFacts ==
    ASSUME NEW s \in TmrValues, NEW q \in Tqes
    PROVE  LET z == [s EXCEPT !.at[q] = NoTqe]
           IN  /\ z \in TmrValues
               /\ GoodQueue(s) /\ s.at[q].st = "made" => GoodQueue(z)
               /\ \A p \in Tqes : p # q => z.at[p] = s.at[p]
<1> DEFINE z == [s EXCEPT !.at[q] = NoTqe]
<1>1. z \in TmrValues /\ z.tqe = s.tqe /\ z.at[q] = NoTqe
      /\ \A p \in Tqes : p # q => z.at[p] = s.at[p]
  BY NoTqeFacts DEF TmrValues
<1> HIDE DEF z
<1>2. GoodQueue(s) /\ s.at[q].st = "made" => GoodQueue(z)
  BY <1>1, NoTqeFacts DEF GoodQueue
<1>3. QED BY <1>1, <1>2 DEF z

Locals == [tqe : Tqes \cup {None}, task : Threads \cup {None}]

LEMMA LocalFacts ==
    ASSUME NEW l \in Locals, NEW q \in Tqes \cup {None}, NEW h \in Threads \cup {None}
    PROVE  /\ [l EXCEPT !.tqe = q] \in Locals /\ [l EXCEPT !.tqe = q].tqe = q
           /\ [l EXCEPT !.task = h] \in Locals /\ [l EXCEPT !.task = h].tqe = l.tqe
           /\ NoLocal \in Locals
  BY DEF Locals, NoLocal

----------------------------------------------------------------------------
(* Every variable keeps its type, whatever the functions of requests call. *)
LEMMA Typed == ASSUME TypeInv, [Next]_vars PROVE TypeInv'
<1> USE NoneAssumption, IntervalAssumption, SwitchAssumption
<1>0. /\ tmr \in TmrValues /\ TypeOK /\ local \in [Clients -> Locals]
      /\ \A c \in Clients : pc[c] = "add" => local[c].tqe \in Tqes
  BY DEF TypeInv, TypeOK, Locals
<1>1. ASSUME NEW c \in Clients, Request(c) PROVE TypeInv'
  <2>1. tmr' \in TmrValues
    BY <1>0, <1>1 DEF Request
  <2>2. local' \in [Clients -> Locals]
    BY <1>0, <1>1 DEF Request
  <2>3. \A d \in Clients : pc'[d] = "add" => local'[d].tqe \in Tqes
    BY <1>0, <1>1, LocalFacts DEF Request, Goto, TypeOK
  <2>4. QED BY <1>0, <1>1, <2>1, <2>2, <2>3 DEF Request, Goto, TypeInv, TypeOK,
               TmrValues, Locals, Labels, Places
<1>2. ASSUME NEW c \in Clients, tmr_start(c) PROVE TypeInv'
  <2>1. tmr' \in TmrValues
    BY <1>0, <1>2 DEF tmr_start
  <2>2. local' \in [Clients -> Locals]
    <3>1. NoLocal \in Locals /\ \A h \in Threads : [local[c] EXCEPT !.task = h] \in Locals
      BY <1>0, LocalFacts
    <3>2. \/ local' = local
          \/ local' = [local EXCEPT ![c] = NoLocal]
          \/ \E h \in Threads : local' = [local EXCEPT ![c] = [local[c] EXCEPT !.task = h]]
      BY <1>0, <1>2 DEF tmr_start
    <3>3. QED BY <1>0, <3>1, <3>2
  <2>3. \A d \in Clients : pc'[d] = "add" => local'[d].tqe \in Tqes
    BY <1>0, <1>2, LocalFacts DEF tmr_start, Goto, TypeOK
  <2>4. QED BY <1>0, <1>2, <2>1, <2>2, <2>3 DEF tmr_start, Goto, Move, TypeInv, TypeOK,
               TmrValues, Locals, Labels, Places
<1>3. ASSUME NEW c \in Clients, Started(c) PROVE TypeInv'
  <2>1. tmr' \in TmrValues
    BY <1>0, <1>3 DEF Started
  <2>2. local' \in [Clients -> Locals]
    BY <1>0, <1>3 DEF Started
  <2>3. \A d \in Clients : pc'[d] = "add" => local'[d].tqe \in Tqes
    BY <1>0, <1>3, LocalFacts DEF Started, Goto, TypeOK
  <2>4. QED BY <1>0, <1>3, <2>1, <2>2, <2>3 DEF Started, Goto, TypeInv, TypeOK,
               TmrValues, Locals, Labels, Places
<1>4. ASSUME NEW c \in Clients, NotStarted(c) PROVE TypeInv'
  <2>1. tmr' \in TmrValues
    BY <1>0, <1>4 DEF NotStarted
  <2>2. local' \in [Clients -> Locals]
    BY <1>0, <1>4 DEF NotStarted
  <2>3. \A d \in Clients : pc'[d] = "add" => local'[d].tqe \in Tqes
    BY <1>0, <1>4, LocalFacts DEF NotStarted, Goto, TypeOK
  <2>4. QED BY <1>0, <1>4, <2>1, <2>2, <2>3 DEF NotStarted, Goto, TypeInv, TypeOK,
               TmrValues, Locals, Labels, Places
<1>5. ASSUME NEW c \in Clients, GiveUp(c) PROVE TypeInv'
  <2>1. tmr' \in TmrValues
    BY <1>0, <1>5 DEF GiveUp
  <2>2. local' \in [Clients -> Locals]
    BY <1>0, <1>5, LocalFacts DEF GiveUp, TypeOK
  <2>3. \A d \in Clients : pc'[d] = "add" => local'[d].tqe \in Tqes
    BY <1>0, <1>5, LocalFacts DEF GiveUp, Goto, TypeOK
  <2>4. QED BY <1>0, <1>5, <2>1, <2>2, <2>3 DEF GiveUp, Goto, cthread_delete, Move,
               TypeInv, TypeOK, TmrValues, Locals, Labels, Places
<1>6. ASSUME NEW c \in Clients, NewTqe(c) PROVE TypeInv'
  <2>1. tmr' \in TmrValues
    BY <1>0, <1>6, NewFacts DEF NewTqe
  <2>2. local' \in [Clients -> Locals]
    BY <1>0, <1>6, LocalFacts DEF NewTqe, TypeOK
  <2>3. \A d \in Clients : pc'[d] = "add" => local'[d].tqe \in Tqes
    BY <1>0, <1>6, LocalFacts DEF NewTqe, Goto, TypeOK
  <2>4. QED BY <1>0, <1>6, <2>1, <2>2, <2>3 DEF NewTqe, Goto, TypeInv, TypeOK,
               TmrValues, Locals, Labels, Places
<1>7. ASSUME NEW c \in Clients, AddTqe(c) PROVE TypeInv'
  <2>1. tmr' \in TmrValues
    BY <1>0, <1>7, QueueFacts DEF AddTqe
  <2>2. local' \in [Clients -> Locals]
    BY <1>0, <1>7, LocalFacts DEF AddTqe, TypeOK
  <2>3. \A d \in Clients : pc'[d] = "add" => local'[d].tqe \in Tqes
    BY <1>0, <1>7, LocalFacts DEF AddTqe, Goto, TypeOK
  <2>4. QED BY <1>0, <1>7, <2>1, <2>2, <2>3 DEF AddTqe, Goto, TypeInv, TypeOK,
               TmrValues, Locals, Labels, Places
<1>8. ASSUME NEW c \in Clients, NoStorage(c) PROVE TypeInv'
  <2>1. tmr' \in TmrValues
    BY <1>0, <1>8, DropFacts DEF NoStorage
  <2>2. local' \in [Clients -> Locals]
    BY <1>0, <1>8, LocalFacts DEF NoStorage, TypeOK
  <2>3. \A d \in Clients : pc'[d] = "add" => local'[d].tqe \in Tqes
    BY <1>0, <1>8, LocalFacts DEF NoStorage, Goto, TypeOK
  <2>4. QED BY <1>0, <1>8, <2>1, <2>2, <2>3 DEF NoStorage, Goto, TypeInv, TypeOK,
               TmrValues, Locals, Labels, Places
<1>9. ASSUME NEW c \in Clients, TqeCall(c) PROVE TypeInv'
  <2>1. tmr' \in TmrValues
    <3>1. PICK id \in Ids :
             tmr' \in {tqe_purge(tmr, id), tqe_disable(tmr, id), tqe_enable(tmr, id)}
                         \cup {tqe_reset(tmr, id, b) : b \in Intervals}
      BY <1>9 DEF TqeCall
    <3>2. /\ tqe_purge(tmr, id) \in TmrValues /\ tqe_disable(tmr, id) \in TmrValues
          /\ tqe_enable(tmr, id) \in TmrValues
          /\ \A b \in Intervals : tqe_reset(tmr, id, b) \in TmrValues
      BY <1>0, PurgeFacts, DisableFacts, EnableFacts, ResetFacts
    <3>3. QED BY <3>1, <3>2
  <2>2. local' \in [Clients -> Locals]
    BY <1>0, <1>9 DEF TqeCall
  <2>3. \A d \in Clients : pc'[d] = "add" => local'[d].tqe \in Tqes
    BY <1>0, <1>9, LocalFacts DEF TqeCall, Goto, TypeOK
  <2>4. QED BY <1>0, <1>9, <2>1, <2>2, <2>3 DEF TqeCall, Goto, TypeInv, TypeOK,
               TmrValues, Locals, Labels, Places
<1>10. ASSUME NEW c \in Clients, tmr_stop(c) PROVE TypeInv'
  <2>1. tmr' \in TmrValues
    BY <1>0, <1>10, StopFacts DEF tmr_stop
  <2>2. local' \in [Clients -> Locals]
    BY <1>0, <1>10 DEF tmr_stop
  <2>3. \A d \in Clients : pc'[d] = "add" => local'[d].tqe \in Tqes
    BY <1>0, <1>10, LocalFacts DEF tmr_stop, Goto, TypeOK
  <2>4. QED BY <1>0, <1>10, <2>1, <2>2, <2>3
               DEF tmr_stop, Goto, TypeInv, TypeOK, TmrValues, Locals, Labels, Places
<1>11. ASSUME NEW c \in Clients, Quiesce(c) PROVE TypeInv'
  <2>1. tmr' \in TmrValues
    BY <1>0, <1>11, WakeFacts DEF Quiesce, Tell
  <2>2. local' \in [Clients -> Locals]
    BY <1>0, <1>11 DEF Quiesce
  <2>3. \A d \in Clients : pc'[d] = "add" => local'[d].tqe \in Tqes
    BY <1>0, <1>11, LocalFacts DEF Quiesce, Goto, TypeOK
  <2>4. QED BY <1>0, <1>11, <2>1, <2>2, <2>3
               DEF Quiesce, Goto, Tell, TypeInv, TypeOK, TmrValues, Locals, Labels,
               Places
<1>12. ASSUME NEW c \in Clients, Shutdown(c) PROVE TypeInv'
  <2>1. tmr' \in TmrValues
    BY <1>0, <1>12, WakeFacts DEF Shutdown, Tell
  <2>2. local' \in [Clients -> Locals]
    BY <1>0, <1>12 DEF Shutdown
  <2>3. \A d \in Clients : pc'[d] = "add" => local'[d].tqe \in Tqes
    BY <1>0, <1>12, LocalFacts DEF Shutdown, Goto, TypeOK
  <2>4. QED BY <1>0, <1>12, <2>1, <2>2, <2>3
               DEF Shutdown, Goto, Tell, TypeInv, TypeOK, TmrValues, Locals, Labels,
               Places
<1>13. ASSUME NEW c \in Clients, Pick(c) PROVE TypeInv'
  <2>1. tmr' \in TmrValues
    BY <1>0, <1>13 DEF Pick
  <2>2. local' \in [Clients -> Locals]
    BY <1>0, <1>13, LocalFacts DEF Pick, TypeOK
  <2>3. \A d \in Clients : pc'[d] = "add" => local'[d].tqe \in Tqes
    BY <1>0, <1>13, LocalFacts DEF Pick, Goto, TypeOK
  <2>4. QED BY <1>0, <1>13, <2>1, <2>2, <2>3
               DEF Pick, Goto, TypeInv, TypeOK, TmrValues, Locals, Labels, Places
<1>14. ASSUME NEW c \in Clients, Join(c) PROVE TypeInv'
  <2>1. tmr' \in TmrValues
    BY <1>0, <1>14 DEF Join
  <2>2. local' \in [Clients -> Locals]
    BY <1>0, <1>14 DEF Join
  <2>3. \A d \in Clients : pc'[d] = "add" => local'[d].tqe \in Tqes
    BY <1>0, <1>14, LocalFacts DEF Join, Goto, TypeOK
  <2>4. QED BY <1>0, <1>14, <2>1, <2>2, <2>3
               DEF Join, Goto, TypeInv, TypeOK, TmrValues, Locals, Labels, Places
<1>15. ASSUME NEW c \in Clients, Delete(c) PROVE TypeInv'
  <2>1. tmr' \in TmrValues
    BY <1>0, <1>15 DEF Delete
  <2>2. local' \in [Clients -> Locals]
    BY <1>0, <1>15 DEF Delete
  <2>3. \A d \in Clients : pc'[d] = "add" => local'[d].tqe \in Tqes
    BY <1>0, <1>15, LocalFacts DEF Delete, Goto, TypeOK
  <2>4. QED BY <1>0, <1>15, <2>1, <2>2, <2>3
               DEF Delete, Goto, cthread_delete, Move, TypeInv, TypeOK, TmrValues,
               Locals, Labels, Places
<1>16. ASSUME NEW c \in Clients, Detach(c) PROVE TypeInv'
  <2>1. tmr' \in TmrValues
    BY <1>0, <1>16 DEF Detach
  <2>2. local' \in [Clients -> Locals]
    BY <1>0, <1>16, LocalFacts DEF Detach, TypeOK
  <2>3. \A d \in Clients : pc'[d] = "add" => local'[d].tqe \in Tqes
    BY <1>0, <1>16, LocalFacts DEF Detach, Goto, TypeOK
  <2>4. QED BY <1>0, <1>16, <2>1, <2>2, <2>3
               DEF Detach, Goto, Move, TypeInv, TypeOK, TmrValues, Locals, Labels,
               Places
<1>17. ASSUME NEW h \in Threads, Begin(h) PROVE TypeInv'
  <2>1. tmr' \in TmrValues
    BY <1>0, <1>17, WakeFacts DEF Begin, Move
  <2>2. local' \in [Clients -> Locals]
    BY <1>0, <1>17 DEF Begin
  <2>3. \A d \in Clients : pc'[d] = "add" => local'[d].tqe \in Tqes
    BY <1>0, <1>17, LocalFacts DEF Begin, Goto, TypeOK
  <2>4. QED BY <1>0, <1>17, <2>1, <2>2, <2>3
               DEF Begin, Goto, Move, TypeInv, TypeOK, TmrValues, Locals, Labels, Places
<1>18. ASSUME NEW h \in Threads, Top(h) PROVE TypeInv'
  <2>1. tmr' \in TmrValues
    BY <1>0, <1>18 DEF Top
  <2>2. local' \in [Clients -> Locals]
    BY <1>0, <1>18 DEF Top
  <2>3. \A d \in Clients : pc'[d] = "add" => local'[d].tqe \in Tqes
    BY <1>0, <1>18, LocalFacts DEF Top, Goto, TypeOK
  <2>4. QED BY <1>0, <1>18, <2>1, <2>2, <2>3
               DEF Top, Goto, Move, TypeInv, TypeOK, TmrValues, Locals, Labels, Places
<1>19. ASSUME NEW h \in Threads, TimerPops(h) PROVE TypeInv'
  <2>1. tmr' \in TmrValues
    BY <1>0, <1>19 DEF TimerPops
  <2>2. local' \in [Clients -> Locals]
    BY <1>0, <1>19 DEF TimerPops
  <2>3. \A d \in Clients : pc'[d] = "add" => local'[d].tqe \in Tqes
    BY <1>0, <1>19, LocalFacts DEF TimerPops, Goto, TypeOK
  <2>4. QED BY <1>0, <1>19, <2>1, <2>2, <2>3
               DEF TimerPops, Goto, TypeInv, TypeOK, TmrValues, Locals, Labels, Places
<1>20. ASSUME NEW h \in Threads, Woken(h) PROVE TypeInv'
  <2>1. tmr' \in TmrValues
    BY <1>0, <1>20, WakeFacts DEF Woken, Move
  <2>2. local' \in [Clients -> Locals]
    BY <1>0, <1>20 DEF Woken
  <2>3. \A d \in Clients : pc'[d] = "add" => local'[d].tqe \in Tqes
    BY <1>0, <1>20, LocalFacts DEF Woken, Goto, TypeOK
  <2>4. n' \in Nat
    BY <1>0, <1>20 DEF Woken, TmrValues
  <2>5. QED BY <1>0, <1>20, <2>1, <2>2, <2>3, <2>4
               DEF Woken, Move, TypeInv, TypeOK, TmrValues, Locals, Places
<1>21. ASSUME NEW h \in Threads, Element(h) PROVE TypeInv'
  <2>1. tmr' \in TmrValues
    BY <1>21, ElementFacts
  <2>2. local' \in [Clients -> Locals]
    BY <1>0, <1>21 DEF Element
  <2>3. \A d \in Clients : pc'[d] = "add" => local'[d].tqe \in Tqes
    BY <1>0, <1>21, LocalFacts DEF Element, Goto, TypeOK
  <2>4. QED BY <1>0, <1>21, <2>1, <2>2, <2>3
               DEF Element, Goto, TypeInv, TypeOK, TmrValues, Locals, Labels, Places
<1>22. ASSUME NEW h \in Threads, PassDone(h) PROVE TypeInv'
  <2>1. tmr' \in TmrValues
    BY <1>0, <1>22 DEF PassDone
  <2>2. local' \in [Clients -> Locals]
    BY <1>0, <1>22 DEF PassDone
  <2>3. \A d \in Clients : pc'[d] = "add" => local'[d].tqe \in Tqes
    BY <1>0, <1>22, LocalFacts DEF PassDone, Goto, TypeOK
  <2>4. QED BY <1>0, <1>22, <2>1, <2>2, <2>3
               DEF PassDone, Goto, Move, TypeInv, TypeOK, TmrValues, Locals, Labels,
               Places
<1>23. ASSUME NEW h \in Threads, Exit(h) PROVE TypeInv'
  <2>1. tmr' \in TmrValues
    BY <1>0, <1>23 DEF Exit
  <2>2. local' \in [Clients -> Locals]
    BY <1>0, <1>23 DEF Exit
  <2>3. \A d \in Clients : pc'[d] = "add" => local'[d].tqe \in Tqes
    BY <1>0, <1>23, LocalFacts DEF Exit, Goto, TypeOK
  <2>4. QED BY <1>0, <1>23, <2>1, <2>2, <2>3
               DEF Exit, Goto, Move, TypeInv, TypeOK, TmrValues, Locals, Labels, Places
<1>24. ASSUME NEW h \in Threads, TaskEnds(h) PROVE TypeInv'
  <2>1. tmr' \in TmrValues
    BY <1>0, <1>24 DEF TaskEnds
  <2>2. local' \in [Clients -> Locals]
    BY <1>0, <1>24 DEF TaskEnds
  <2>3. \A d \in Clients : pc'[d] = "add" => local'[d].tqe \in Tqes
    BY <1>0, <1>24, LocalFacts DEF TaskEnds, Goto, TypeOK
  <2>4. QED BY <1>0, <1>24, <2>1, <2>2, <2>3
               DEF TaskEnds, Goto, Move, TypeInv, TypeOK, TmrValues, Locals, Labels,
               Places
<1>25. ASSUME NEW q \in Tqes, TimePasses(q) PROVE TypeInv'
  <2>1. tmr' \in TmrValues
    BY <1>0, <1>25, DueFacts DEF TimePasses
  <2>2. local' \in [Clients -> Locals]
    BY <1>0, <1>25 DEF TimePasses
  <2>3. \A d \in Clients : pc'[d] = "add" => local'[d].tqe \in Tqes
    BY <1>0, <1>25, LocalFacts DEF TimePasses, Goto, TypeOK
  <2>4. QED BY <1>0, <1>25, <2>1, <2>2, <2>3
               DEF TimePasses, Goto, TypeInv, TypeOK, TmrValues, Locals, Labels, Places
<1>26. CASE UNCHANGED vars
  BY <1>0, <1>26 DEF vars, TypeInv, TypeOK
<1>27. QED BY <1>1, <1>2, <1>3, <1>4, <1>5, <1>6, <1>7, <1>8, <1>9, <1>10, <1>11,
              <1>12, <1>13, <1>14, <1>15, <1>16, <1>17, <1>18, <1>19, <1>20, <1>21,
              <1>22, <1>23, <1>24, <1>25, <1>26
  DEF Next, Client, InRequest, InStop, TimerThread

----------------------------------------------------------------------------
(* tmr->task is the handle of the thread until that has ended, whatever    *)
(* the functions of requests call.                                         *)
LEMMA ThreadKept == ASSUME TypeInv, OneThread, [Next]_vars PROVE OneThread'
<1> USE NoneAssumption
<1>0. thread \in [Threads -> Places] /\ task \in Threads \cup {None}
  BY DEF TypeInv, TypeOK
<1>1. ASSUME NEW c \in Clients, tmr_start(c) PROVE OneThread'
  BY <1>0, <1>1 DEF tmr_start, Move, OneThread, Places
<1>2. ASSUME NEW c \in Clients, GiveUp(c) PROVE OneThread'
  BY <1>0, <1>2 DEF GiveUp, cthread_delete, Move, OneThread, Places
<1>3. ASSUME NEW c \in Clients, Delete(c) PROVE OneThread'
  BY <1>0, <1>3 DEF Delete, cthread_delete, Move, OneThread, Places
<1>4. ASSUME NEW c \in Clients, Detach(c) PROVE OneThread'
  BY <1>0, <1>4 DEF Detach, Move, OneThread, Places
<1>5. ASSUME NEW h \in Threads, Begin(h) PROVE OneThread'
  BY <1>0, <1>5 DEF Begin, Move, OneThread, Places
<1>6. ASSUME NEW h \in Threads, Top(h) PROVE OneThread'
  BY <1>0, <1>6 DEF Top, Move, OneThread, Places
<1>7. ASSUME NEW h \in Threads, Woken(h) PROVE OneThread'
  BY <1>0, <1>7 DEF Woken, Move, OneThread, Places
<1>8. ASSUME NEW h \in Threads, PassDone(h) PROVE OneThread'
  BY <1>0, <1>8 DEF PassDone, Move, OneThread, Places
<1>9. ASSUME NEW h \in Threads, Exit(h) PROVE OneThread'
  BY <1>0, <1>9 DEF Exit, Move, OneThread, Places
<1>10. ASSUME NEW h \in Threads, TaskEnds(h) PROVE OneThread'
  BY <1>0, <1>10 DEF TaskEnds, Move, OneThread, Places
<1>11. CASE UNCHANGED <<task, thread>>
  BY <1>11 DEF OneThread
<1>12. QED BY <1>1, <1>2, <1>3, <1>4, <1>5, <1>6, <1>7, <1>8, <1>9, <1>10, <1>11
  DEF Next, Client, InRequest, InStop, TimerThread, vars, Request, Started, NotStarted,
     NewTqe, AddTqe, NoStorage, TqeCall, tmr_stop, Quiesce, Shutdown, Pick, Join,
     TimerPops, Element, TimePasses

(* The queue stays exact, if no function of a request purges one.          *)
LEMMA QueueKept ==
    ASSUME "purge" \notin CallOps, TypeInv, QueueInv, [Next]_vars
    PROVE  QueueInv'
<1>0. /\ tmr \in TmrValues /\ TypeOK /\ GoodQueue(tmr) /\ MadeInv
      /\ \A c \in Clients : pc[c] = "add" => local[c].tqe \in Tqes
      /\ local \in [Clients -> Locals] /\ pc \in [Clients -> Labels]
  BY DEF TypeInv, TypeOK, QueueInv, Locals
(* A step that leaves the queue, or keeps what clients are about to queue. *)
<1>1. ASSUME GoodQueue(tmr'), KeepsMade(tmr, tmr'),
             \A c \in Clients : pc'[c] = "add" =>
                 pc[c] = "add" /\ local'[c].tqe = local[c].tqe
      PROVE  QueueInv'
  BY <1>0, <1>1 DEF QueueInv, MadeInv, KeepsMade
<1>2. ASSUME NEW c \in Clients, Request(c) PROVE QueueInv'
  <2>1. GoodQueue(tmr') /\ KeepsMade(tmr, tmr')
    BY <1>0, <1>2 DEF Request, KeepsMade
  <2>2. \A d \in Clients : pc'[d] = "add" => pc[d] = "add" /\ local'[d].tqe = local[d].tqe
    BY <1>0, <1>2, LocalFacts DEF Request, Goto
  <2>3. QED BY <1>1, <2>1, <2>2
<1>3. ASSUME NEW c \in Clients, tmr_start(c) PROVE QueueInv'
  <2>1. GoodQueue(tmr') /\ KeepsMade(tmr, tmr')
    BY <1>0, <1>3 DEF tmr_start, KeepsMade
  <2>2. \A d \in Clients : pc'[d] = "add" => pc[d] = "add" /\ local'[d].tqe = local[d].tqe
    BY <1>0, <1>3, LocalFacts DEF tmr_start, Goto
  <2>3. QED BY <1>1, <2>1, <2>2
<1>4. ASSUME NEW c \in Clients, Started(c) PROVE QueueInv'
  <2>1. GoodQueue(tmr') /\ KeepsMade(tmr, tmr')
    BY <1>0, <1>4 DEF Started, KeepsMade
  <2>2. \A d \in Clients : pc'[d] = "add" => pc[d] = "add" /\ local'[d].tqe = local[d].tqe
    BY <1>0, <1>4, LocalFacts DEF Started, Goto
  <2>3. QED BY <1>1, <2>1, <2>2
<1>5. ASSUME NEW c \in Clients, NotStarted(c) PROVE QueueInv'
  <2>1. GoodQueue(tmr') /\ KeepsMade(tmr, tmr')
    BY <1>0, <1>5 DEF NotStarted, KeepsMade
  <2>2. \A d \in Clients : pc'[d] = "add" => pc[d] = "add" /\ local'[d].tqe = local[d].tqe
    BY <1>0, <1>5, LocalFacts DEF NotStarted, Goto
  <2>3. QED BY <1>1, <2>1, <2>2
<1>6. ASSUME NEW c \in Clients, GiveUp(c) PROVE QueueInv'
  <2>1. GoodQueue(tmr') /\ KeepsMade(tmr, tmr')
    BY <1>0, <1>6 DEF GiveUp, KeepsMade
  <2>2. \A d \in Clients : pc'[d] = "add" => pc[d] = "add" /\ local'[d].tqe = local[d].tqe
    BY <1>0, <1>6, LocalFacts DEF GiveUp, Goto
  <2>3. QED BY <1>1, <2>1, <2>2
<1>7. ASSUME NEW c \in Clients, NewTqe(c) PROVE QueueInv'
  <2>1. PICK q \in Tqes, kind \in Kinds, bintvl \in Intervals, id \in Ids :
           /\ ~ tmr.at[q].alloc
           /\ tmr' = tqe_new(tmr, q, kind, bintvl, id)
           /\ local' = [local EXCEPT ![c].tqe = q]
    BY <1>7 DEF NewTqe
  <2>2. /\ GoodQueue(tmr') /\ KeepsMade(tmr, tmr')
        /\ tmr'.at[q].st = "made" /\ tmr.at[q].st = "gone"
    BY <1>0, <2>1, NewFacts
  <2>3. /\ \A d \in Clients : d # c => pc'[d] = pc[d] /\ local'[d] = local[d]
        /\ local'[c].tqe = q
    BY <1>0, <1>7, <2>1 DEF NewTqe, Goto, Locals
  <2>4. \A d \in Clients : d # c /\ pc[d] = "add" => local[d].tqe # q
    BY <1>0, <2>2 DEF MadeInv
  <2>5. QED BY <1>0, <2>2, <2>3, <2>4 DEF QueueInv, MadeInv, KeepsMade
<1>8. ASSUME NEW c \in Clients, AddTqe(c) PROVE QueueInv'
  <2> DEFINE q == local[c].tqe
  <2>1. pc[c] = "add" /\ q \in Tqes /\ tmr.at[q].st = "made" /\ tmr' = Queue(tmr, q)
    BY <1>0, <1>8 DEF AddTqe, MadeInv
  <2>2. GoodQueue(tmr') /\ \A p \in Tqes : p # q => tmr'.at[p] = tmr.at[p]
    BY <1>0, <2>1, QueueFacts
  <2>3. \A d \in Clients : /\ pc'[d] = "add" => d # c
                           /\ d # c => pc'[d] = pc[d] /\ local'[d] = local[d]
    BY <1>0, <1>8 DEF AddTqe, Goto
  <2>4. QED BY <1>0, <2>1, <2>2, <2>3 DEF QueueInv, MadeInv
<1>9. ASSUME NEW c \in Clients, NoStorage(c) PROVE QueueInv'
  <2>1. \A d \in Clients : /\ pc'[d] = "add" => d # c
                           /\ d # c => pc'[d] = pc[d] /\ local'[d] = local[d]
    BY <1>0, <1>9 DEF NoStorage, Goto
  <2>2. CASE UNCHANGED tmr
    BY <1>0, <1>1, <2>1, <2>2 DEF KeepsMade
  <2>3. CASE pc[c] = "add" /\ tmr' = [tmr EXCEPT !.at[local[c].tqe] = NoTqe]
    <3> DEFINE q == local[c].tqe
    <3>1. q \in Tqes /\ tmr.at[q].st = "made"
      BY <1>0, <2>3 DEF MadeInv
    <3>2. GoodQueue(tmr') /\ \A p \in Tqes : p # q => tmr'.at[p] = tmr.at[p]
      BY <1>0, <2>3, <3>1, DropFacts
    <3>3. QED BY <1>0, <2>1, <2>3, <3>1, <3>2 DEF QueueInv, MadeInv
  <2>4. QED BY <1>9, <2>2, <2>3 DEF NoStorage
<1>10. ASSUME NEW c \in Clients, TqeCall(c) PROVE QueueInv'
  <2>1. GoodQueue(tmr') /\ KeepsMade(tmr, tmr')
    <3>1. PICK id \in Ids :
             tmr' \in {tqe_purge(tmr, id), tqe_disable(tmr, id), tqe_enable(tmr, id)}
                         \cup {tqe_reset(tmr, id, b) : b \in Intervals}
      BY <1>10 DEF TqeCall
    <3>2. CASE tmr' = tqe_purge(tmr, id)
      BY <1>0, <3>2, PurgeFacts
    <3>3. CASE tmr' # tqe_purge(tmr, id)
      <4>1. SameQueue(tmr, tmr')
        BY <1>0, <3>1, <3>3, DisableFacts, EnableFacts, ResetFacts
      <4>2. QED BY <1>0, <4>1, SameFacts
    <3>4. QED BY <3>2, <3>3
  <2>2. \A d \in Clients : pc'[d] = "add" => pc[d] = "add" /\ local'[d].tqe = local[d].tqe
    BY <1>0, <1>10, LocalFacts DEF TqeCall, Goto
  <2>3. QED BY <1>1, <2>1, <2>2
<1>11. ASSUME NEW c \in Clients, tmr_stop(c) PROVE QueueInv'
  <2>1. GoodQueue(tmr') /\ KeepsMade(tmr, tmr')
    <3>1. SameQueue(tmr, tmr')
      BY <1>0, <1>11, StopFacts DEF tmr_stop, SameQueue
    <3>2. QED BY <1>0, <3>1, SameFacts
  <2>2. \A d \in Clients : pc'[d] = "add" => pc[d] = "add" /\ local'[d].tqe = local[d].tqe
    BY <1>0, <1>11, LocalFacts DEF tmr_stop, Goto
  <2>3. QED BY <1>1, <2>1, <2>2
<1>12. ASSUME NEW c \in Clients, Quiesce(c) PROVE QueueInv'
  <2>1. GoodQueue(tmr') /\ KeepsMade(tmr, tmr')
    <3>1. tmr' = tmr \/ tmr' = [tmr EXCEPT !.wakeup = TRUE]
      BY <1>12 DEF Quiesce, Tell
    <3>2. SameQueue(tmr, tmr) /\ SameQueue(tmr, [tmr EXCEPT !.wakeup = TRUE])
      BY <1>0, WakeFacts DEF SameQueue
    <3>3. SameQueue(tmr, tmr')
      BY <3>1, <3>2
    <3>4. QED BY <1>0, <3>3, SameFacts
  <2>2. \A d \in Clients : pc'[d] = "add" => pc[d] = "add" /\ local'[d].tqe = local[d].tqe
    BY <1>0, <1>12, LocalFacts DEF Quiesce, Goto
  <2>3. QED BY <1>1, <2>1, <2>2
<1>13. ASSUME NEW c \in Clients, Shutdown(c) PROVE QueueInv'
  <2>1. GoodQueue(tmr') /\ KeepsMade(tmr, tmr')
    <3>1. tmr' = tmr \/ tmr' = [tmr EXCEPT !.wakeup = TRUE]
      BY <1>13 DEF Shutdown, Tell
    <3>2. SameQueue(tmr, tmr) /\ SameQueue(tmr, [tmr EXCEPT !.wakeup = TRUE])
      BY <1>0, WakeFacts DEF SameQueue
    <3>3. SameQueue(tmr, tmr')
      BY <3>1, <3>2
    <3>4. QED BY <1>0, <3>3, SameFacts
  <2>2. \A d \in Clients : pc'[d] = "add" => pc[d] = "add" /\ local'[d].tqe = local[d].tqe
    BY <1>0, <1>13, LocalFacts DEF Shutdown, Goto
  <2>3. QED BY <1>1, <2>1, <2>2
<1>14. ASSUME NEW c \in Clients, Pick(c) PROVE QueueInv'
  <2>1. GoodQueue(tmr') /\ KeepsMade(tmr, tmr')
    BY <1>0, <1>14 DEF Pick, KeepsMade
  <2>2. \A d \in Clients : pc'[d] = "add" => pc[d] = "add" /\ local'[d].tqe = local[d].tqe
    BY <1>0, <1>14, LocalFacts DEF Pick, Goto
  <2>3. QED BY <1>1, <2>1, <2>2
<1>15. ASSUME NEW c \in Clients, Join(c) PROVE QueueInv'
  <2>1. GoodQueue(tmr') /\ KeepsMade(tmr, tmr')
    BY <1>0, <1>15 DEF Join, KeepsMade
  <2>2. \A d \in Clients : pc'[d] = "add" => pc[d] = "add" /\ local'[d].tqe = local[d].tqe
    BY <1>0, <1>15, LocalFacts DEF Join, Goto
  <2>3. QED BY <1>1, <2>1, <2>2
<1>16. ASSUME NEW c \in Clients, Delete(c) PROVE QueueInv'
  <2>1. GoodQueue(tmr') /\ KeepsMade(tmr, tmr')
    BY <1>0, <1>16 DEF Delete, KeepsMade
  <2>2. \A d \in Clients : pc'[d] = "add" => pc[d] = "add" /\ local'[d].tqe = local[d].tqe
    BY <1>0, <1>16, LocalFacts DEF Delete, Goto
  <2>3. QED BY <1>1, <2>1, <2>2
<1>17. ASSUME NEW c \in Clients, Detach(c) PROVE QueueInv'
  <2>1. GoodQueue(tmr') /\ KeepsMade(tmr, tmr')
    BY <1>0, <1>17 DEF Detach, KeepsMade
  <2>2. \A d \in Clients : pc'[d] = "add" => pc[d] = "add" /\ local'[d].tqe = local[d].tqe
    BY <1>0, <1>17, LocalFacts DEF Detach, Goto
  <2>3. QED BY <1>1, <2>1, <2>2
<1>18. ASSUME NEW h \in Threads, Begin(h) PROVE QueueInv'
  <2>1. GoodQueue(tmr') /\ KeepsMade(tmr, tmr')
    <3>1. SameQueue(tmr, tmr')
      BY <1>0, <1>18, WakeFacts DEF Begin, Move, SameQueue
    <3>2. QED BY <1>0, <3>1, SameFacts
  <2>2. \A d \in Clients : pc'[d] = "add" => pc[d] = "add" /\ local'[d].tqe = local[d].tqe
    BY <1>0, <1>18, LocalFacts DEF Begin, Goto
  <2>3. QED BY <1>1, <2>1, <2>2
<1>19. ASSUME NEW h \in Threads, Top(h) PROVE QueueInv'
  <2>1. GoodQueue(tmr') /\ KeepsMade(tmr, tmr')
    BY <1>0, <1>19 DEF Top, KeepsMade
  <2>2. \A d \in Clients : pc'[d] = "add" => pc[d] = "add" /\ local'[d].tqe = local[d].tqe
    BY <1>0, <1>19, LocalFacts DEF Top, Goto
  <2>3. QED BY <1>1, <2>1, <2>2
<1>20. ASSUME NEW h \in Threads, TimerPops(h) PROVE QueueInv'
  <2>1. GoodQueue(tmr') /\ KeepsMade(tmr, tmr')
    BY <1>0, <1>20 DEF TimerPops, KeepsMade
  <2>2. \A d \in Clients : pc'[d] = "add" => pc[d] = "add" /\ local'[d].tqe = local[d].tqe
    BY <1>0, <1>20, LocalFacts DEF TimerPops, Goto
  <2>3. QED BY <1>1, <2>1, <2>2
<1>21. ASSUME NEW h \in Threads, Woken(h) PROVE QueueInv'
  <2>1. GoodQueue(tmr') /\ KeepsMade(tmr, tmr')
    <3>1. SameQueue(tmr, tmr')
      BY <1>0, <1>21, WakeFacts DEF Woken, Move, SameQueue
    <3>2. QED BY <1>0, <3>1, SameFacts
  <2>2. \A d \in Clients : pc'[d] = "add" => pc[d] = "add" /\ local'[d].tqe = local[d].tqe
    BY <1>0, <1>21, LocalFacts DEF Woken, Goto
  <2>3. QED BY <1>1, <2>1, <2>2
<1>22. ASSUME NEW h \in Threads, Element(h) PROVE QueueInv'
  <2>1. GoodQueue(tmr') /\ KeepsMade(tmr, tmr')
    BY <1>0, <1>22, ElementFacts
  <2>2. \A d \in Clients : pc'[d] = "add" => pc[d] = "add" /\ local'[d].tqe = local[d].tqe
    BY <1>0, <1>22, LocalFacts DEF Element, Goto
  <2>3. QED BY <1>1, <2>1, <2>2
<1>23. ASSUME NEW h \in Threads, PassDone(h) PROVE QueueInv'
  <2>1. GoodQueue(tmr') /\ KeepsMade(tmr, tmr')
    BY <1>0, <1>23 DEF PassDone, KeepsMade
  <2>2. \A d \in Clients : pc'[d] = "add" => pc[d] = "add" /\ local'[d].tqe = local[d].tqe
    BY <1>0, <1>23, LocalFacts DEF PassDone, Goto
  <2>3. QED BY <1>1, <2>1, <2>2
<1>24. ASSUME NEW h \in Threads, Exit(h) PROVE QueueInv'
  <2>1. GoodQueue(tmr') /\ KeepsMade(tmr, tmr')
    BY <1>0, <1>24 DEF Exit, KeepsMade
  <2>2. \A d \in Clients : pc'[d] = "add" => pc[d] = "add" /\ local'[d].tqe = local[d].tqe
    BY <1>0, <1>24, LocalFacts DEF Exit, Goto
  <2>3. QED BY <1>1, <2>1, <2>2
<1>25. ASSUME NEW h \in Threads, TaskEnds(h) PROVE QueueInv'
  <2>1. GoodQueue(tmr') /\ KeepsMade(tmr, tmr')
    BY <1>0, <1>25 DEF TaskEnds, KeepsMade
  <2>2. \A d \in Clients : pc'[d] = "add" => pc[d] = "add" /\ local'[d].tqe = local[d].tqe
    BY <1>0, <1>25, LocalFacts DEF TaskEnds, Goto
  <2>3. QED BY <1>1, <2>1, <2>2
<1>26. ASSUME NEW q \in Tqes, TimePasses(q) PROVE QueueInv'
  <2>1. GoodQueue(tmr') /\ KeepsMade(tmr, tmr')
    <3>1. SameQueue(tmr, tmr')
      BY <1>0, <1>26, DueFacts DEF TimePasses, SameQueue
    <3>2. QED BY <1>0, <3>1, SameFacts
  <2>2. \A d \in Clients : pc'[d] = "add" => pc[d] = "add" /\ local'[d].tqe = local[d].tqe
    BY <1>0, <1>26, LocalFacts DEF TimePasses, Goto
  <2>3. QED BY <1>1, <2>1, <2>2
<1>27. CASE UNCHANGED vars
  BY <1>0, <1>1, <1>27 DEF vars, KeepsMade
<1>28. QED BY <1>2, <1>3, <1>4, <1>5, <1>6, <1>7, <1>8, <1>9, <1>10, <1>11, <1>12,
              <1>13, <1>14, <1>15, <1>16, <1>17, <1>18, <1>19, <1>20, <1>21, <1>22,
              <1>23, <1>24, <1>25, <1>26, <1>27
  DEF Next, Client, InRequest, InStop, TimerThread

----------------------------------------------------------------------------
LEMMA Initial == Init => TypeInv /\ QueueInv /\ OneThread
<1> USE NoneAssumption
<1> SUFFICES ASSUME Init PROVE TypeInv /\ QueueInv /\ OneThread
  OBVIOUS
<1>1. TypeInv
  <2>1. tmr \in TmrValues
    BY NoTqeFacts DEF Init, TmrValues
  <2>2. NoLocal \in Locals
    BY DEF NoLocal, Locals
  <2>3. QED BY <2>1, <2>2 DEF Init, TypeInv, TypeOK, TmrValues, Places, Labels, Locals
<1>2. QueueInv
  BY NoTqeFacts DEF Init, QueueInv, GoodQueue, MadeInv, Has, Distinct
<1>3. OneThread
  BY DEF Init, OneThread
<1>4. QED BY <1>1, <1>2, <1>3

(* Every variable holds a value of its kind; in particular the array never *)
(* has an element that is no TQE, whatever the functions of requests do.   *)
THEOREM TimerTyped == Spec => []TypeOK
<1>1. Init => TypeInv
  BY Initial
<1>2. TypeInv /\ [Next]_vars => TypeInv'
  BY Typed
<1>3. TypeInv => TypeOK
  BY DEF TypeInv
<1>4. QED BY <1>1, <1>2, <1>3, PTL DEF Spec

(* However tmr_start() and tmr_stop() of any number of tasks interleave,   *)
(* there is one timer thread, and tmr->task is its handle until it ends.   *)
THEOREM OneThreadAlways == Spec => []OneThread
<1>1. Init => TypeInv /\ OneThread
  BY Initial
<1>2. TypeInv /\ OneThread /\ [Next]_vars => (TypeInv /\ OneThread)'
  BY Typed, ThreadKept
<1>3. QED BY <1>1, <1>2, PTL DEF Spec

(* The array holds the queued requests, each once, and nothing that is     *)
(* freed, and one thread walks it: as long as no function that the timer   *)
(* thread calls purges a request.                                          *)
THEOREM ServiceIsExactAlways ==
    ASSUME "purge" \notin CallOps
    PROVE  Spec => []ServiceIsExact
<1> DEFINE Inv == TypeInv /\ QueueInv /\ OneThread
<1>1. Init => Inv
  BY Initial
<1>2. Inv /\ [Next]_vars => Inv'
  BY Typed, QueueKept, ThreadKept
<1>3. Inv => ServiceIsExact
  <2> SUFFICES ASSUME Inv PROVE QueueIsExact
    BY DEF ServiceIsExact
  <2>1. \A i \in 1 .. Len(tmr.tqe) : tmr.tqe[i] \in Tqes
    BY DEF TypeInv, TypeOK
  <2>2. QED BY <2>1 DEF QueueInv, GoodQueue, QueueIsExact, Distinct, Has
<1>4. QED BY <1>1, <1>2, <1>3, PTL DEF Spec
=============================================================================
