----------------------------- MODULE ArrayFacts -----------------------------
(***************************************************************************)
(* Facts about the arrays of the library (@@aradd.c, @@ardel.c and the     *)
(* loops that search them) and about what a call holds, for the proofs     *)
(* about the modules that keep an array or a ledger: what adding, removing *)
(* and searching an element does, and that a request obtains something     *)
(* nobody held.                                                            *)
(***************************************************************************)
EXTENDS Integers, Sequences, FiniteSets, FiniteSetTheorems, WellFoundedInduction, TLAPS

Has(a, x)   == \E i \in 1 .. Len(a) : a[i] = x
Distinct(a) == \A i, j \in 1 .. Len(a) : a[i] = a[j] => i = j

(* a without the element at k. *)
Removed(a, k) == [j \in 1 .. Len(a) - 1 |-> IF j < k THEN a[j] ELSE a[j + 1]]

----------------------------------------------------------------------------
(* A set of numbers has a least one: what a search from the first element  *)
(* on finds.                                                               *)
LEMMA Least ==
    ASSUME NEW S, S \subseteq Nat, S # {}
    PROVE  \E i \in S : \A j \in S : i <= j
<1> DEFINE R == {ss \in Nat \X Nat : ss[1] < ss[2]}
<1>1. IsWellFoundedOn(R, Nat)
  BY NatLessThanWellFounded DEF OpToRel
<1> HIDE DEF R
<1>2. PICK i \in S : \A j \in S : ~ (<<j, i>> \in R)
  BY <1>1, WFMin
<1>3. \A j \in S : <<j, i>> \in Nat \X Nat /\ <<j, i>>[1] = j /\ <<j, i>>[2] = i
  BY <1>2
<1>4. \A j \in S : ~ (j < i)
  BY <1>2, <1>3 DEF R
<1>5. QED BY <1>2, <1>4

(* A set of numbers up to n has a greatest one. *)
LEMMA Greatest ==
    ASSUME NEW S, NEW n \in Nat, S \subseteq 0 .. n, S # {}
    PROVE  \E i \in S : \A j \in S : j <= i
<1> DEFINE T == {k \in 0 .. n : n - k \in S}
<1>1. PICK s \in S : TRUE
  OBVIOUS
<1>2. s \in 0 .. n /\ n - s \in 0 .. n /\ n - (n - s) = s
  BY <1>1
<1>3. n - s \in T /\ T \subseteq Nat
  BY <1>1, <1>2
<1> HIDE DEF T
<1>4. PICK k \in T : \A j \in T : k <= j
  BY <1>3, Least
<1>5. k \in 0 .. n /\ n - k \in S
  BY <1>4 DEF T
<1>6. ASSUME NEW j \in S PROVE j <= n - k
  <2>1. j \in 0 .. n /\ n - j \in 0 .. n /\ n - (n - j) = j
    OBVIOUS
  <2>2. n - j \in T
    BY <2>1 DEF T
  <2>3. QED BY <1>4, <1>5, <2>1, <2>2
<1>7. QED BY <1>5, <1>6

(* The new element is the last one, and the others stay where they are. *)
LEMMA AddedFacts ==
    ASSUME NEW S, NEW a \in Seq(S), NEW x \in S
    PROVE  /\ Append(a, x) \in Seq(S) /\ Len(Append(a, x)) = Len(a) + 1
           /\ \A i \in 1 .. Len(a) : Append(a, x)[i] = a[i]
           /\ \A y : Has(Append(a, x), y) <=> Has(a, y) \/ y = x
           /\ Distinct(a) /\ ~ Has(a, x) => Distinct(Append(a, x))
<1> DEFINE b == Append(a, x)
           n == Len(a)
<1>1. n \in Nat /\ b \in Seq(S) /\ Len(b) = n + 1
  OBVIOUS
<1>2. b[n + 1] = x /\ \A i \in 1 .. n : b[i] = a[i]
  OBVIOUS
<1> HIDE DEF b
<1>3. \A y : Has(b, y) <=> Has(a, y) \/ y = x
  BY <1>1, <1>2 DEF Has
<1>4. Distinct(a) /\ ~ Has(a, x) => Distinct(b)
  BY <1>1, <1>2 DEF Has, Distinct
<1>5. QED BY <1>1, <1>2, <1>3, <1>4 DEF b

(* Only the element at k goes; the others stay in their order. *)
LEMMA RemovedFacts ==
    ASSUME NEW S, NEW a \in Seq(S), NEW k \in 1 .. Len(a)
    PROVE  /\ Removed(a, k) \in Seq(S) /\ Len(Removed(a, k)) = Len(a) - 1
           /\ \A y : Has(Removed(a, k), y) => Has(a, y)
           /\ \A y : Has(a, y) /\ y # a[k] => Has(Removed(a, k), y)
           /\ Distinct(a) => Distinct(Removed(a, k)) /\ ~ Has(Removed(a, k), a[k])
<1> DEFINE n == Len(a)
           q(j) == IF j < k THEN j ELSE j + 1
           d == Removed(a, k)
<1>1. n \in Nat /\ n - 1 \in Nat /\ k \in Nat
  OBVIOUS
<1>2. \A j \in 1 .. n - 1 : q(j) \in 1 .. n /\ q(j) # k
  BY <1>1
<1>3. d = [j \in 1 .. n - 1 |-> a[q(j)]]
  BY <1>2 DEF Removed
<1>4. d \in [1 .. n - 1 -> S]
  BY <1>2, <1>3
<1>5. d \in Seq(S) /\ Len(d) = n - 1
  BY <1>1, <1>4
<1>6. \A j \in 1 .. n - 1 : d[j] = a[q(j)]
  BY <1>3
<1>7. \A i, j \in 1 .. n - 1 : q(i) = q(j) => i = j
  BY <1>1
<1>8. ASSUME NEW i \in 1 .. n, i # k PROVE \E j \in 1 .. n - 1 : q(j) = i
  <2>1. CASE i < k
    BY <2>1, <1>1
  <2>2. CASE i > k
    <3>1. i - 1 \in 1 .. n - 1 /\ q(i - 1) = i
      BY <2>2, <1>1
    <3>2. QED BY <3>1
  <2>3. QED BY <1>1, <1>8, <2>1, <2>2
<1> HIDE DEF d, q, n
<1>9. ASSUME NEW y, Has(d, y) PROVE Has(a, y)
  BY <1>2, <1>5, <1>6, <1>9 DEF Has, n
<1>10. ASSUME NEW y, Has(a, y), y # a[k] PROVE Has(d, y)
  <2>1. PICK i \in 1 .. n : a[i] = y
    BY <1>10 DEF Has, n
  <2>2. PICK j \in 1 .. n - 1 : q(j) = i
    BY <2>1, <1>8, <1>10
  <2>3. QED BY <2>1, <2>2, <1>5, <1>6 DEF Has
<1>11. ASSUME Distinct(a) PROVE Distinct(d) /\ ~ Has(d, a[k])
  <2>1. Distinct(d)
    BY <1>2, <1>5, <1>6, <1>7, <1>11 DEF Distinct, n
  <2>2. ~ Has(d, a[k])
    BY <1>2, <1>5, <1>6, <1>11 DEF Has, Distinct, n
  <2>3. QED BY <2>1, <2>2
<1>12. QED BY <1>5, <1>9, <1>10, <1>11 DEF d, n

----------------------------------------------------------------------------
(* What is held has a kind and a number. *)
OfKind(kind, r) == \E i \in Nat : r = <<kind, i>>

(* Two sets of which each element of one is paired with one of the other. *)
LEMMA OneToOne ==
    ASSUME NEW S, IsFiniteSet(S), NEW T, NEW f \in [S -> T],
           \A x, y \in S : f[x] = f[y] => x = y, \A y \in T : \E x \in S : f[x] = y
    PROVE  IsFiniteSet(T) /\ Cardinality(T) = Cardinality(S)
<1>1. f \in Bijection(S, T)
  BY DEF Bijection, Injection, Surjection, IsInjective
<1>2. ExistsBijection(S, T)
  BY <1>1 DEF ExistsBijection
<1>3. QED BY <1>2, FS_Bijection

LEMMA KindFacts == \A k, l, r, s : OfKind(k, r) /\ OfKind(l, s) /\ k # l => r # s
<1> SUFFICES ASSUME NEW k, NEW l, k # l, NEW i \in Nat, NEW j \in Nat PROVE <<k, i>> # <<l, j>>
  BY DEF OfKind
<1>1. <<k, i>>[1] = k /\ <<l, j>>[1] = l
  OBVIOUS
<1>2. QED BY <1>1

(* There is a free number. *)
LEMMA NumberFacts ==
    ASSUME NEW held, IsFiniteSet(held), NEW kind
    PROVE  \E i \in 1 .. Cardinality(held) + 1 : <<kind, i>> \notin held
<1> DEFINE m == Cardinality(held)
           f == [i \in 1 .. m + 1 |-> <<kind, i>>]
<1>1. m \in Nat
  BY FS_CardinalityType
<1>2. SUFFICES ASSUME \A i \in 1 .. m + 1 : <<kind, i>> \in held PROVE FALSE
  OBVIOUS
<1>3. f \in [1 .. m + 1 -> held]
  BY <1>2
<1>4. \A i, j \in 1 .. m + 1 : f[i] = f[j] => i = j
  <2> SUFFICES ASSUME NEW i \in 1 .. m + 1, NEW j \in 1 .. m + 1, <<kind, i>> = <<kind, j>> PROVE i = j
    OBVIOUS
  <2>1. <<kind, i>>[2] = i /\ <<kind, j>>[2] = j
    OBVIOUS
  <2>2. QED BY <2>1
<1>5. IsFiniteSet(1 .. m + 1) /\ Cardinality(1 .. m + 1) = m + 1
  BY <1>1, FS_Interval
<1> HIDE DEF f
<1>6. \E i, j \in 1 .. m + 1 : i # j /\ f[i] = f[j]
  <2>1. Cardinality(held) < Cardinality(1 .. m + 1)
    BY <1>1, <1>5
  <2>2. QED BY <1>3, <1>5, <2>1, FS_PigeonHole
<1>7. QED BY <1>4, <1>6
=============================================================================
