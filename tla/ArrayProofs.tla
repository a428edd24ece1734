---------------------------- MODULE ArrayProofs -----------------------------
(***************************************************************************)
(* What is proved of the dynamic arrays, for arrays of any length that     *)
(* grow by any number of entries: they are the list their caller built,    *)
(* and no block is lost or freed twice, whichever request is refused.      *)
(*                                                                         *)
(* The array functions work on a call, a record that every service extends *)
(* with fields of its own.  The lemmas say so: they assume the fields of   *)
(* Used, and that the others stay.                                         *)
(***************************************************************************)
EXTENDS Array, ArrayFacts, SequenceTheorems

(* The fields of a call that the array functions use. *)
Used == {"held", "twice", "n", "faults", "got", "array", "err"}
IsCall(c) == c = [x \in DOMAIN c |-> c[x]] /\ Used \subseteq DOMAIN c /\ IsFiniteSet(c.held)

(* The other fields of a call stay. *)
Frame(c, d) == DOMAIN d = DOMAIN c /\ \A x \in DOMAIN c \ Used : d[x] = c[x]

(* The request was refused, or what it obtained is new. *)
Obtained(c, d, kind) ==
    \/ d.got = NULL /\ d.held = c.held
    \/ d.got # NULL /\ OfKind(kind, d.got) /\ d.got \notin c.held /\ d.held = c.held \cup {d.got}

LEMMA NullFacts == \A kind, r : kind # "NULL" /\ OfKind(kind, r) => r # NULL
<1> SUFFICES ASSUME NEW kind, kind # "NULL", NEW i \in Nat PROVE <<kind, i>> # <<"NULL", 0>>
  BY DEF OfKind, NULL
<1>1. <<kind, i>>[1] = kind /\ <<"NULL", 0>>[1] = "NULL"
  OBVIOUS
<1>2. QED BY <1>1

LEMMA ObtainFacts ==
    ASSUME NEW c, IsCall(c), NEW kind, kind # "NULL"
    PROVE  LET d == Obtain(c, kind)
           IN  /\ IsCall(d) /\ Frame(c, d) /\ Obtained(c, d, kind)
               /\ d.array = c.array /\ d.err = c.err /\ d.twice = c.twice
<1> DEFINE k == Number(c, kind)
           r == <<kind, k>>
           e == [c EXCEPT !.n = c.n + 1]
<1>1. k \in 1 .. Cardinality(c.held) + 1 /\ r \notin c.held
  <2>1. IsFiniteSet(c.held)
    BY DEF IsCall
  <2>2. \E i \in 1 .. Cardinality(c.held) + 1 : <<kind, i>> \notin c.held
    BY <2>1, NumberFacts
  <2> DEFINE S == 1 .. Cardinality(c.held) + 1
             P(i) == <<kind, i>> \notin c.held
  <2>3. k = CHOOSE i \in S : P(i)
    BY DEF Number
  <2>4. \E i \in S : P(i)
    BY <2>2
  <2> HIDE DEF S, P, k
  <2>5. k \in S /\ P(k)
    BY <2>3, <2>4
  <2>6. QED BY <2>5 DEF S, P
<1>2. k \in Nat
  BY <1>1, FS_CardinalityType DEF IsCall
<1>3. OfKind(kind, r) /\ r # NULL
  BY <1>2, NullFacts DEF OfKind
<1>4. DOMAIN e = DOMAIN c /\ \A x \in DOMAIN c \ {"n"} : e[x] = c[x]
  BY DEF IsCall
<1>5. e = [x \in DOMAIN e |-> e[x]]
  BY DEF IsCall
<1> HIDE DEF e
<1>6. CASE Refused(c)
  <2> DEFINE d == [e EXCEPT !.got = NULL]
  <2>1. Obtain(c, kind) = d
    BY <1>6 DEF Obtain, Asked, e
  <2>2. DOMAIN d = DOMAIN c /\ d = [x \in DOMAIN d |-> d[x]]
        /\ d.got = NULL /\ \A x \in DOMAIN c \ {"n", "got"} : d[x] = c[x]
    BY <1>4, <1>5 DEF IsCall, Used
  <2> HIDE DEF d
  <2>3. IsCall(d) /\ Frame(c, d) /\ d.held = c.held /\ d.array = c.array /\ d.err = c.err /\ d.twice = c.twice
    BY <2>2 DEF IsCall, Used, Frame
  <2>4. QED BY <2>1, <2>2, <2>3 DEF Obtained
<1>7. CASE ~ Refused(c)
  <2> DEFINE d == [e EXCEPT !.got = r, !.held = c.held \cup {r}]
  <2>1. Obtain(c, kind) = d
    BY <1>7, <1>4 DEF Obtain, Asked, e, IsCall, Used
  <2>2. DOMAIN d = DOMAIN c /\ d = [x \in DOMAIN d |-> d[x]]
        /\ d.got = r /\ d.held = c.held \cup {r} /\ \A x \in DOMAIN c \ {"n", "got", "held"} : d[x] = c[x]
    BY <1>4, <1>5 DEF IsCall, Used
  <2>3. IsFiniteSet(c.held \cup {r})
    BY FS_AddElement DEF IsCall
  <2> HIDE DEF d
  <2>4. IsCall(d) /\ Frame(c, d) /\ d.array = c.array /\ d.err = c.err /\ d.twice = c.twice
    BY <2>2, <2>3 DEF IsCall, Used, Frame
  <2>5. QED BY <1>1, <1>3, <2>1, <2>2, <2>4 DEF Obtained
<1>8. QED BY <1>6, <1>7

LEMMA ReleaseFacts ==
    ASSUME NEW c, IsCall(c), NEW r, r = NULL \/ r \in c.held, NULL \notin c.held
    PROVE  LET d == Release(c, r)
           IN  /\ IsCall(d) /\ DOMAIN d = DOMAIN c
               /\ d.held = c.held \ {r}
               /\ \A x \in DOMAIN c \ {"held"} : d[x] = c[x]
<1>1. CASE r = NULL
  BY <1>1 DEF Release
<1>2. CASE r # NULL
  <2> DEFINE d == [c EXCEPT !.held = @ \ {r}]
  <2>1. Release(c, r) = d
    BY <1>2 DEF Release
  <2>2. DOMAIN d = DOMAIN c /\ d = [x \in DOMAIN d |-> d[x]]
        /\ d.held = c.held \ {r} /\ \A x \in DOMAIN c \ {"held"} : d[x] = c[x]
    BY DEF IsCall, Used
  <2>3. IsFiniteSet(c.held \ {r})
    BY FS_RemoveElement DEF IsCall
  <2> HIDE DEF d
  <2>4. QED BY <2>1, <2>2, <2>3 DEF IsCall
<1>3. QED BY <1>1, <1>2

----------------------------------------------------------------------------
(* The array functions. *)

(* A block with room for size entries, and what is not in use is cleared. *)
ArrayRecord(a) == DOMAIN a = {"block", "size", "count", "slots"} /\ a = [x \in DOMAIN a |-> a[x]]
Slots(s, n) == s = [i \in 1 .. n |-> s[i]]
ArrayOK(a) ==
    /\ ArrayRecord(a) /\ Slots(a.slots, a.size)
    /\ a.size \in Nat /\ a.count \in 0 .. a.size
    /\ \A i \in a.count + 1 .. a.size : a.slots[i] = NULL
    /\ IF a.block = NULL THEN a = NoArray ELSE OfKind("array", a.block)

Holds(c) == NULL \notin c.held /\ (c.array.block = NULL \/ c.array.block \in c.held)

(* The array kept its block, or has a new one for it. *)
Moves(c, d) ==
    \/ d.array.block = c.array.block /\ d.held = c.held
    \/ /\ d.array.block # NULL /\ d.array.block \notin c.held
       /\ d.held = (c.held \ {c.array.block}) \cup {d.array.block}

LEMMA EmptyOK == NoArray.block = NULL /\ NoArray.count = 0 /\ ArrayOK(NoArray)
BY DEF NoArray, ArrayOK, ArrayRecord, Slots, Empty

(* What the functions store in the record of an array. *)
LEMMA RecordFacts ==
    /\ \A b, z, n, s : LET a == [block |-> b, size |-> z, count |-> n, slots |-> s] IN
          ArrayRecord(a) /\ a.block = b /\ a.size = z /\ a.count = n /\ a.slots = s
    /\ \A a, b, z, s : LET d == [a EXCEPT !.block = b, !.size = z, !.slots = s] IN
          ArrayRecord(a) => ArrayRecord(d) /\ d.block = b /\ d.size = z /\ d.slots = s
                            /\ d.count = a.count
    /\ \A a, n, s : LET d == [a EXCEPT !.count = n, !.slots = s] IN
          ArrayRecord(a) => ArrayRecord(d) /\ d.count = n /\ d.slots = s
                            /\ d.block = a.block /\ d.size = a.size
<1>1. ASSUME NEW b, NEW z, NEW n, NEW s
      PROVE  LET a == [block |-> b, size |-> z, count |-> n, slots |-> s] IN
             ArrayRecord(a) /\ a.block = b /\ a.size = z /\ a.count = n /\ a.slots = s
  BY DEF ArrayRecord
<1>2. ASSUME NEW a, NEW b, NEW z, NEW s, ArrayRecord(a)
      PROVE  LET d == [a EXCEPT !.block = b, !.size = z, !.slots = s] IN
             ArrayRecord(d) /\ d.block = b /\ d.size = z /\ d.slots = s /\ d.count = a.count
  BY <1>2 DEF ArrayRecord
<1>3. ASSUME NEW a, NEW n, NEW s, ArrayRecord(a)
      PROVE  LET d == [a EXCEPT !.count = n, !.slots = s] IN
             ArrayRecord(d) /\ d.count = n /\ d.slots = s /\ d.block = a.block /\ d.size = a.size
  BY <1>3 DEF ArrayRecord
<1>4. QED BY <1>1, <1>2, <1>3

LEMMA SetArray ==
    ASSUME NEW c, IsCall(c), NEW a
    PROVE  LET d == [c EXCEPT !.array = a]
           IN  /\ IsCall(d) /\ DOMAIN d = DOMAIN c /\ d.array = a
               /\ \A x \in DOMAIN c \ {"array"} : d[x] = c[x]
<1> DEFINE d == [c EXCEPT !.array = a]
<1>1. DOMAIN d = DOMAIN c /\ d = [x \in DOMAIN d |-> d[x]] /\ d.array = a
      /\ \A x \in DOMAIN c \ {"array"} : d[x] = c[x]
  BY DEF IsCall, Used
<1> HIDE DEF d
<1>2. IsCall(d)
  BY <1>1 DEF IsCall, Used
<1>3. QED BY <1>1, <1>2 DEF d

LEMMA NewFacts ==
    ASSUME NEW c, IsCall(c), NULL \notin c.held, c.array = NoArray, NEW size \in Nat
    PROVE  LET d == arraynew(c, size)
           IN  /\ IsCall(d) /\ Frame(c, d) /\ d.err = c.err /\ d.twice = c.twice
               /\ ArrayOK(d.array) /\ Moves(c, d) /\ d.array.count = 0
               /\ d.array.block = NULL => d.array = NoArray
               /\ d.array.block # NULL => d.array.size > 0
               /\ d.got = d.array.block
<1> DEFINE e == Obtain(c, "array")
           room == IF size = 0 THEN ARRAY_DEFAULT ELSE size
           a == [block |-> e.got, size |-> room, count |-> 0, slots |-> Empty(room)]
           d == [e EXCEPT !.array = a]
<1>1. /\ IsCall(e) /\ Frame(c, e) /\ Obtained(c, e, "array")
      /\ e.array = c.array /\ e.err = c.err /\ e.twice = c.twice
  BY ObtainFacts
<1>2. room \in Nat /\ room > 0
  BY ArrayAssumption
<1> HIDE DEF e, room
<1>3. CASE e.got = NULL
  <2>1. arraynew(c, size) = e
    BY <1>3 DEF arraynew, Made, e
  <2>2. QED BY <1>1, <1>3, <2>1, EmptyOK DEF Moves, Obtained
<1>4. CASE e.got # NULL
  <2>1. arraynew(c, size) = d
    BY <1>4 DEF arraynew, Made, e, room
  <2>2. /\ a.block = e.got /\ a.size = room /\ a.count = 0 /\ a.slots = [i \in 1 .. room |-> NULL]
        /\ ArrayRecord(a)
    BY RecordFacts DEF Empty
  <2>3. OfKind("array", e.got)
    BY <1>1, <1>4 DEF Obtained
  <2>4. ArrayOK(a)
    <3>1. Slots(a.slots, room)
      BY <2>2 DEF Slots
    <3>2. QED BY <1>2, <1>4, <2>2, <2>3, <3>1 DEF ArrayOK
  <2> HIDE DEF a
  <2>5. /\ IsCall(d) /\ DOMAIN d = DOMAIN e /\ d.array = a
        /\ \A x \in DOMAIN e \ {"array"} : d[x] = e[x]
    BY <1>1, SetArray
  <2> HIDE DEF d
  <2>6. d.held = e.held /\ d.got = e.got /\ d.err = c.err /\ d.twice = c.twice /\ Frame(c, d)
    BY <1>1, <2>5 DEF IsCall, Used, Frame
  <2>7. d.array.block \notin c.held /\ d.held = c.held \cup {d.array.block}
    BY <1>1, <1>4, <2>2, <2>5, <2>6 DEF Obtained
  <2>8. c.array.block = NULL
    BY EmptyOK
  <2>9. Moves(c, d)
    BY <1>4, <2>2, <2>5, <2>7, <2>8 DEF Moves
  <2>10. QED BY <1>2, <1>4, <2>1, <2>2, <2>4, <2>5, <2>6, <2>9
<1>5. QED BY <1>3, <1>4

(* A grown array is in order, and its entries in use are where they were. *)
LEMMA GrownOK ==
    ASSUME NEW a, ArrayOK(a), a.block # NULL, NEW block, block # NULL, OfKind("array", block)
    PROVE  LET g == Grown(a, block)
           IN  /\ ArrayOK(g) /\ g.block = block /\ g.count = a.count /\ g.size > a.count
               /\ \A i \in 1 .. a.count : g.slots[i] = a.slots[i]
<1> DEFINE k == ARRAY_DEFAULT
           old == a.slots
           m == a.size
           n == a.count
           S == {old[i] : i \in 1 .. m} \cup {NULL}
           new == Empty(k)
           s == old \o new
           g == [a EXCEPT !.block = block, !.size = m + k, !.slots = s]
<1>1. k \in Nat /\ k > 0 /\ m \in Nat /\ n \in 0 .. m
  BY ArrayAssumption DEF ArrayOK
<1>2. Slots(old, m) /\ \A i \in n + 1 .. m : old[i] = NULL
  BY DEF ArrayOK
<1>3. ArrayRecord(a)
  BY DEF ArrayOK
<1>4. new \in [1 .. k -> S] /\ \A i \in 1 .. k : new[i] = NULL
  BY DEF Empty
<1> HIDE DEF k, old, m, n, new
<1>5. old \in [1 .. m -> S]
  BY <1>2 DEF Slots
<1> HIDE DEF S
<1>6. old \in Seq(S) /\ Len(old) = m /\ new \in Seq(S) /\ Len(new) = k
  BY <1>1, <1>4, <1>5
<1>7. s \in Seq(S) /\ Len(s) = m + k
  BY <1>6
<1>8. \A i \in 1 .. m + k : s[i] = IF i <= m THEN old[i] ELSE new[i - m]
  BY <1>6
<1>9. Slots(s, m + k)
  <2>1. DOMAIN s = 1 .. m + k
    BY <1>7
  <2>2. s \in [1 .. m + k -> S]
    BY <1>7, LenProperties
  <2>3. QED BY <2>1, <2>2 DEF Slots
<1> HIDE DEF s
<1>10. ASSUME NEW i \in n + 1 .. m + k PROVE s[i] = NULL
  <2>1. i \in 1 .. m + k
    BY <1>1
  <2>2. CASE i <= m
    BY <1>1, <1>2, <1>8, <2>1, <2>2
  <2>3. CASE i > m
    <3>1. i - m \in 1 .. k
      BY <1>1, <2>3
    <3>2. QED BY <1>1, <1>4, <1>8, <2>1, <2>3, <3>1
  <2>4. QED BY <1>1, <2>2, <2>3
<1>11. ASSUME NEW i \in 1 .. n PROVE s[i] = old[i]
  <2>1. i \in 1 .. m + k /\ i <= m
    BY <1>1
  <2>2. QED BY <1>8, <2>1
<1>12. g.block = block /\ g.size = m + k /\ g.count = n /\ g.slots = s /\ ArrayRecord(g)
  BY <1>3 DEF ArrayRecord, n
<1> HIDE DEF g
<1>14. ArrayOK(g) /\ g.size > n
  BY <1>1, <1>9, <1>10, <1>12 DEF ArrayOK
<1>15. QED BY <1>11, <1>12, <1>14 DEF Grown, k, old, m, n, new, s, g

LEMMA GrowFacts ==
    ASSUME NEW c, IsCall(c), ArrayOK(c.array), Holds(c)
    PROVE  LET d == Grow(c)
           IN  /\ IsCall(d) /\ Frame(c, d) /\ d.err = c.err /\ d.twice = c.twice
               /\ ArrayOK(d.array) /\ Moves(c, d) /\ Holds(d)
               /\ d.array.count = c.array.count
               /\ \A i \in 1 .. c.array.count : d.array.slots[i] = c.array.slots[i]
               /\ d.array = c.array \/ ~ Full(d)
               /\ ~ Full(c) => d = c
               /\ d.array = c.array => d.held = c.held
<1> DEFINE e == Obtain(c, "array")
           r == Release(e, c.array.block)
           g == Grown(c.array, e.got)
           d == [r EXCEPT !.array = g]
<1>1. /\ IsCall(e) /\ Frame(c, e) /\ Obtained(c, e, "array")
      /\ e.array = c.array /\ e.err = c.err /\ e.twice = c.twice
  BY ObtainFacts
<1> HIDE DEF e
<1>2. CASE ~ (c.array.block # NULL /\ Full(c))
  BY <1>2 DEF Grow, Moves, Frame, Full, ArrayOK, NoArray
<1>3. CASE c.array.block # NULL /\ Full(c) /\ e.got = NULL
  <2>1. Grow(c) = e
    BY <1>3 DEF Grow, Moved, e
  <2>2. QED BY <1>1, <1>3, <2>1 DEF Moves, Obtained, Holds
<1>4. CASE c.array.block # NULL /\ Full(c) /\ e.got # NULL
  <2>1. Grow(c) = d
    BY <1>1, <1>4 DEF Grow, Moved, Grown, e
  <2>2. NULL \notin e.held /\ c.array.block \in e.held
    BY <1>1, <1>4 DEF Obtained, Holds
  <2>3. /\ IsCall(r) /\ DOMAIN r = DOMAIN e /\ r.held = e.held \ {c.array.block}
        /\ \A x \in DOMAIN e \ {"held"} : r[x] = e[x]
    BY <1>1, <2>2, ReleaseFacts
  <2> HIDE DEF r
  <2>4. /\ ArrayOK(g) /\ g.block = e.got /\ g.count = c.array.count /\ g.size > c.array.count
        /\ \A i \in 1 .. c.array.count : g.slots[i] = c.array.slots[i]
    <3>1. OfKind("array", e.got)
      BY <1>1, <1>4 DEF Obtained
    <3>2. QED BY <1>4, <3>1, GrownOK
  <2> HIDE DEF g
  <2>5. /\ IsCall(d) /\ DOMAIN d = DOMAIN r /\ d.array = g
        /\ \A x \in DOMAIN r \ {"array"} : d[x] = r[x]
    BY <2>3, SetArray
  <2> HIDE DEF d
  <2>6. d.held = e.held \ {c.array.block} /\ d.err = c.err /\ d.twice = c.twice /\ Frame(c, d)
    BY <1>1, <2>3, <2>5 DEF IsCall, Used, Frame
  <2>7. d.array.block \notin c.held /\ d.held = (c.held \ {c.array.block}) \cup {d.array.block}
        /\ d.array.block # NULL
    BY <1>1, <1>4, <2>2, <2>4, <2>5, <2>6 DEF Obtained, Holds
  <2>8. Holds(d) /\ Moves(c, d)
    BY <2>7 DEF Holds, Moves
  <2>9. ~ Full(d)
    BY <2>4, <2>5 DEF Full, ArrayOK
  <2>10. d.array # c.array
    BY <1>4, <2>7 DEF Holds
  <2>11. QED BY <1>4, <2>1, <2>4, <2>5, <2>6, <2>8, <2>9, <2>10
<1>5. QED BY <1>2, <1>3, <1>4

(* An array with room takes one entry more. *)
LEMMA EntryOK ==
    ASSUME NEW a, ArrayOK(a), a.block # NULL, a.count < a.size, NEW item
    PROVE  LET s == Entered(a, item)
           IN  /\ ArrayOK(s) /\ s.block = a.block /\ s.count = a.count + 1
               /\ s.slots[a.count + 1] = item
               /\ \A i \in 1 .. a.count : s.slots[i] = a.slots[i]
<1> DEFINE old == a.slots
           m == a.size
           n == a.count
           t == [old EXCEPT ![n + 1] = item]
           s == [a EXCEPT !.count = n + 1, !.slots = t]
<1>1. m \in Nat /\ n \in 0 .. m /\ n + 1 \in 1 .. m
  BY DEF ArrayOK
<1>2. Slots(old, m) /\ \A i \in n + 1 .. m : old[i] = NULL
  BY DEF ArrayOK
<1>3. ArrayRecord(a) /\ OfKind("array", a.block)
  BY DEF ArrayOK
<1> HIDE DEF old, m, n
<1>5. DOMAIN t = 1 .. m /\ t[n + 1] = item /\ (\A i \in 1 .. m : i # n + 1 => t[i] = old[i]) /\ Slots(t, m)
  BY <1>1, <1>2 DEF Slots
<1> HIDE DEF t
<1>6. \A i \in n + 2 .. m : t[i] = NULL
  BY <1>1, <1>2, <1>5
<1>7. s.block = a.block /\ s.size = m /\ s.count = n + 1 /\ s.slots = t /\ ArrayRecord(s)
  BY <1>3 DEF ArrayRecord, m
<1> HIDE DEF s
<1>8. ArrayOK(s)
  BY <1>1, <1>3, <1>5, <1>6, <1>7 DEF ArrayOK
<1>9. \A i \in 1 .. n : t[i] = old[i]
  BY <1>1, <1>5
<1>10. QED BY <1>5, <1>7, <1>8, <1>9 DEF Entered, old, m, n, t, s

(* arrayadd() adds the item at the end, or says that it did not. *)
LEMMA AddFacts ==
    ASSUME NEW c, IsCall(c), ArrayOK(c.array), Holds(c), NEW item
    PROVE  LET d == arrayadd(c, item)
               n == c.array.count
           IN  /\ IsCall(d) /\ Frame(c, d) /\ d.twice = c.twice /\ d.err \in {0, -1}
               /\ ArrayOK(d.array) /\ Moves(c, d)
               /\ d.err # 0 => d.array = c.array /\ d.held = c.held
               /\ d.err = 0 => /\ d.array.block # NULL /\ d.array.count = n + 1
                               /\ d.array.slots[n + 1] = item
                               /\ \A i \in 1 .. n : d.array.slots[i] = c.array.slots[i]
<1> DEFINE n == c.array.count
           b == IF c.array.block = NULL THEN arraynew(c, ARRAY_DEFAULT) ELSE c
           g == Grow(b)
           d == Store(g, item)
<1>1. arrayadd(c, item) = d
  BY DEF arrayadd
<1>2. /\ IsCall(b) /\ Frame(c, b) /\ b.twice = c.twice /\ ArrayOK(b.array) /\ Moves(c, b) /\ Holds(b)
      /\ b.array.count = n /\ \A i \in 1 .. n : b.array.slots[i] = c.array.slots[i]
      /\ (b.array = c.array /\ b.held = c.held) \/ (c.array.block = NULL /\ ~ Full(b) /\ b.array.block # NULL)
  <2>1. CASE c.array.block = NULL
    <3>1. c.array = NoArray /\ n = 0
      BY <2>1, EmptyOK DEF ArrayOK
    <3>2. NULL \notin c.held
      BY DEF Holds
    <3>3. b = arraynew(c, ARRAY_DEFAULT)
      BY <2>1
    <3> HIDE DEF b
    <3>4. /\ IsCall(b) /\ Frame(c, b) /\ b.twice = c.twice
          /\ ArrayOK(b.array) /\ Moves(c, b) /\ b.array.count = 0
          /\ b.array.block = NULL => b.array = NoArray
          /\ b.array.block # NULL => b.array.size > 0
      BY <3>1, <3>2, <3>3, NewFacts, ArrayAssumption
    <3>5. b.array.block = NULL => b.array = c.array /\ b.held = c.held
      BY <3>1, <3>4 DEF Moves
    <3>6. b.array.block # NULL => ~ Full(b)
      <4>1. b.array.size \in Nat
        BY <3>4 DEF ArrayOK
      <4>2. QED BY <3>4, <4>1 DEF Full
    <3>7. Holds(b)
      BY <2>1, <3>2, <3>4 DEF Moves, Holds
    <3>8. \A i \in 1 .. n : b.array.slots[i] = c.array.slots[i]
      BY <3>1
    <3>9. IsCall(b) /\ Frame(c, b) /\ b.twice = c.twice /\ ArrayOK(b.array) /\ Moves(c, b) /\ b.array.count = n
      BY <3>1, <3>4
    <3>10. (b.array = c.array /\ b.held = c.held) \/ (c.array.block = NULL /\ ~ Full(b) /\ b.array.block # NULL)
      BY <2>1, <3>5, <3>6
    <3>11. QED BY <3>7, <3>8, <3>9, <3>10
  <2>2. CASE c.array.block # NULL
    <3>1. b = c
      BY <2>2
    <3>2. Moves(c, c) /\ Frame(c, c)
      BY DEF Moves, Frame
    <3>3. QED BY <3>1, <3>2
  <2>3. QED BY <2>1, <2>2
<1> HIDE DEF b
<1>3. /\ IsCall(g) /\ Frame(b, g) /\ g.twice = b.twice /\ ArrayOK(g.array) /\ Moves(b, g) /\ Holds(g)
      /\ g.array.count = n /\ \A i \in 1 .. n : g.array.slots[i] = b.array.slots[i]
      /\ g.array = b.array \/ ~ Full(g)
      /\ ~ Full(b) => g = b
      /\ g.array = b.array => g.held = b.held
  BY <1>2, GrowFacts
<1> HIDE DEF g
<1>4. /\ Frame(c, g) /\ g.twice = c.twice /\ Moves(c, g)
      /\ \A i \in 1 .. n : g.array.slots[i] = c.array.slots[i]
      /\ (g.array = c.array /\ g.held = c.held) \/ ~ Full(g)
  <2>1. Frame(c, g) /\ g.twice = c.twice /\ \A i \in 1 .. n : g.array.slots[i] = c.array.slots[i]
    BY <1>2, <1>3 DEF Frame
  <2>2. CASE b.array = c.array /\ b.held = c.held
    BY <1>3, <2>1, <2>2 DEF Moves
  <2>3. CASE c.array.block = NULL /\ ~ Full(b)
    BY <1>2, <1>3, <2>1, <2>3
  <2>4. QED BY <1>2, <2>2, <2>3
<1>5. CASE Full(g)
  <2>1. d = [g EXCEPT !.err = -1]
    BY <1>5 DEF Store
  <2> HIDE DEF d
  <2>2. /\ DOMAIN d = DOMAIN g /\ d = [x \in DOMAIN d |-> d[x]] /\ d.err = -1
        /\ \A x \in DOMAIN g \ {"err"} : d[x] = g[x]
    BY <1>3, <2>1 DEF IsCall, Used
  <2>3. IsCall(d) /\ d.held = g.held /\ d.twice = g.twice /\ d.array = g.array /\ Frame(g, d)
    BY <1>3, <2>2 DEF IsCall, Used, Frame
  <2>4. Frame(c, d) /\ Moves(c, d) /\ ArrayOK(d.array) /\ d.twice = c.twice
    BY <1>3, <1>4, <2>3 DEF Frame, Moves
  <2>5. d.array = c.array /\ d.held = c.held
    BY <1>4, <1>5, <2>3
  <2>6. QED BY <1>1, <2>2, <2>3, <2>4, <2>5
<1>6. CASE ~ Full(g)
  <2> DEFINE a == Entered(g.array, item)
             e == [g EXCEPT !.err = 0, !.array = a]
  <2>1. d = e
    BY <1>3, <1>6 DEF Store, Entered, IsCall, Used
  <2>2. /\ DOMAIN e = DOMAIN g /\ e = [x \in DOMAIN e |-> e[x]] /\ e.err = 0 /\ e.array = a
        /\ \A x \in DOMAIN g \ {"err", "array"} : e[x] = g[x]
    BY <1>3 DEF IsCall, Used
  <2> HIDE DEF a, e
  <2>3. IsCall(e) /\ e.held = g.held /\ e.twice = g.twice /\ Frame(g, e)
    BY <1>3, <2>2 DEF IsCall, Used, Frame
  <2>4. g.array.block # NULL
    <3>1. g.array.block = NULL => g.array = NoArray
      BY <1>3 DEF ArrayOK
    <3>2. g.array = NoArray => Full(g)
      BY DEF NoArray, Full
    <3>3. QED BY <1>6, <3>1, <3>2
  <2>5. g.array.count < g.array.size
    BY <1>3, <1>6 DEF Full, ArrayOK
  <2>6. /\ ArrayOK(a) /\ a.block = g.array.block /\ a.count = n + 1 /\ a.slots[n + 1] = item
        /\ \A i \in 1 .. n : a.slots[i] = g.array.slots[i]
    BY <1>3, <2>4, <2>5, EntryOK DEF a
  <2>7. Frame(c, e) /\ Moves(c, e) /\ e.twice = c.twice
    BY <1>4, <2>2, <2>3, <2>6 DEF Frame, Moves
  <2>8. QED BY <1>1, <1>4, <2>1, <2>2, <2>3, <2>4, <2>6, <2>7
<1>7. QED BY <1>5, <1>6

(* arraydel() takes out one entry and closes the gap. *)
LEMMA DelFacts ==
    ASSUME NEW c, IsCall(c), ArrayOK(c.array), NEW index
    PROVE  LET d == arraydel(c, index)
               n == c.array.count
           IN  /\ IsCall(d) /\ DOMAIN d = DOMAIN c
               /\ \A x \in DOMAIN c \ {"got", "array"} : d[x] = c[x]
               /\ index \notin 1 .. n => d.got = NULL /\ d.array = c.array
               /\ index \in 1 .. n =>
                     /\ d.got = c.array.slots[index] /\ ArrayOK(d.array)
                     /\ d.array.block = c.array.block /\ d.array.count = n - 1
                     /\ \A i \in 1 .. n - 1 : d.array.slots[i] =
                           IF i < index THEN c.array.slots[i] ELSE c.array.slots[i + 1]
<1> DEFINE a == c.array
           m == a.size
           n == a.count
           old == a.slots
           t == [i \in DOMAIN old |-> IF i \in index .. n - 1 THEN old[i + 1]
                                      ELSE IF i = n THEN NULL ELSE old[i]]
           b == [a EXCEPT !.slots = t, !.count = n - 1]
           d == arraydel(c, index)
<1>1. CASE index \notin 1 .. n
  <2>1. d = [c EXCEPT !.got = NULL]
    BY <1>1 DEF arraydel, arraycount
  <2> HIDE DEF d
  <2>2. /\ DOMAIN d = DOMAIN c /\ d = [x \in DOMAIN d |-> d[x]] /\ d.got = NULL
        /\ \A x \in DOMAIN c \ {"got"} : d[x] = c[x]
    BY <2>1 DEF IsCall, Used
  <2>3. QED BY <1>1, <2>2 DEF IsCall, Used, d
<1>2. CASE index \in 1 .. n
  <2> DEFINE e == [c EXCEPT !.got = old[index], !.array = b]
  <2>1. d = e
    BY <1>2 DEF arraydel, arraycount, IsCall, Used
  <2>2. m \in Nat /\ n \in 0 .. m /\ ArrayRecord(a) /\ Slots(old, m) /\ \A i \in n + 1 .. m : old[i] = NULL
    BY DEF ArrayOK
  <2>3. n \in 1 .. m /\ OfKind("array", a.block) /\ a.block # NULL
    <3>1. n \in 1 .. m
      BY <1>2, <2>2
    <3>2. n # 0
      BY <1>2, <2>2
    <3>3. a.block # NULL
      BY <3>2, EmptyOK DEF ArrayOK
    <3>4. QED BY <3>1, <3>3 DEF ArrayOK
  <2>4. ArrayRecord(b) /\ b.slots = t /\ b.count = n - 1 /\ b.block = a.block /\ b.size = m
    BY <2>2 DEF ArrayRecord
  <2>5. /\ DOMAIN e = DOMAIN c /\ e = [x \in DOMAIN e |-> e[x]] /\ e.got = old[index] /\ e.array = b
        /\ \A x \in DOMAIN c \ {"got", "array"} : e[x] = c[x]
    BY DEF IsCall, Used
  <2> HIDE DEF b, e, d
  <2>6. DOMAIN t = 1 .. m /\ Slots(t, m)
    BY <2>2 DEF Slots
  <2>7. \A i \in n .. m : t[i] = NULL
    BY <1>2, <2>2, <2>3, <2>6
  <2>8. \A i \in 1 .. n - 1 : t[i] = IF i < index THEN old[i] ELSE old[i + 1]
    BY <1>2, <2>2, <2>3, <2>6
  <2> HIDE DEF t
  <2>9. ArrayOK(b)
    BY <2>2, <2>3, <2>4, <2>6, <2>7 DEF ArrayOK
  <2>10. IsCall(e)
    BY <2>5 DEF IsCall, Used
  <2>11. QED BY <1>2, <2>1, <2>4, <2>5, <2>8, <2>9, <2>10 DEF d
<1>3. QED BY <1>1, <1>2

(* arrayfree() gives the block back. *)
LEMMA FreeFacts ==
    ASSUME NEW c, IsCall(c), Holds(c)
    PROVE  LET d == arrayfree(c)
           IN  /\ IsCall(d) /\ DOMAIN d = DOMAIN c
               /\ \A x \in DOMAIN c \ {"held", "array", "err"} : d[x] = c[x]
               /\ d.held = c.held \ {c.array.block}
               /\ d.array = IF c.array.block = NULL THEN c.array ELSE NoArray
<1>1. CASE c.array.block = NULL
  <2> DEFINE d == [c EXCEPT !.err = -1]
  <2>1. arrayfree(c) = d
    BY <1>1 DEF arrayfree
  <2>2. /\ DOMAIN d = DOMAIN c /\ d = [x \in DOMAIN d |-> d[x]]
        /\ \A x \in DOMAIN c \ {"err"} : d[x] = c[x]
    BY DEF IsCall, Used
  <2> HIDE DEF d
  <2>3. d.held = c.held \ {c.array.block}
    BY <1>1, <2>2 DEF IsCall, Used, Holds
  <2>4. QED BY <1>1, <2>1, <2>2, <2>3 DEF IsCall, Used
<1>2. CASE c.array.block # NULL
  <2> DEFINE r == Release(c, c.array.block)
             d == [r EXCEPT !.array = NoArray, !.err = 0]
  <2>1. arrayfree(c) = d
    BY <1>2 DEF arrayfree
  <2>2. /\ IsCall(r) /\ DOMAIN r = DOMAIN c /\ r.held = c.held \ {c.array.block}
        /\ \A x \in DOMAIN c \ {"held"} : r[x] = c[x]
    BY <1>2, ReleaseFacts DEF Holds
  <2> HIDE DEF r
  <2>3. /\ DOMAIN d = DOMAIN r /\ d = [x \in DOMAIN d |-> d[x]] /\ d.array = NoArray
        /\ \A x \in DOMAIN r \ {"array", "err"} : d[x] = r[x]
    BY <2>2 DEF IsCall, Used
  <2> HIDE DEF d
  <2>4. QED BY <1>2, <2>1, <2>2, <2>3 DEF IsCall, Used
<1>3. QED BY <1>1, <1>2

----------------------------------------------------------------------------
(* Giving back a sequence. *)

(* The function of ReleaseAll() exists: it can be built entry by entry. *)
Stepwise(f, c, rs) == f[0] = c /\ \A i \in 1 .. Len(rs) : f[i] = Release(f[i - 1], rs[i])

LEMMA DoneFacts ==
    ASSUME NEW c, NEW rs, NEW n \in Nat, Len(rs) = n
    PROVE  \E f : ReleaseAll(c, rs) = f[n] /\ Stepwise(f, c, rs)
<1> DEFINE Body(f, m) == [i \in 0 .. m |-> IF i = 0 THEN c ELSE Release(f[i - 1], rs[i])]
           Built(m) == \E f : f = Body(f, m)
           Missing == {m \in Nat : ~ Built(m)}
<1>1. ASSUME Missing # {} PROVE FALSE
  <2>1. PICK m \in Missing : \A j \in Missing : m <= j
    BY <1>1, Least
  <2>2. m \in Nat /\ ~ Built(m)
    BY <2>1
  <2>3. CASE m = 0
    <3> DEFINE f == [i \in 0 .. 0 |-> c]
    <3>1. \A i \in 0 .. 0 : i = 0
      OBVIOUS
    <3>2. f = Body(f, 0)
      BY <3>1
    <3>3. QED BY <2>2, <2>3, <3>2
  <2>4. CASE m > 0
    <3>1. m - 1 \in Nat /\ m - 1 < m
      BY <2>2, <2>4
    <3>2. m - 1 \notin Missing
      <4> HIDE DEF Missing
      <4>1. QED BY <2>1, <2>2, <3>1
    <3>3. Built(m - 1)
      BY <3>1, <3>2
    <3>4. PICK g : g = Body(g, m - 1)
      BY <3>3
    <3> DEFINE f == [i \in 0 .. m |-> IF i = m THEN Release(g[m - 1], rs[m]) ELSE g[i]]
    <3>5. \A i \in 0 .. m - 1 : g[i] = IF i = 0 THEN c ELSE Release(g[i - 1], rs[i])
      BY <3>4
    <3>6. f[m] = Release(g[m - 1], rs[m]) /\ \A i \in 0 .. m - 1 : f[i] = g[i]
      BY <2>2
    <3>7. ASSUME NEW i \in 0 .. m PROVE f[i] = IF i = 0 THEN c ELSE Release(f[i - 1], rs[i])
      <4>1. CASE i = m
        BY <2>2, <2>4, <3>1, <3>6, <4>1
      <4>2. CASE i # m /\ i # 0
        <5>1. i \in 0 .. m - 1 /\ i - 1 \in 0 .. m - 1
          BY <2>2, <4>2
        <5>2. QED BY <3>5, <3>6, <4>2, <5>1
      <4>3. CASE i # m /\ i = 0
        <5>1. i \in 0 .. m - 1
          BY <2>2, <4>3
        <5>2. QED BY <3>5, <3>6, <4>3, <5>1
      <4>4. QED BY <4>1, <4>2, <4>3
    <3>8. f = Body(f, m)
      <4>1. Body(f, m) = [i \in 0 .. m |-> f[i]]
        BY <3>7
      <4>2. f = [i \in 0 .. m |-> f[i]]
        OBVIOUS
      <4>3. QED BY <4>1, <4>2
    <3> HIDE DEF f, Body
    <3>9. Built(m)
      BY <3>8
    <3>10. QED BY <2>2, <3>9
  <2>5. QED BY <2>2, <2>3, <2>4
<1>2. Built(n)
  BY <1>1
<1> DEFINE P(f) == f = Body(f, n)
           d == CHOOSE f : P(f)
<1>3. ReleaseAll(c, rs) = d[n]
  BY DEF ReleaseAll
<1>4. \E f : P(f)
  BY <1>2
<1> HIDE DEF P
<1>5. P(d)
  BY <1>4
<1> HIDE DEF d
<1>6. d = Body(d, n)
  BY <1>5 DEF P
<1>7. \A i \in 0 .. n : d[i] = IF i = 0 THEN c ELSE Release(d[i - 1], rs[i])
  BY <1>6
<1>8. d[0] = c
  BY <1>7
<1>9. ASSUME NEW i \in 1 .. n PROVE d[i] = Release(d[i - 1], rs[i])
  <2>1. i \in 0 .. n /\ i # 0
    OBVIOUS
  <2>2. QED BY <1>7, <2>1
<1>10. QED BY <1>3, <1>8, <1>9 DEF Stepwise

(* All of a sequence that is held is given back, and nothing else; it may *)
(* have holes.                                                             *)
LEMMA ReleaseAllFacts ==
    ASSUME NEW c, IsCall(c), NEW rs, NEW n \in Nat, Len(rs) = n, NULL \notin c.held,
           \A i \in 1 .. n : rs[i] = NULL \/ rs[i] \in c.held,
           \A i, j \in 1 .. n : rs[i] = rs[j] => i = j \/ rs[i] = NULL
    PROVE  LET d == ReleaseAll(c, rs)
           IN  /\ IsCall(d) /\ DOMAIN d = DOMAIN c
               /\ d.held = c.held \ {rs[i] : i \in 1 .. n}
               /\ \A x \in DOMAIN c \ {"held"} : d[x] = c[x]
<1>1. PICK f : ReleaseAll(c, rs) = f[n] /\ Stepwise(f, c, rs)
  BY DoneFacts
<1>2. f[0] = c /\ \A i \in 1 .. n : f[i] = Release(f[i - 1], rs[i])
  BY <1>1 DEF Stepwise
<1> DEFINE Back(k) == {rs[i] : i \in 1 .. k}
           Good(k) == /\ IsCall(f[k]) /\ DOMAIN f[k] = DOMAIN c
                      /\ f[k].held = c.held \ Back(k)
                      /\ \A x \in DOMAIN c \ {"held"} : f[k][x] = c[x]
           Bad == {k \in 0 .. n : ~ Good(k)}
<1>3. Good(0)
  BY <1>2
<1>4. ASSUME NEW k \in 1 .. n, Good(k - 1) PROVE Good(k)
  <2>1. k - 1 \in 0 .. n /\ f[k] = Release(f[k - 1], rs[k])
    BY <1>2
  <2>2. rs[k] = NULL \/ rs[k] \in f[k - 1].held
    <3>1. \A i \in 1 .. k - 1 : i \in 1 .. n /\ i # k
      OBVIOUS
    <3>2. QED BY <1>4, <3>1
  <2>3. NULL \notin f[k - 1].held
    BY <1>4
  <2>4. /\ IsCall(f[k]) /\ DOMAIN f[k] = DOMAIN f[k - 1]
        /\ f[k].held = f[k - 1].held \ {rs[k]}
        /\ \A x \in DOMAIN f[k - 1] \ {"held"} : f[k][x] = f[k - 1][x]
    <3>1. IsCall(f[k - 1])
      BY <1>4
    <3>2. QED BY ONLY <3>1, <2>1, <2>2, <2>3, ReleaseFacts
  <2>5. Back(k) = Back(k - 1) \cup {rs[k]}
    <3>1. \A i : i \in 1 .. k <=> i \in 1 .. k - 1 \/ i = k
      OBVIOUS
    <3>2. QED BY <3>1
  <2>6. f[k].held = c.held \ Back(k)
    BY <1>4, <2>4, <2>5
  <2>7. QED BY <1>4, <2>4, <2>6
<1> HIDE DEF Good
<1>5. ASSUME Bad # {} PROVE FALSE
  <2>1. PICK k \in Bad : \A j \in Bad : k <= j
    <3>1. Bad \subseteq Nat
      OBVIOUS
    <3> HIDE DEF Bad
    <3>2. QED BY <1>5, <3>1, Least
  <2>2. k \in 1 .. n /\ k - 1 \in 0 .. n /\ k - 1 < k
    BY <1>3, <2>1
  <2>3. Good(k - 1)
    BY <2>1, <2>2
  <2>4. QED BY <1>4, <2>1, <2>2, <2>3
<1>6. Good(n)
  BY <1>5
<1>7. QED BY <1>1, <1>6 DEF Good

----------------------------------------------------------------------------
(* The caller's array. *)

Strings == {"string"} \X Nat
ListOK(a, l) ==
    /\ l \in Seq(Strings) /\ Len(l) = a.count
    /\ \A i \in 1 .. a.count : l[i] = a.slots[i]
    /\ \A i, j \in 1 .. a.count : l[i] = l[j] => i = j
Owned(a, l) == ({a.block} \cup {l[i] : i \in DOMAIN l}) \ {NULL}

(* The array is in order and holds the list's strings; the blocks the caller *)
(* holds are the array's and the strings.                                    *)
ArrayInv ==
    /\ ArrayOK(arr.array) /\ ListOK(arr.array, arr.list)
    /\ ledger.held = Owned(arr.array, arr.list) /\ IsFiniteSet(ledger.held)
    /\ ledger.twice = FALSE
    /\ LookIsTrue

LEMMA StringFacts == \A r : r \in Strings <=> OfKind("string", r)
BY DEF Strings, OfKind

LEMMA CallOK ==
    ASSUME ArrayInv, NEW faults
    PROVE  LET c == ArrayCall(faults)
           IN  /\ IsCall(c) /\ c.array = arr.array /\ c.held = ledger.held /\ c.twice = FALSE
               /\ Holds(c) /\ c.got = NULL
<1> DEFINE c == ArrayCall(faults)
<1>1. /\ DOMAIN c = Used /\ c = [x \in DOMAIN c |-> c[x]] /\ c.held = ledger.held
      /\ c.twice = ledger.twice /\ c.array = arr.array /\ c.got = NULL
  BY DEF ArrayCall, Used
<1> HIDE DEF c
<1>2. NULL \notin ledger.held /\ (arr.array.block = NULL \/ arr.array.block \in ledger.held)
  BY DEF ArrayInv, Owned
<1>3. Holds(c)
  BY <1>1, <1>2 DEF Holds
<1>4. IsCall(c)
  BY <1>1 DEF IsCall, ArrayInv
<1>5. QED BY <1>1, <1>3, <1>4 DEF ArrayInv, c

(* What the action leaves for the next one. *)
LEMMA EndOK ==
    ASSUME NEW c, NEW op, NEW got, NEW list, ArrayEnd(c, op, got, list), IsCall(c),
           ArrayOK(c.array), ListOK(c.array, list), c.held = Owned(c.array, list), c.twice = FALSE,
           op # "arrayget" \/ LookIsTrue'
    PROVE  ArrayInv'
<1>1. arr' = [array |-> c.array, list |-> list] /\ ledger' = [held |-> c.held, twice |-> c.twice]
      /\ result' = [op |-> op, err |-> c.err, got |-> got]
  BY DEF ArrayEnd, End
<1>2. arr'.array = c.array /\ arr'.list = list /\ ledger'.held = c.held /\ ledger'.twice = c.twice
      /\ result'.op = op
  BY <1>1
<1>3. LookIsTrue'
  BY <1>2 DEF LookIsTrue
<1>4. QED BY <1>2, <1>3 DEF ArrayInv, IsCall

LEMMA EmptyList == ListOK(NoArray, <<>>) /\ Owned(NoArray, <<>>) = {}
<1>1. <<>> \in Seq(Strings) /\ Len(<<>>) = 0 /\ DOMAIN <<>> = {}
  OBVIOUS
<1>2. \A i \in 1 .. 0 : FALSE
  OBVIOUS
<1>3. {<<>>[i] : i \in {}} = {}
  OBVIOUS
<1>4. QED BY <1>1, <1>2, <1>3, EmptyOK DEF ListOK, Owned

(* The list of an array that has no block is empty. *)
LEMMA NoList == ASSUME NEW l, ListOK(NoArray, l) PROVE l = <<>>
BY EmptyOK, EmptySeq DEF ListOK

LEMMA NewStep == ASSUME ArrayInv, NewArray PROVE ArrayInv'
<1>1. PICK size \in 0 .. MaxEntries, fault \in OneFault(1) :
          ArrayEnd(arraynew(ArrayCall(fault), size), "arraynew", arraynew(ArrayCall(fault), size).got, <<>>)
  BY DEF NewArray
<1> DEFINE c == ArrayCall(fault)
           d == arraynew(c, size)
<1>2. /\ IsCall(c) /\ c.array = arr.array /\ c.held = ledger.held /\ c.twice = FALSE /\ Holds(c)
  BY CallOK
<1>3. arr.array = NoArray
  BY DEF NewArray
<1>4. size \in Nat
  BY ArrayAssumption
<1> HIDE DEF c
<1>5. /\ IsCall(d) /\ d.twice = c.twice
      /\ ArrayOK(d.array) /\ Moves(c, d) /\ d.array.count = 0
  <2>1. NULL \notin c.held
    BY <1>2 DEF Holds
  <2>2. QED BY <1>2, <1>3, <1>4, <2>1, NewFacts
<1> HIDE DEF d
<1>6. arr.list = <<>> /\ c.held = {}
  <2>1. arr.list = <<>>
    BY <1>3, NoList DEF ArrayInv
  <2>2. QED BY <1>2, <1>3, <2>1, EmptyList DEF ArrayInv
<1>7. ListOK(d.array, <<>>)
  BY <1>5, EmptyList, EmptyOK DEF ListOK
<1>8. d.held = {d.array.block} \ {NULL}
  <2>1. c.array.block = NULL
    BY <1>2, <1>3, EmptyOK
  <2>2. QED BY <1>5, <1>6, <2>1 DEF Moves
<1>9. Owned(d.array, <<>>) = {d.array.block} \ {NULL}
  BY DEF Owned
<1>10. ArrayEnd(d, "arraynew", d.got, <<>>)
  BY <1>1 DEF c, d
<1>11. d.twice = FALSE /\ d.held = Owned(d.array, <<>>)
  BY <1>2, <1>5, <1>8, <1>9
<1>12. QED BY <1>5, <1>7, <1>10, <1>11, EndOK

(* The list one string longer. *)
LEMMA ListAdded ==
    ASSUME NEW a, NEW b, ArrayOK(a), ArrayOK(b), NEW l, ListOK(a, l), NEW r,
           OfKind("string", r), r \notin Owned(a, l),
           b.count = a.count + 1, b.slots[b.count] = r,
           \A i \in 1 .. a.count : b.slots[i] = a.slots[i]
    PROVE  /\ ListOK(b, Append(l, r))
           /\ {Append(l, r)[i] : i \in DOMAIN Append(l, r)} = {l[i] : i \in DOMAIN l} \cup {r}
<1> DEFINE n == a.count
           t == Append(l, r)
<1>1. n \in Nat
  BY DEF ArrayOK
<1>2. r \in Strings /\ r # NULL
  BY StringFacts, NullFacts
<1>3. l \in Seq(Strings) /\ Len(l) = n /\ DOMAIN l = 1 .. n
  BY DEF ListOK
<1>4. t \in Seq(Strings) /\ Len(t) = n + 1 /\ DOMAIN t = 1 .. n + 1
  BY <1>2, <1>3
<1>5. t[n + 1] = r /\ \A i \in 1 .. n : t[i] = l[i]
  BY <1>2, <1>3
<1> HIDE DEF t
<1>6. \A i \in 1 .. n + 1 : i # n + 1 => i \in 1 .. n
  BY <1>1
<1>7. \A i \in 1 .. n : l[i] # r
  BY <1>2, <1>3 DEF Owned
<1>8. \A i, j \in 1 .. n : l[i] = l[j] => i = j
  BY DEF ListOK
<1>9. ASSUME NEW i \in 1 .. n + 1, NEW j \in 1 .. n + 1, t[i] = t[j] PROVE i = j
  BY <1>5, <1>6, <1>7, <1>8, <1>9
<1>10. \A i \in 1 .. n + 1 : t[i] = b.slots[i]
  <2>1. \A i \in 1 .. n : t[i] = b.slots[i]
    BY <1>5 DEF ListOK
  <2>2. QED BY <1>5, <1>6, <2>1
<1>11. ListOK(b, t)
  BY <1>4, <1>9, <1>10 DEF ListOK
<1>12. {t[i] : i \in 1 .. n + 1} = {l[i] : i \in 1 .. n} \cup {r}
  <2>1. \A i \in 1 .. n : i \in 1 .. n + 1
    BY <1>1
  <2>2. n + 1 \in 1 .. n + 1
    BY <1>1
  <2>3. QED BY <1>5, <1>6, <2>1, <2>2
<1>13. QED BY <1>3, <1>4, <1>11, <1>12 DEF t

LEMMA AddStep == ASSUME ArrayInv, AddString PROVE ArrayInv'
<1>1. PICK fault \in OneFault(3) :
          LET c == arrayaddf(ArrayCall(fault))
              string == Obtain(ArrayCall(fault), "string").got
          IN  ArrayEnd(c, "arrayadd", string, IF c.err = 0 THEN Append(arr.list, string) ELSE arr.list)
  BY DEF AddString
<1> DEFINE c == ArrayCall(fault)
           s == Obtain(c, "string")
           d == arrayadd(s, s.got)
           e == arrayaddf(c)
           l == IF e.err = 0 THEN Append(arr.list, s.got) ELSE arr.list
<1>10. ArrayOK(arr.array) /\ ListOK(arr.array, arr.list) /\ ledger.held = Owned(arr.array, arr.list)
  BY DEF ArrayInv
<1>2. ArrayEnd(e, "arrayadd", s.got, l)
  BY <1>1
<1>3. /\ IsCall(c) /\ c.array = arr.array /\ c.held = ledger.held /\ c.twice = FALSE /\ Holds(c)
  BY CallOK
<1> HIDE DEF c
<1>4. /\ IsCall(s) /\ Obtained(c, s, "string") /\ s.array = c.array /\ s.twice = c.twice
  BY <1>3, ObtainFacts
<1> HIDE DEF s
<1>5. e = IF s.got = NULL THEN [s EXCEPT !.err = -1] ELSE FreeUnadded(d, s.got)
  BY DEF arrayaddf, AddFormatted, s
<1> HIDE DEF e
<1>6. CASE s.got = NULL
  <2> DEFINE f == [s EXCEPT !.err = -1]
  <2>1. e = f
    BY <1>5, <1>6
  <2>2. /\ DOMAIN f = DOMAIN s /\ f = [x \in DOMAIN f |-> f[x]] /\ f.err = -1
        /\ \A x \in DOMAIN s \ {"err"} : f[x] = s[x]
    BY <1>4 DEF IsCall, Used
  <2> HIDE DEF f
  <2>3. IsCall(f) /\ f.array = arr.array /\ f.held = ledger.held /\ f.twice = FALSE
    BY <1>3, <1>4, <1>6, <2>2 DEF IsCall, Used, Obtained
  <2>4. l = arr.list
    BY <2>1, <2>2
  <2>5. ArrayEnd(f, "arrayadd", s.got, arr.list)
    BY <1>2, <2>1, <2>4
  <2>6. ArrayOK(f.array) /\ ListOK(f.array, arr.list) /\ f.held = Owned(f.array, arr.list)
    BY <1>10, <2>3
  <2> DEFINE l0 == arr.list
  <2>7. /\ ArrayEnd(f, "arrayadd", s.got, l0) /\ IsCall(f) /\ ArrayOK(f.array) /\ ListOK(f.array, l0)
        /\ f.held = Owned(f.array, l0) /\ f.twice = FALSE
    BY <2>3, <2>5, <2>6
  <2> HIDE DEF l0
  <2>8. QED BY ONLY <2>7, EndOK
<1>7. CASE s.got # NULL
  <2>1. OfKind("string", s.got) /\ s.got \notin ledger.held /\ s.held = ledger.held \cup {s.got}
    BY <1>3, <1>4, <1>7 DEF Obtained
  <2>2. ArrayOK(s.array) /\ Holds(s) /\ s.array = arr.array
    BY <1>3, <1>4, <1>7, <2>1 DEF Holds, ArrayInv
  <2>3. /\ IsCall(d) /\ d.twice = FALSE /\ d.err \in {0, -1} /\ ArrayOK(d.array) /\ Moves(s, d)
        /\ d.err # 0 => d.array = s.array /\ d.held = s.held
        /\ d.err = 0 => /\ d.array.block # NULL /\ d.array.count = s.array.count + 1
                        /\ d.array.slots[s.array.count + 1] = s.got
                        /\ \A i \in 1 .. s.array.count : d.array.slots[i] = s.array.slots[i]
    BY <1>3, <1>4, <2>2, AddFacts
  <2> HIDE DEF d
  <2>4. CASE d.err # 0
    <3> DEFINE f == Release(d, s.got)
    <3>1. e = f
      BY <1>5, <1>7, <2>4 DEF FreeUnadded
    <3>2. d.held = ledger.held \cup {s.got} /\ d.array = arr.array
      BY <2>1, <2>2, <2>3, <2>4
    <3>3. NULL \notin d.held
      BY <1>3, <1>7, <3>2 DEF Holds
    <3>4. /\ IsCall(f) /\ DOMAIN f = DOMAIN d /\ f.held = d.held \ {s.got}
          /\ \A x \in DOMAIN d \ {"held"} : f[x] = d[x]
      BY <2>3, <3>2, <3>3, ReleaseFacts
    <3> HIDE DEF f
    <3>5. f.array = arr.array /\ f.held = ledger.held /\ f.twice = FALSE /\ f.err # 0
      BY <2>1, <2>3, <2>4, <3>2, <3>4 DEF IsCall, Used
    <3>6. l = arr.list
      BY <3>1, <3>5
    <3>7. ArrayEnd(f, "arrayadd", s.got, arr.list)
      BY <1>2, <3>1, <3>6
    <3>8. ArrayOK(f.array) /\ ListOK(f.array, arr.list) /\ f.held = Owned(f.array, arr.list)
      BY <1>10, <3>5
    <3> DEFINE l0 == arr.list
    <3>9. /\ ArrayEnd(f, "arrayadd", s.got, l0) /\ IsCall(f) /\ ArrayOK(f.array) /\ ListOK(f.array, l0)
          /\ f.held = Owned(f.array, l0) /\ f.twice = FALSE
      BY <3>4, <3>5, <3>7, <3>8
    <3> HIDE DEF l0
    <3>10. QED BY ONLY <3>9, EndOK
  <2>5. CASE d.err = 0
    <3>1. e = d
      BY <1>5, <1>7, <2>5 DEF FreeUnadded
    <3> DEFINE t == Append(arr.list, s.got)
    <3>2. l = t
      BY <2>5, <3>1
    <3>3. s.got \notin Owned(arr.array, arr.list)
      BY <2>1 DEF ArrayInv
    <3>4. ListOK(d.array, t) /\ {t[i] : i \in DOMAIN t} = {arr.list[i] : i \in DOMAIN arr.list} \cup {s.got}
      <4> DEFINE a == arr.array
                 b == d.array
      <4>1. b.count = a.count + 1 /\ b.slots[a.count + 1] = s.got
            /\ \A i \in 1 .. a.count : b.slots[i] = a.slots[i]
        BY <2>2, <2>3, <2>5
      <4>2. b.slots[b.count] = s.got
        BY <4>1
      <4>3. ArrayOK(a) /\ ArrayOK(b) /\ ListOK(a, arr.list) /\ s.got \notin Owned(a, arr.list)
        BY <1>10, <2>3, <3>3
      <4> DEFINE r == s.got
                 l0 == arr.list
      <4>4. OfKind("string", r)
        BY <2>1
      <4> HIDE DEF a, b, r, l0
      <4>5. ListOK(b, Append(l0, r))
            /\ {Append(l0, r)[i] : i \in DOMAIN Append(l0, r)} = {l0[i] : i \in DOMAIN l0} \cup {r}
        <5>1. /\ ArrayOK(a) /\ ArrayOK(b) /\ ListOK(a, l0) /\ OfKind("string", r) /\ r \notin Owned(a, l0)
              /\ b.count = a.count + 1 /\ b.slots[b.count] = r
              /\ \A i \in 1 .. a.count : b.slots[i] = a.slots[i]
          BY <4>1, <4>2, <4>3, <4>4 DEF l0, r
        <5>2. QED BY ONLY <5>1, ListAdded
      <4>6. QED BY <4>5 DEF b, r, l0, t
    <3> HIDE DEF t, l
    <3>5. d.held = Owned(d.array, t)
      <4> DEFINE items == {arr.list[i] : i \in DOMAIN arr.list}
                 old == arr.array.block
                 new == d.array.block
      <4>1. \A r \in items : r # old \/ old = NULL
        <5>1. \A r \in items : OfKind("string", r)
          BY StringFacts DEF ArrayInv, ListOK
        <5>2. old = NULL \/ OfKind("array", old)
          BY DEF ArrayInv, ArrayOK
        <5>3. QED BY <5>1, <5>2, KindFacts
      <4>2. NULL \notin items
        BY StringFacts, NullFacts DEF ArrayInv, ListOK
      <4>3. s.got # old
        <5>1. old = NULL \/ OfKind("array", old)
          BY DEF ArrayInv, ArrayOK
        <5>2. QED BY <1>7, <2>1, <5>1, KindFacts
      <4>4. new # NULL
        BY <2>3, <2>5
      <4>5. s.held = ((({old} \cup items) \ {NULL}) \cup {s.got})
        BY <2>1 DEF ArrayInv, Owned
      <4>6. Owned(d.array, t) = ({new} \cup items \cup {s.got}) \ {NULL}
        BY <3>4 DEF Owned
      <4>7. (old = new /\ d.held = s.held) \/ d.held = (s.held \ {old}) \cup {new}
        BY <2>2, <2>3 DEF Moves
      <4> HIDE DEF items, old, new
      <4>8. QED BY <1>7, <4>1, <4>2, <4>3, <4>4, <4>5, <4>6, <4>7
    <3>6. QED BY <1>2, <2>3, <3>1, <3>2, <3>4, <3>5, EndOK
  <2>6. QED BY <2>4, <2>5
<1>11. QED BY <1>6, <1>7

(* The list without one of its strings. *)
LEMMA ListCut ==
    ASSUME NEW a, NEW b, ArrayOK(a), NEW l, ListOK(a, l), NEW k \in 1 .. a.count,
           b.count = a.count - 1, b.block = a.block, OfKind("array", b.block),
           \A i \in 1 .. a.count - 1 : b.slots[i] = IF i < k THEN a.slots[i] ELSE a.slots[i + 1]
    PROVE  ListOK(b, Without(l, k)) /\ Owned(b, Without(l, k)) = Owned(a, l) \ {l[k]}
<1> DEFINE n == a.count
           q(j) == IF j < k THEN j ELSE j + 1
           t == Without(l, k)
<1>1. n \in Nat /\ k \in Nat /\ n - 1 \in Nat
  BY DEF ArrayOK
<1>2. l \in Seq(Strings) /\ Len(l) = n /\ DOMAIN l = 1 .. n /\ l \in [1 .. n -> Strings]
  <2>1. l \in Seq(Strings) /\ Len(l) = n
    BY DEF ListOK
  <2>2. QED BY <2>1, LenProperties
<1>3. (\A i \in 1 .. n : l[i] = a.slots[i]) /\ \A i, j \in 1 .. n : l[i] = l[j] => i = j
  BY DEF ListOK
<1>4. \A j \in 1 .. n - 1 : q(j) \in 1 .. n /\ q(j) # k
  BY <1>1
<1>5. \A i, j \in 1 .. n - 1 : q(i) = q(j) => i = j
  BY <1>1
<1>6. \A i \in 1 .. n : i # k => \E j \in 1 .. n - 1 : q(j) = i
  <2> SUFFICES ASSUME NEW i \in 1 .. n, i # k PROVE \E j \in 1 .. n - 1 : q(j) = i
    OBVIOUS
  <2>1. CASE i < k
    <3>1. i \in 1 .. n - 1 /\ q(i) = i
      BY <1>1, <2>1
    <3>2. QED BY <3>1
  <2>2. CASE i > k
    <3>1. i - 1 \in 1 .. n - 1 /\ q(i - 1) = i
      BY <1>1, <2>2
    <3>2. QED BY <3>1
  <2>3. QED BY <1>1, <2>1, <2>2
<1>7. t = [j \in 1 .. n - 1 |-> l[q(j)]]
  <2>1. t = [j \in 1 .. Len(l) - 1 |-> IF j < k THEN l[j] ELSE l[j + 1]]
    BY DEF Without
  <2>2. \A j \in 1 .. n - 1 : l[q(j)] = IF j < k THEN l[j] ELSE l[j + 1]
    OBVIOUS
  <2>3. QED BY <1>2, <2>1, <2>2
<1>8. \A j \in 1 .. n - 1 : b.slots[j] = l[q(j)]
  BY <1>3, <1>4
<1> HIDE DEF t, q
<1>9. DOMAIN t = 1 .. n - 1 /\ t \in [1 .. n - 1 -> Strings] /\ \A j \in 1 .. n - 1 : t[j] = l[q(j)]
  BY <1>2, <1>4, <1>7
<1>10. t \in Seq(Strings) /\ Len(t) = n - 1
  BY <1>1, <1>9
<1>11. \A i, j \in 1 .. n - 1 : t[i] = t[j] => i = j
  BY <1>3, <1>4, <1>5, <1>9
<1>12. ListOK(b, t)
  <2>1. \A i \in 1 .. n - 1 : t[i] = b.slots[i]
    BY <1>8, <1>9
  <2>2. QED BY <1>10, <1>11, <2>1 DEF ListOK
<1>13. {t[i] : i \in 1 .. n - 1} = {l[i] : i \in 1 .. n} \ {l[k]}
  <2>1. ASSUME NEW i \in 1 .. n - 1 PROVE t[i] \in {l[j] : j \in 1 .. n} \ {l[k]}
    BY <1>3, <1>4, <1>9
  <2>2. ASSUME NEW i \in 1 .. n, l[i] # l[k] PROVE l[i] \in {t[j] : j \in 1 .. n - 1}
    <3>1. PICK j \in 1 .. n - 1 : q(j) = i
      BY <1>6, <2>2
    <3>2. l[i] = t[j]
      BY <1>9, <3>1
    <3>3. QED BY <3>2
  <2>3. QED BY <2>1, <2>2
<1>14. a.block # l[k]
  <2>1. OfKind("string", l[k])
    BY <1>2, StringFacts
  <2>2. QED BY <2>1, KindFacts
<1>15. Owned(b, t) = ({a.block} \cup ({l[i] : i \in 1 .. n} \ {l[k]})) \ {NULL}
  BY <1>9, <1>13 DEF Owned
<1>16. Owned(a, l) = ({a.block} \cup {l[i] : i \in 1 .. n}) \ {NULL}
  BY <1>2 DEF Owned
<1>17. Owned(b, t) = Owned(a, l) \ {l[k]}
  BY <1>14, <1>15, <1>16
<1>18. QED BY <1>12, <1>17 DEF t

LEMMA DeleteStep == ASSUME ArrayInv, DeleteString PROVE ArrayInv'
<1>1. PICK index \in 0 .. MaxEntries + 1 :
          LET d == arraydel(ArrayCall({}), index)
          IN  ArrayEnd(Release(d, d.got), "arraydel", <<index, d.got>>,
                       IF d.got = NULL THEN arr.list ELSE Without(arr.list, index))
  BY DEF DeleteString
<1> DEFINE c == ArrayCall({})
           d == arraydel(c, index)
           e == Release(d, d.got)
           a == arr.array
           l == arr.list
           t == IF d.got = NULL THEN l ELSE Without(l, index)
           g == <<index, d.got>>
           n == a.count
<1>2. ArrayEnd(e, "arraydel", g, t)
  BY <1>1
<1>3. IsCall(c) /\ c.array = a /\ c.held = ledger.held /\ c.twice = FALSE /\ Holds(c)
  BY CallOK
<1>4. ArrayOK(a) /\ ListOK(a, l) /\ ledger.held = Owned(a, l)
  BY DEF ArrayInv
<1> HIDE DEF c
<1>5. /\ IsCall(d) /\ DOMAIN d = DOMAIN c
      /\ \A x \in DOMAIN c \ {"got", "array"} : d[x] = c[x]
      /\ index \notin 1 .. n => d.got = NULL /\ d.array = a
      /\ index \in 1 .. n =>
            /\ d.got = a.slots[index] /\ ArrayOK(d.array)
            /\ d.array.block = a.block /\ d.array.count = n - 1
            /\ \A i \in 1 .. n - 1 : d.array.slots[i] = IF i < index THEN a.slots[i] ELSE a.slots[i + 1]
  <2>1. ArrayOK(c.array)
    BY <1>3, <1>4
  <2>2. QED BY <1>3, <2>1, DelFacts
<1>6. d.held = Owned(a, l) /\ d.twice = FALSE
  BY <1>3, <1>4, <1>5 DEF IsCall, Used
<1>7. d.held = ledger.held /\ NULL \notin d.held
  BY <1>3, <1>4, <1>6 DEF Holds
<1> HIDE DEF d, g, a
<1>8. CASE index \notin 1 .. n
  <2>1. d.got = NULL /\ d.array = a
    BY <1>5, <1>8
  <2>2. e = d /\ t = l
    BY <2>1 DEF Release
  <2> HIDE DEF e, t, l
  <2>3. /\ ArrayEnd(d, "arraydel", g, l) /\ IsCall(d) /\ ArrayOK(d.array) /\ ListOK(d.array, l)
        /\ d.held = Owned(d.array, l) /\ d.twice = FALSE
    BY <1>2, <1>4, <1>5, <1>6, <2>1, <2>2
  <2>4. QED BY ONLY <2>3, EndOK
<1>9. CASE index \in 1 .. n
  <2>1. d.got = l[index] /\ OfKind("string", d.got)
    <3>1. d.got = l[index]
      BY <1>4, <1>5, <1>9 DEF ListOK
    <3>2. l \in [1 .. n -> Strings]
      BY <1>4, LenProperties DEF ListOK
    <3>3. QED BY <1>9, <3>1, <3>2, StringFacts
  <2>2. d.got # NULL /\ d.got \in d.held
    <3>1. d.got # NULL
      BY <2>1, NullFacts
    <3>2. index \in DOMAIN l
      BY <1>4, <1>9, LenProperties DEF ListOK
    <3>3. QED BY <1>6, <2>1, <3>1, <3>2 DEF Owned
  <2>3. t = Without(l, index)
    BY <2>2
  <2>4. /\ IsCall(e) /\ DOMAIN e = DOMAIN d /\ e.held = d.held \ {d.got}
        /\ \A x \in DOMAIN d \ {"held"} : e[x] = d[x]
    BY <1>5, <1>7, <2>2, ReleaseFacts
  <2> HIDE DEF e, t, l
  <2>5. e.array = d.array /\ e.twice = FALSE
    BY <1>5, <1>6, <2>4 DEF IsCall, Used
  <2>6. OfKind("array", a.block)
    <3>1. n # 0
      BY <1>9
    <3>2. a.block # NULL
      BY <1>4, <3>1, EmptyOK DEF ArrayOK
    <3>3. QED BY <1>4, <3>2 DEF ArrayOK
  <2> DEFINE b == d.array
  <2>7. /\ ArrayOK(a) /\ ListOK(a, l) /\ index \in 1 .. a.count
        /\ b.count = a.count - 1 /\ b.block = a.block /\ OfKind("array", b.block)
        /\ \A i \in 1 .. a.count - 1 : b.slots[i] = IF i < index THEN a.slots[i] ELSE a.slots[i + 1]
    BY <1>4, <1>5, <1>9, <2>6
  <2> HIDE DEF b
  <2>8. ListOK(b, Without(l, index)) /\ Owned(b, Without(l, index)) = Owned(a, l) \ {l[index]}
    BY ONLY <2>7, ListCut
  <2>9. /\ ArrayEnd(e, "arraydel", g, t) /\ IsCall(e) /\ ArrayOK(e.array) /\ ListOK(e.array, t)
        /\ e.held = Owned(e.array, t) /\ e.twice = FALSE
    BY <1>2, <1>5, <1>6, <1>9, <2>1, <2>3, <2>4, <2>5, <2>8 DEF b
  <2>10. QED BY ONLY <2>9, EndOK
<1>10. QED BY <1>8, <1>9

(* The entries of the array are the list. *)
LEMMA ItemsFacts ==
    ASSUME NEW c, NEW l, ArrayOK(c.array), ListOK(c.array, l)
    PROVE  Items(c) = l /\ DOMAIN l = 1 .. c.array.count /\ l \in [1 .. c.array.count -> Strings]
<1>1. l \in [1 .. c.array.count -> Strings] /\ DOMAIN l = 1 .. c.array.count
  BY LenProperties DEF ListOK
<1>2. \A i \in 1 .. c.array.count : l[i] = c.array.slots[i]
  BY DEF ListOK
<1>3. QED BY <1>1, <1>2 DEF Items

LEMMA LookStep == ASSUME ArrayInv, LookAtStrings PROVE ArrayInv'
<1>1. PICK index \in 0 .. MaxEntries + 1 :
          ArrayEnd(ArrayCall({}), "arrayget",
                   [index |-> index, got |-> arrayget(ArrayCall({}), index).got,
                    each |-> arrayeach(ArrayCall({}), index)], arr.list)
  BY DEF LookAtStrings
<1> DEFINE c == ArrayCall({})
           a == arr.array
           l == arr.list
           n == a.count
           found == arrayget(c, index).got
           each == arrayeach(c, index)
           g == [index |-> index, got |-> found, each |-> each]
<1>2. ArrayEnd(c, "arrayget", g, l)
  BY <1>1
<1>3. IsCall(c) /\ c.array = a /\ c.held = ledger.held /\ c.twice = FALSE /\ Holds(c)
  BY CallOK
<1>4. ArrayOK(a) /\ ListOK(a, l) /\ ledger.held = Owned(a, l)
  BY DEF ArrayInv
<1> HIDE DEF c
<1>5. n \in Nat /\ Items(c) = l /\ DOMAIN l = 1 .. n /\ Len(l) = n /\ \A i \in 1 .. n : l[i] = a.slots[i]
  <2>1. ArrayOK(c.array) /\ ListOK(c.array, l)
    BY <1>3, <1>4
  <2>2. Items(c) = l /\ DOMAIN l = 1 .. c.array.count
    BY <2>1, ItemsFacts
  <2>3. n \in Nat
    BY <1>4 DEF ArrayOK
  <2>4. Len(l) = n /\ \A i \in 1 .. n : l[i] = a.slots[i]
    BY <1>4 DEF ListOK
  <2>5. QED BY <1>3, <2>2, <2>3, <2>4
<1>6. found = IF index \in 1 .. n THEN l[index] ELSE NULL
  <2>1. found = IF index \in 1 .. n THEN c.array.slots[index] ELSE NULL
    BY <1>3 DEF arrayget, arraycount, IsCall, Used
  <2>2. QED BY <1>3, <1>5, <2>1
<1>7. \E k \in 0 .. n : each = SubSeq(l, 1, k)
  <2> DEFINE k == IF index \in 1 .. n THEN index ELSE n
  <2>1. each = SubSeq(l, 1, k)
    BY <1>3, <1>5 DEF arrayeach, arraycount
  <2>2. k \in 0 .. n
    BY <1>5
  <2> HIDE DEF k
  <2>3. QED BY <2>1, <2>2
<1>8. g.index = index /\ g.got = found /\ g.each = each
  OBVIOUS
<1> HIDE DEF g, found, each
<1>9. arr'.list = l /\ result'.op = "arrayget" /\ result'.got = g
  BY <1>2 DEF ArrayEnd, End
<1> HIDE DEF l
<1>10. LookIsTrue'
  BY <1>5, <1>6, <1>7, <1>8, <1>9 DEF LookIsTrue
<1>11. /\ ArrayEnd(c, "arrayget", g, l) /\ IsCall(c) /\ ArrayOK(c.array) /\ ListOK(c.array, l)
       /\ c.held = Owned(c.array, l) /\ c.twice = FALSE
  BY <1>2, <1>3, <1>4
<1>12. QED BY ONLY <1>10, <1>11, EndOK

LEMMA FreeStep == ASSUME ArrayInv, FreeStrings PROVE ArrayInv'
<1> DEFINE c == ArrayCall({})
           a == arr.array
           l == arr.list
           n == a.count
           d == ReleaseAll(c, Items(c))
           e == arrayfree(d)
<1>1. ArrayEnd(e, "arrayfree", NULL, <<>>)
  BY DEF FreeStrings
<1>2. IsCall(c) /\ c.array = a /\ c.held = ledger.held /\ c.twice = FALSE /\ Holds(c)
  BY CallOK
<1>3. ArrayOK(a) /\ ListOK(a, l) /\ ledger.held = Owned(a, l)
  BY DEF ArrayInv
<1> HIDE DEF c
<1>4. Items(c) = l /\ DOMAIN l = 1 .. n /\ l \in [1 .. n -> Strings] /\ Len(l) = n /\ n \in Nat
  <2>1. ArrayOK(c.array) /\ ListOK(c.array, l)
    BY <1>2, <1>3
  <2>2. Items(c) = l /\ DOMAIN l = 1 .. c.array.count /\ l \in [1 .. c.array.count -> Strings]
    BY <2>1, ItemsFacts
  <2>3. Len(l) = n /\ n \in Nat
    BY <1>3 DEF ListOK, ArrayOK
  <2>4. QED BY <1>2, <2>2, <2>3
<1>5. \A i \in 1 .. n : OfKind("string", l[i]) /\ l[i] # NULL /\ l[i] # a.block
  <2>1. \A i \in 1 .. n : OfKind("string", l[i])
    BY <1>4, StringFacts
  <2>2. a.block = NULL \/ OfKind("array", a.block)
    BY <1>3 DEF ArrayOK
  <2>3. QED BY <2>1, <2>2, KindFacts, NullFacts
<1>6. c.held = ({a.block} \cup {l[i] : i \in 1 .. n}) \ {NULL}
  BY <1>2, <1>3, <1>4 DEF Owned
<1>7. \A i, j \in 1 .. n : l[i] = l[j] => i = j
  BY <1>3 DEF ListOK
<1> HIDE DEF d, l, n, a
<1>8. /\ IsCall(d) /\ DOMAIN d = DOMAIN c
      /\ d.held = c.held \ {l[i] : i \in 1 .. n}
      /\ \A x \in DOMAIN c \ {"held"} : d[x] = c[x]
  <2>1. /\ n \in Nat /\ Len(l) = n /\ NULL \notin c.held
        /\ \A i \in 1 .. n : l[i] = NULL \/ l[i] \in c.held
        /\ \A i, j \in 1 .. n : l[i] = l[j] => i = j \/ l[i] = NULL
    BY <1>4, <1>5, <1>6, <1>7
  <2>2. d = ReleaseAll(c, l)
    BY <1>4 DEF d
  <2> HIDE DEF d
  <2>3. QED BY ONLY <1>2, <2>1, <2>2, ReleaseAllFacts
<1>9. d.held = {a.block} \ {NULL} /\ d.array = a /\ d.twice = FALSE
  BY <1>2, <1>5, <1>6, <1>8 DEF IsCall, Used
<1>10. Holds(d)
  BY <1>9 DEF Holds
<1>11. /\ IsCall(e) /\ DOMAIN e = DOMAIN d
       /\ \A x \in DOMAIN d \ {"held", "array", "err"} : e[x] = d[x]
       /\ e.held = d.held \ {d.array.block}
       /\ e.array = IF d.array.block = NULL THEN d.array ELSE NoArray
  BY <1>8, <1>10, FreeFacts
<1> HIDE DEF e
<1>12. e.array = NoArray /\ e.held = {} /\ e.twice = FALSE
  <2>1. a.block = NULL => a = NoArray
    BY <1>3 DEF ArrayOK, a
  <2>2. QED BY <1>8, <1>9, <1>11, <2>1 DEF IsCall, Used
<1>13. /\ ArrayEnd(e, "arrayfree", NULL, <<>>) /\ IsCall(e) /\ ArrayOK(e.array) /\ ListOK(e.array, <<>>)
       /\ e.held = Owned(e.array, <<>>) /\ e.twice = FALSE
  BY <1>1, <1>11, <1>12, EmptyOK, EmptyList
<1>14. QED BY ONLY <1>13, EndOK

LEMMA ArrayStart == LedgerInit /\ ArrayInit => ArrayInv
<1> SUFFICES ASSUME LedgerInit, ArrayInit PROVE ArrayInv
  OBVIOUS
<1>1. arr.array = NoArray /\ arr.list = <<>> /\ ledger.held = {} /\ ledger.twice = FALSE /\ result = Seen
  BY DEF LedgerInit, ArrayInit
<1>2. IsFiniteSet({})
  BY FS_EmptySet
<1>3. LookIsTrue
  BY <1>1 DEF LookIsTrue, Seen
<1>4. QED BY <1>1, <1>2, <1>3, EmptyOK, EmptyList DEF ArrayInv

LEMMA SeeStep ==
    ASSUME ArrayInv, (See /\ UNCHANGED arr) \/ UNCHANGED <<ledger, result, arr>>
    PROVE  ArrayInv'
<1>1. ledger' = ledger /\ arr' = arr /\ (result' = Seen \/ result' = result)
  BY DEF See
<1>2. LookIsTrue'
  BY <1>1 DEF LookIsTrue, ArrayInv, Seen
<1>3. QED BY <1>1, <1>2 DEF ArrayInv

(* ArrayInv holds in every state of the caller's array. *)
THEOREM ArrayInvAlways == ArraySpec => []ArrayInv
<1>1. LedgerInit /\ ArrayInit => ArrayInv
  BY ArrayStart
<1>2. ArrayInv /\ [ArrayNext]_<<ledger, result, arr>> => ArrayInv'
  BY NewStep, AddStep, DeleteStep, LookStep, FreeStep, SeeStep DEF ArrayNext
<1>3. QED BY <1>1, <1>2, PTL DEF ArraySpec

(* The array is the list its caller built, for arrays of any length. *)
THEOREM ArrayIsListAlways == ArraySpec => []ArrayIsList
<1>1. ArrayInv => ArrayIsList
  <2> SUFFICES ASSUME ArrayInv PROVE ArrayIsList
    OBVIOUS
  <2>1. ArrayOK(arr.array) /\ ListOK(arr.array, arr.list) /\ LookIsTrue
    BY DEF ArrayInv
  <2>2. Items(arr) = arr.list
    BY <2>1, ItemsFacts
  <2>3. Len(arr.array.slots) = arr.array.size
    <3> DEFINE s == arr.array.slots
               m == arr.array.size
               S == {s[i] : i \in 1 .. m}
    <3>1. m \in Nat /\ s = [i \in 1 .. m |-> s[i]]
      BY <2>1 DEF ArrayOK, Slots
    <3> HIDE DEF s, m
    <3>2. s \in [1 .. m -> S]
      BY <3>1
    <3> HIDE DEF S
    <3>3. Len(s) = m
      BY <3>1, <3>2
    <3>4. QED BY <3>3 DEF s, m
  <2>4. /\ arr.array.count <= arr.array.size
        /\ \A i \in arr.array.count + 1 .. arr.array.size : arr.array.slots[i] = NULL
    BY <2>1 DEF ArrayOK
  <2>5. QED BY <2>1, <2>2, <2>3, <2>4 DEF ArrayIsList
<1>2. QED BY <1>1, ArrayInvAlways, PTL

(* What is held is the array's block and the strings in it, whatever was   *)
(* refused, and nothing is given back twice.                               *)
THEOREM ArrayLosesNothing == ArraySpec => [](ledger.held = ArrayOwns /\ ~ ledger.twice)
<1>1. ArrayInv => ledger.held = ArrayOwns /\ ~ ledger.twice
  BY DEF ArrayInv, Owned, ArrayOwns
<1>2. QED BY <1>1, ArrayInvAlways, PTL
=============================================================================
