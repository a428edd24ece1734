--------------------------- MODULE ServiceProofs ----------------------------
(***************************************************************************)
(* What is proved of the cleanup functions of a thread, of the variables   *)
(* of a program and of a VSAM handle, whatever storage was refused on the  *)
(* way.                                                                    *)
(*                                                                         *)
(* The cleanup functions, for every number of functions a thread pushes    *)
(* and every size its arrays grow by: a function is popped in the reverse  *)
(* order of the pushes, and with its own argument; the end of a thread     *)
(* misses none but those pushed while it runs.                             *)
(*                                                                         *)
(* The variables of a program, for any names, values and DDs: each has the *)
(* value it was given last, and nobody looks at them while the DD is read. *)
(*                                                                         *)
(* The VSAM handle, for clusters of any number of records and any          *)
(* parameters of an open: after every call the options of the RPL are      *)
(* those of the open, the indicators tell what happened, each answer is of *)
(* its own request, and an insertion replaces no record.                   *)
(*                                                                         *)
(* In the first two no block is lost or freed twice.  The proofs rest on   *)
(* what ArrayProofs says of the array functions.                           *)
(***************************************************************************)
EXTENDS CleanupStack, Environment, VsamFile, ArrayProofs

----------------------------------------------------------------------------
(* The cleanup functions.  A call works on the two arrays in turn, through *)
(* its field array.                                                        *)

(* A call of this module: it has the two arrays and the function popped. *)
StackFields == {"push", "args", "func"}
IsStackCall(c) == IsCall(c) /\ StackFields \subseteq DOMAIN c

(* Its arrays are in order, what it holds is their blocks, and the second  *)
(* array has none before the first has one.                                *)
Pair(c) == {c.push.block, c.args.block} \ {NULL}
PairOK(c) ==
    /\ IsStackCall(c) /\ ArrayOK(c.push) /\ ArrayOK(c.args)
    /\ c.held = Pair(c) /\ c.twice = FALSE
    /\ c.push.block = c.args.block => c.push.block = NULL
    /\ c.push.block = NULL => c.args.block = NULL

LEMMA UsingFacts ==
    ASSUME NEW c, IsStackCall(c), NEW which \in {"push", "args"}
    PROVE  LET d == Using(c, which)
           IN  /\ IsStackCall(d) /\ DOMAIN d = DOMAIN c /\ d.array = c[which]
               /\ \A x \in DOMAIN c \ {"array"} : d[x] = c[x]
<1>1. Using(c, which) = [c EXCEPT !.array = c[which]]
  BY DEF Using
<1>2. IsCall(c)
  BY DEF IsStackCall
<1> DEFINE d == [c EXCEPT !.array = c[which]]
<1>3. /\ IsCall(d) /\ DOMAIN d = DOMAIN c /\ d.array = c[which]
      /\ \A x \in DOMAIN c \ {"array"} : d[x] = c[x]
  BY <1>2, SetArray
<1> HIDE DEF d
<1>4. IsStackCall(d)
  BY <1>3 DEF IsStackCall
<1>5. QED BY <1>1, <1>3, <1>4 DEF d

LEMMA KeepingFacts ==
    ASSUME NEW c, IsStackCall(c), NEW which \in {"push", "args"}
    PROVE  LET d == Keeping(c, which)
           IN  /\ IsStackCall(d) /\ DOMAIN d = DOMAIN c /\ d[which] = c.array
               /\ \A x \in DOMAIN c \ {which} : d[x] = c[x]
<1> DEFINE d == [c EXCEPT ![which] = c.array]
<1>1. Keeping(c, which) = d
  BY DEF Keeping
<1>2. DOMAIN d = DOMAIN c /\ d = [x \in DOMAIN d |-> d[x]] /\ d[which] = c.array
      /\ \A x \in DOMAIN c \ {which} : d[x] = c[x]
  BY DEF IsStackCall, IsCall, StackFields
<1> HIDE DEF d
<1>3. which # "held" /\ "held" \in DOMAIN c
  BY DEF IsStackCall, IsCall, Used
<1>4. IsStackCall(d)
  BY <1>2, <1>3 DEF IsStackCall, IsCall
<1>5. QED BY <1>1, <1>2, <1>4

(* Adding to one of the two arrays. *)
AddTo(c, which, item) == Keeping(arrayadd(Using(c, which), item), which)

LEMMA AddToFacts ==
    ASSUME NEW c, PairOK(c), NEW which \in {"push", "args"}, NEW item,
           which = "args" => c.push.block # NULL
    PROVE  LET d == AddTo(c, which, item)
               n == c[which].count
           IN  /\ PairOK(d) /\ d.err \in {0, -1} /\ d.func = c.func
               /\ \A w \in {"push", "args"} \ {which} : d[w] = c[w]
               /\ d.err # 0 => d[which] = c[which]
               /\ d.err = 0 => /\ d[which].block # NULL /\ d[which].count = n + 1
                               /\ d[which].slots[n + 1] = item
                               /\ \A i \in 1 .. n : d[which].slots[i] = c[which].slots[i]
<1> DEFINE u == Using(c, which)
           v == arrayadd(u, item)
           d == Keeping(v, which)
           other == IF which = "push" THEN "args" ELSE "push"
           n == c[which].count
<1>1. IsStackCall(c) /\ ArrayOK(c[which]) /\ ArrayOK(c[other])
  BY DEF PairOK
<1>2. c.held = {c[which].block, c[other].block} \ {NULL}
  BY DEF PairOK, Pair
<1>3. /\ IsStackCall(u) /\ DOMAIN u = DOMAIN c /\ u.array = c[which]
      /\ \A x \in DOMAIN c \ {"array"} : u[x] = c[x]
  BY <1>1, UsingFacts
<1> HIDE DEF u
<1>4. u.held = c.held /\ u.twice = FALSE /\ u[other] = c[other] /\ u[which] = c[which] /\ u.func = c.func
  BY <1>1, <1>3 DEF IsStackCall, StackFields, IsCall, Used, PairOK
<1>5. Holds(u)
  BY <1>2, <1>3, <1>4 DEF Holds
<1>6. /\ IsCall(v) /\ Frame(u, v) /\ v.twice = u.twice /\ v.err \in {0, -1}
      /\ ArrayOK(v.array) /\ Moves(u, v)
      /\ v.err # 0 => v.array = u.array /\ v.held = u.held
      /\ v.err = 0 => /\ v.array.block # NULL /\ v.array.count = n + 1
                      /\ v.array.slots[n + 1] = item
                      /\ \A i \in 1 .. n : v.array.slots[i] = u.array.slots[i]
  <2>1. IsCall(u) /\ ArrayOK(u.array)
    BY <1>1, <1>3 DEF IsStackCall
  <2>2. n = u.array.count
    BY <1>3
  <2> HIDE DEF n
  <2>3. QED BY ONLY <1>5, <2>1, <2>2, AddFacts DEF v
<1> HIDE DEF v
<1>7. IsStackCall(v) /\ v[other] = c[other] /\ v[which] = c[which] /\ v.func = c.func
  BY <1>3, <1>4, <1>6 DEF IsStackCall, StackFields, Frame, Used
<1>8. /\ IsStackCall(d) /\ DOMAIN d = DOMAIN v /\ d[which] = v.array
      /\ \A x \in DOMAIN v \ {which} : d[x] = v[x]
  BY <1>7, KeepingFacts
<1> HIDE DEF d
<1>9. /\ d[other] = c[other] /\ d.func = c.func /\ d.held = v.held /\ d.twice = FALSE /\ d.err = v.err
  BY <1>4, <1>6, <1>7, <1>8 DEF IsStackCall, StackFields, IsCall, Used
<1>10. PairOK(d)
  <2>1. d.held = {d[which].block, d[other].block} \ {NULL}
        /\ (d[which].block = d[other].block => d[which].block = NULL)
        /\ (c[which].block # NULL => d[which].block # NULL)
    <3>1. c[which].block = c[other].block => c[which].block = NULL
      BY DEF PairOK
    <3>2. CASE v.array.block = u.array.block /\ v.held = u.held
      BY <1>2, <1>3, <1>4, <1>8, <1>9, <3>1, <3>2
    <3>3. CASE /\ v.array.block # NULL /\ v.array.block \notin u.held
               /\ v.held = (u.held \ {u.array.block}) \cup {v.array.block}
      BY <1>2, <1>3, <1>4, <1>8, <1>9, <3>1, <3>3
    <3>4. QED BY <1>6, <3>2, <3>3 DEF Moves
  <2>2. ArrayOK(d.push) /\ ArrayOK(d.args)
    BY <1>1, <1>6, <1>8, <1>9
  <2>3. d.held = Pair(d) /\ (d.push.block = d.args.block => d.push.block = NULL)
    BY <2>1 DEF Pair
  <2>4. d.push.block = NULL => d.args.block = NULL
    BY <1>9, <2>1 DEF PairOK
  <2>5. QED BY <1>8, <1>9, <2>2, <2>3, <2>4 DEF PairOK
<1>11. QED BY <1>3, <1>6, <1>8, <1>9, <1>10 DEF AddTo, d, v, u

(* Deleting the last entry of one of the two arrays. *)
DelLast(c, which, k) == Keeping(arraydel(Using(c, which), k), which)

LEMMA DelLastFacts ==
    ASSUME NEW c, PairOK(c), NEW which \in {"push", "args"}, NEW k, k = c[which].count
    PROVE  LET d == DelLast(c, which, k)
           IN  /\ PairOK(d) /\ d.err = c.err /\ d.func = c.func
               /\ \A w \in {"push", "args"} \ {which} : d[w] = c[w]
               /\ k = 0 => d.got = NULL /\ d[which] = c[which]
               /\ k # 0 => /\ d.got = c[which].slots[k] /\ d[which].count = k - 1
                           /\ \A i \in 1 .. k - 1 : d[which].slots[i] = c[which].slots[i]
<1> DEFINE u == Using(c, which)
           v == arraydel(u, k)
           d == Keeping(v, which)
           other == IF which = "push" THEN "args" ELSE "push"
<1>1. IsStackCall(c) /\ ArrayOK(c[which]) /\ ArrayOK(c[other])
  BY DEF PairOK
<1>2. /\ IsStackCall(u) /\ DOMAIN u = DOMAIN c /\ u.array = c[which]
      /\ \A x \in DOMAIN c \ {"array"} : u[x] = c[x]
  BY <1>1, UsingFacts
<1> HIDE DEF u
<1>3. /\ u.held = c.held /\ u.twice = FALSE /\ u.err = c.err /\ u.func = c.func
      /\ u[other] = c[other] /\ u[which] = c[which]
  BY <1>1, <1>2 DEF IsStackCall, StackFields, IsCall, Used, PairOK
<1>4. k \in Nat
  BY <1>1 DEF ArrayOK
<1>5. /\ IsCall(v) /\ DOMAIN v = DOMAIN u
      /\ \A x \in DOMAIN u \ {"got", "array"} : v[x] = u[x]
      /\ k \notin 1 .. k => v.got = NULL /\ v.array = u.array
      /\ k \in 1 .. k =>
            /\ v.got = u.array.slots[k] /\ ArrayOK(v.array)
            /\ v.array.block = u.array.block /\ v.array.count = k - 1
            /\ \A i \in 1 .. k - 1 : v.array.slots[i] =
                  IF i < k THEN u.array.slots[i] ELSE u.array.slots[i + 1]
  <2>1. IsCall(u) /\ ArrayOK(u.array) /\ k = u.array.count
    BY <1>1, <1>2 DEF IsStackCall
  <2>2. QED BY ONLY <2>1, DelFacts DEF v
<1> HIDE DEF v
<1>6. /\ k = 0 => v.got = NULL /\ v.array = u.array
      /\ k # 0 => /\ v.got = u.array.slots[k] /\ v.array.count = k - 1
                  /\ \A i \in 1 .. k - 1 : v.array.slots[i] = u.array.slots[i]
      /\ ArrayOK(v.array) /\ v.array.block = u.array.block
  <2>1. \A i \in 1 .. k - 1 : i < k
    BY <1>4
  <2>2. k # 0 => k \in 1 .. k
    BY <1>4
  <2>3. k = 0 => k \notin 1 .. k
    BY <1>4
  <2>4. ArrayOK(u.array)
    BY <1>1, <1>2
  <2>5. QED BY <1>5, <2>1, <2>2, <2>3, <2>4
<1>7. IsStackCall(v)
  BY <1>2, <1>5 DEF IsStackCall, StackFields
<1>8. /\ v.held = c.held /\ v.twice = FALSE /\ v.err = c.err /\ v.func = c.func
      /\ v[other] = c[other]
  BY <1>2, <1>3, <1>5 DEF IsStackCall, StackFields, IsCall, Used
<1>9. /\ IsStackCall(d) /\ DOMAIN d = DOMAIN v /\ d[which] = v.array
      /\ \A x \in DOMAIN v \ {which} : d[x] = v[x]
  BY <1>7, KeepingFacts
<1> HIDE DEF d
<1>10. /\ d[other] = c[other] /\ d.func = c.func /\ d.held = c.held /\ d.twice = FALSE /\ d.err = c.err
       /\ d.got = v.got
  BY <1>7, <1>8, <1>9 DEF IsStackCall, StackFields, IsCall, Used
<1>11. PairOK(d)
  <2>1. d[which].block = c[which].block
    BY <1>2, <1>6, <1>9
  <2>2. d.push.block = c.push.block /\ d.args.block = c.args.block
    BY <1>10, <2>1
  <2>3. ArrayOK(d.push) /\ ArrayOK(d.args)
    BY <1>1, <1>6, <1>9, <1>10
  <2>4. QED BY <1>9, <1>10, <2>2, <2>3 DEF PairOK, Pair
<1>12. QED BY <1>2, <1>6, <1>9, <1>10, <1>11 DEF DelLast, d, v, u

(* The two arrays hold the functions and the arguments of due. *)
Stacked(c, due) ==
    /\ due \in Seq(Nat) /\ c.push.count = Len(due) /\ c.args.count = Len(due)
    /\ \A i \in 1 .. Len(due) : c.push.slots[i] = Func(due[i]) /\ c.args.slots[i] = Arg(due[i])

(* cthread_push(): both or none. *)
LEMMA PushedFacts ==
    ASSUME NEW c, PairOK(c), NEW due, Stacked(c, due), NEW n \in Nat
    PROVE  LET d == Pushed(c, n)
           IN  /\ PairOK(d)
               /\ d.err = 0 => Stacked(d, Append(due, n))
               /\ d.err # 0 => Stacked(d, due)
<1> DEFINE f == AddTo(c, "push", Func(n))
           g == AddTo(f, "args", Arg(n))
           h == DelLast(g, "push", g.push.count)
           d == Pushed(c, n)
           k == Len(due)
<1>1. d = IF f.err # 0 THEN f ELSE IF g.err = 0 THEN g ELSE h
  BY DEF Pushed, PushArg, Paired, AddTo, DelLast
<1>2. k \in Nat /\ due \in Seq(Nat) /\ c.push.count = k /\ c.args.count = k
      /\ \A i \in 1 .. k : c.push.slots[i] = Func(due[i]) /\ c.args.slots[i] = Arg(due[i])
  BY DEF Stacked
<1>3. Append(due, n) \in Seq(Nat) /\ Len(Append(due, n)) = k + 1 /\ Append(due, n)[k + 1] = n
      /\ \A i \in 1 .. k : Append(due, n)[i] = due[i]
  BY <1>2
<1> HIDE DEF d, k
<1>4. /\ PairOK(f) /\ f.err \in {0, -1} /\ f.args = c.args
      /\ f.err # 0 => f.push = c.push
      /\ f.err = 0 => /\ f.push.block # NULL /\ f.push.count = k + 1 /\ f.push.slots[k + 1] = Func(n)
                      /\ \A i \in 1 .. k : f.push.slots[i] = c.push.slots[i]
  <2>1. "push" \in {"push", "args"} /\ ("push" = "args" => c.push.block # NULL)
    OBVIOUS
  <2>2. QED BY <1>2, <2>1, AddToFacts
<1> HIDE DEF f
<1>5. CASE f.err # 0
  <2>1. d = f /\ f.push = c.push /\ f.args = c.args
    BY <1>1, <1>4, <1>5
  <2>2. Stacked(f, due)
    BY <2>1 DEF Stacked
  <2>3. QED BY <1>4, <1>5, <2>1, <2>2 DEF d
<1>6. CASE f.err = 0
  <2>1. /\ PairOK(g) /\ g.err \in {0, -1} /\ g.push = f.push
        /\ g.err # 0 => g.args = f.args
        /\ g.err = 0 => /\ g.args.count = k + 1 /\ g.args.slots[k + 1] = Arg(n)
                        /\ \A i \in 1 .. k : g.args.slots[i] = f.args.slots[i]
    <3>1. "args" \in {"push", "args"} /\ ("args" = "args" => f.push.block # NULL)
      BY <1>4, <1>6
    <3>2. f.args.count = k
      BY <1>2, <1>4
    <3>3. QED BY <1>4, <3>1, <3>2, AddToFacts
  <2> HIDE DEF g
  <2>2. CASE g.err = 0
    <3>1. \A i \in 1 .. k + 1 : i \in 1 .. k \/ i = k + 1
      BY <1>2
    <3>2. \A i \in 1 .. k + 1 : g.push.slots[i] = Func(Append(due, n)[i]) /\ g.args.slots[i] = Arg(Append(due, n)[i])
      BY <1>2, <1>3, <1>4, <1>6, <2>1, <2>2, <3>1
    <3>3. g.push.count = k + 1 /\ g.args.count = k + 1 /\ d = g
      BY <1>1, <1>4, <1>6, <2>1, <2>2
    <3>4. Stacked(g, Append(due, n))
      BY <1>3, <3>2, <3>3 DEF Stacked
    <3>5. QED BY <2>1, <2>2, <3>3, <3>4 DEF d
  <2>3. CASE g.err # 0
    <3>1. d = h
      BY <1>1, <1>6, <2>3
    <3>2. k + 1 # 0 /\ k + 1 - 1 = k
      BY <1>2
    <3>3. /\ PairOK(h) /\ h.err = g.err /\ h.args = g.args
          /\ h.push.count = k /\ \A i \in 1 .. k : h.push.slots[i] = g.push.slots[i]
      <4>1. g.push.count = k + 1
        BY <1>4, <1>6, <2>1
      <4>2. "push" \in {"push", "args"}
        OBVIOUS
      <4> DEFINE m == g.push.count
      <4>3. /\ PairOK(h) /\ h.err = g.err /\ h.args = g.args
            /\ m # 0 => h.push.count = m - 1 /\ \A i \in 1 .. m - 1 : h.push.slots[i] = g.push.slots[i]
        BY <2>1, <4>2, DelLastFacts
      <4> HIDE DEF h
      <4>4. m # 0 /\ m - 1 = k
        BY <1>2, <3>2, <4>1
      <4> HIDE DEF m
      <4>5. QED BY <4>3, <4>4
    <3> HIDE DEF h
    <3>4. h.args = c.args /\ \A i \in 1 .. k : h.push.slots[i] = c.push.slots[i]
      BY <1>4, <1>6, <2>1, <2>3, <3>3
    <3>5. Stacked(h, due)
      <4>1. h.push.count = c.push.count /\ h.args = c.args
        BY <1>2, <3>3, <3>4
      <4>2. QED BY <3>4, <4>1 DEF Stacked, k
    <3>6. QED BY <2>3, <3>1, <3>3, <3>5 DEF d
  <2>4. QED BY <2>2, <2>3
<1>7. QED BY <1>5, <1>6 DEF d

(* The last of a sequence taken away. *)
LEMMA WithoutLast ==
    ASSUME NEW s \in Seq(Nat), NEW k, k = Len(s), k # 0
    PROVE  LET t == Without(s, k)
           IN  t \in Seq(Nat) /\ Len(t) = k - 1 /\ \A i \in 1 .. k - 1 : t[i] = s[i]
<1> DEFINE t == Without(s, k)
<1>1. k \in Nat /\ k - 1 \in Nat /\ s \in [1 .. k -> Nat]
  BY LenProperties
<1>2. t = [j \in 1 .. k - 1 |-> s[j]]
  <2>1. t = [j \in 1 .. k - 1 |-> IF j < k THEN s[j] ELSE s[j + 1]]
    BY DEF Without
  <2>2. \A j \in 1 .. k - 1 : j < k
    BY <1>1
  <2>3. QED BY <2>1, <2>2
<1> HIDE DEF t
<1>3. \A j \in 1 .. k - 1 : s[j] \in Nat
  BY <1>1
<1>4. t \in [1 .. k - 1 -> Nat]
  BY <1>2, <1>3
<1>5. t \in Seq(Nat) /\ Len(t) = k - 1
  BY <1>1, <1>4
<1>6. QED BY <1>2, <1>5 DEF t

(* The names of functions and arguments. *)
LEMMA FuncFacts ==
    /\ \A n \in Nat : Func(n) # NULL
    /\ \A n, m \in Nat : Func(n) = Func(m) => n = m
<1>1. \A n : Func(n)[1] = "function" /\ Func(n)[2] = n
  BY DEF Func
<1>2. NULL[1] = "NULL"
  BY DEF NULL
<1>3. QED BY <1>1, <1>2

Distinguished(s) == \A i, j \in 1 .. Len(s) : s[i] = s[j] => i = j

(* Popping what was pushed last leaves the others due. *)
LEMMA StillDueFacts ==
    ASSUME NEW due \in Seq(Nat), Distinguished(due)
    PROVE  /\ StillDue(due, NULL) = due
           /\ due # <<>> => StillDue(due, Func(due[Len(due)])) = Without(due, Len(due))
<1> DEFINE k == Len(due)
           D == DOMAIN due
<1>1. k \in Nat /\ D = 1 .. k /\ due \in [1 .. k -> Nat]
  BY LenProperties
<1>2. StillDue(due, NULL) = due
  <2>1. \A i \in D : Func(due[i]) # NULL
    BY <1>1, FuncFacts
  <2>2. QED BY <2>1 DEF StillDue
<1>3. ASSUME due # <<>> PROVE StillDue(due, Func(due[k])) = Without(due, k)
  <2>1. k \in D
    BY <1>1, <1>3, EmptySeq
  <2> DEFINE f == Func(due[k])
             P(i) == Func(due[i]) = f
             c == CHOOSE i \in D : P(i)
  <2>2. P(k) /\ \E i \in D : P(i)
    BY <2>1
  <2>3. StillDue(due, f) = Without(due, c)
    BY <2>2 DEF StillDue
  <2>4. \A i \in D : P(i) => i = k
    BY <1>1, <2>1, FuncFacts DEF Distinguished
  <2> HIDE DEF P, D
  <2>5. c \in D /\ P(c)
    BY <2>2
  <2>6. c = k
    BY <2>4, <2>5
  <2>7. QED BY <2>3, <2>6
<1>4. QED BY <1>2, <1>3

(* cthread_pop(): the function pushed last, and its argument. *)
LEMMA PoppedFacts ==
    ASSUME NEW c, PairOK(c), NEW due, Stacked(c, due), c.func = NULL
    PROVE  LET d == Popped(c)
               k == Len(due)
           IN  /\ PairOK(d)
               /\ k = 0 => Stacked(d, due) /\ d.func = NULL
               /\ k # 0 => /\ Stacked(d, Without(due, k))
                           /\ d.func = Func(due[k]) /\ d.got = Arg(due[k])
<1> DEFINE k == Len(due)
           f == DelLast(c, "push", k)
           g == DelLast(f, "args", k)
           d == [g EXCEPT !.func = f.got]
<1>1. /\ k \in Nat /\ due \in Seq(Nat) /\ c.push.count = k /\ c.args.count = k
      /\ \A i \in 1 .. k : c.push.slots[i] = Func(due[i]) /\ c.args.slots[i] = Arg(due[i])
  BY DEF Stacked
<1>2. CASE k = 0
  BY <1>1, <1>2 DEF Popped
<1>3. CASE k # 0
  <2>1. Popped(c) = d
    BY <1>1, <1>3 DEF Popped, PopFunc, PopArg, DelLast
  <2> HIDE DEF k
  <2>2. /\ PairOK(f) /\ f.args = c.args /\ f.got = c.push.slots[k] /\ f.push.count = k - 1
        /\ \A i \in 1 .. k - 1 : f.push.slots[i] = c.push.slots[i]
    <3>1. "push" \in {"push", "args"} /\ k = c.push.count
      BY <1>1
    <3>2. QED BY <1>3, <3>1, DelLastFacts
  <2> HIDE DEF f
  <2>3. /\ PairOK(g) /\ g.push = f.push /\ g.got = c.args.slots[k] /\ g.args.count = k - 1
        /\ \A i \in 1 .. k - 1 : g.args.slots[i] = c.args.slots[i]
    <3>1. "args" \in {"push", "args"} /\ k = f.args.count
      BY <1>1, <2>2
    <3>2. /\ PairOK(g) /\ g.push = f.push /\ g.got = f.args.slots[k] /\ g.args.count = k - 1
          /\ \A i \in 1 .. k - 1 : g.args.slots[i] = f.args.slots[i]
      BY <1>3, <2>2, <3>1, DelLastFacts
    <3> HIDE DEF g
    <3>3. QED BY <2>2, <3>2
  <2> HIDE DEF g
  <2>4. /\ DOMAIN d = DOMAIN g /\ d = [x \in DOMAIN d |-> d[x]] /\ d.func = f.got
        /\ \A x \in DOMAIN g \ {"func"} : d[x] = g[x]
    BY <2>3 DEF PairOK, IsStackCall, IsCall, StackFields
  <2> HIDE DEF d
  <2>5. /\ PairOK(d) /\ d.push = g.push /\ d.args = g.args /\ d.got = g.got
    <3>1. d.push = g.push /\ d.args = g.args /\ d.got = g.got /\ d.held = g.held /\ d.twice = g.twice
      BY <2>3, <2>4 DEF PairOK, IsStackCall, IsCall, Used, StackFields
    <3>2. IsStackCall(d)
      BY <2>3, <2>4, <3>1 DEF PairOK, IsStackCall, IsCall, StackFields
    <3>3. QED BY <2>3, <3>1, <3>2 DEF PairOK, Pair
  <2>6. k \in 1 .. k /\ \A i \in 1 .. k - 1 : i \in 1 .. k
    BY <1>1, <1>3
  <2>7. d.func = Func(due[k]) /\ d.got = Arg(due[k])
    BY <1>1, <2>2, <2>3, <2>4, <2>5, <2>6
  <2> DEFINE t == Without(due, k)
  <2>8. t \in Seq(Nat) /\ Len(t) = k - 1 /\ \A i \in 1 .. k - 1 : t[i] = due[i]
    BY <1>1, <1>3, WithoutLast DEF k
  <2> HIDE DEF t
  <2>9. d.push.count = k - 1 /\ d.args.count = k - 1
    BY <2>2, <2>3, <2>5
  <2>10. \A i \in 1 .. k - 1 : d.push.slots[i] = Func(t[i]) /\ d.args.slots[i] = Arg(t[i])
    BY <1>1, <2>2, <2>3, <2>5, <2>6, <2>8
  <2>11. Stacked(d, t)
    BY <2>8, <2>9, <2>10 DEF Stacked
  <2>12. QED BY <1>3, <2>1, <2>5, <2>7, <2>11 DEF k, t
<1>4. QED BY <1>2, <1>3

----------------------------------------------------------------------------
(* The invariant. *)

StackVars == {"push", "args", "pc", "count", "ran", "pushes", "due", "late"}

(* The life of the thread: what it has pushed and not popped, in the order *)
(* of the pushes, and how many of them the end of the thread still misses. *)
LifeOK(s) ==
    /\ s.pc \in {"user", "cleanup", "ended"} /\ s.count \in Nat /\ s.pushes \in Nat /\ s.late \in Nat
    /\ s.due \in Seq(Nat) /\ Distinguished(s.due)
    /\ \A i \in 1 .. Len(s.due) : s.due[i] <= s.pushes
    /\ s.pc = "cleanup" => Len(s.due) <= s.count + s.late
    /\ s.pc = "ended" => Len(s.due) <= s.late

(* The arrays hold it. *)
HeldOK(c, s) ==
    IF s.pc = "ended" THEN c.push = NoArray /\ c.args = NoArray ELSE Stacked(c, s.due)

IsStack(s) == DOMAIN s = StackVars /\ s = [x \in DOMAIN s |-> s[x]]

StackInv ==
    /\ IsStack(stack) /\ LifeOK(stack) /\ HeldOK(stack, stack)
    /\ ArrayOK(stack.push) /\ ArrayOK(stack.args)
    /\ ledger.held = Pair(stack) /\ ledger.twice = FALSE
    /\ stack.push.block = stack.args.block => stack.push.block = NULL
    /\ stack.push.block = NULL => stack.args.block = NULL
    /\ result.op = "popped" => TakesLast(result)

LEMMA StackCallOK ==
    ASSUME StackInv, NEW faults
    PROVE  LET c == StackCall(faults)
           IN  /\ PairOK(c) /\ c.push = stack.push /\ c.args = stack.args
               /\ c.func = NULL /\ c.err = 0 /\ HeldOK(c, stack)
<1> DEFINE c == StackCall(faults)
<1>1. /\ DOMAIN c = {"held", "twice", "n", "faults", "got", "array", "push", "args", "err", "func"}
      /\ c = [x \in DOMAIN c |-> c[x]]
      /\ c.held = ledger.held /\ c.twice = ledger.twice
      /\ c.push = stack.push /\ c.args = stack.args /\ c.func = NULL /\ c.err = 0
  BY DEF StackCall
<1> HIDE DEF c
<1>2. IsFiniteSet(Pair(stack))
  <2> DEFINE p == stack.push.block
             q == stack.args.block
  <2>1. IsFiniteSet({p}) /\ IsFiniteSet({q})
    BY FS_Singleton
  <2>2. IsFiniteSet({p} \cup {q})
    BY <2>1, FS_Union
  <2>3. Pair(stack) \subseteq {p} \cup {q}
    BY DEF Pair
  <2>4. QED BY <2>2, <2>3, FS_Subset
<1>3. c.held = Pair(c)
  BY <1>1 DEF StackInv, Pair
<1>4. IsStackCall(c)
  <2>1. IsFiniteSet(c.held)
    BY <1>1, <1>2 DEF StackInv
  <2>2. QED BY <1>1, <2>1 DEF IsStackCall, IsCall, Used, StackFields
<1>5. PairOK(c)
  BY <1>1, <1>3, <1>4 DEF PairOK, StackInv
<1>6. HeldOK(c, stack)
  BY <1>1 DEF StackInv, HeldOK, Stacked
<1>7. QED BY <1>1, <1>5, <1>6 DEF c

(* What an action leaves for the next one. *)
LEMMA StackEndOK ==
    ASSUME NEW c, NEW next, NEW r, StackEnd(c, next, r), PairOK(c),
           IsStack(next), LifeOK(next), HeldOK(c, next),
           r.op = "popped" => TakesLast(r)
    PROVE  StackInv'
<1> DEFINE s == [next EXCEPT !.push = c.push, !.args = c.args]
<1>1. stack' = s /\ ledger' = [held |-> c.held, twice |-> c.twice] /\ result' = r
  BY DEF StackEnd, End
<1>2. /\ DOMAIN s = DOMAIN next /\ s = [x \in DOMAIN s |-> s[x]] /\ s.push = c.push /\ s.args = c.args
      /\ \A x \in DOMAIN next \ {"push", "args"} : s[x] = next[x]
  BY DEF IsStack, StackVars
<1> HIDE DEF s
<1>3. /\ s.pc = next.pc /\ s.count = next.count /\ s.pushes = next.pushes /\ s.late = next.late
      /\ s.due = next.due
  BY <1>2 DEF IsStack, StackVars
<1>4. LifeOK(s)
  BY <1>3 DEF LifeOK
<1>5. HeldOK(s, s)
  BY <1>2, <1>3 DEF HeldOK, Stacked
<1>6. ledger'.held = c.held /\ ledger'.twice = FALSE
  BY <1>1 DEF PairOK
<1>7. IsStack(s) /\ Pair(s) = Pair(c)
  BY <1>2 DEF IsStack, Pair
<1>8. ledger'.held = Pair(s)
  BY <1>6, <1>7 DEF PairOK
<1>9. /\ IsStack(stack') /\ LifeOK(stack') /\ HeldOK(stack', stack')
      /\ ArrayOK(stack'.push) /\ ArrayOK(stack'.args) /\ ledger'.held = Pair(stack')
      /\ stack'.push.block = stack'.args.block => stack'.push.block = NULL
      /\ stack'.push.block = NULL => stack'.args.block = NULL
  BY <1>1, <1>2, <1>4, <1>5, <1>7, <1>8 DEF PairOK
<1>10. result'.op = "popped" => TakesLast(result')
  BY <1>1
<1>11. QED BY <1>6, <1>9, <1>10 DEF StackInv

----------------------------------------------------------------------------
(* The actions. *)

LEMMA PushStep == ASSUME StackInv, cthread_push PROVE StackInv'
<1>1. PICK faults \in OneFault(2) :
          LET n == stack.pushes + 1
              c == Pushed(StackCall(faults), n)
          IN  StackEnd(c, IF c.err # 0 THEN [stack EXCEPT !.pushes = n]
                          ELSE [stack EXCEPT !.pushes = n, !.due = Append(@, n),
                                             !.late = IF stack.pc = "cleanup" THEN @ + 1 ELSE @],
                       [op |-> "pushed", err |-> c.err])
  BY DEF cthread_push
<1> DEFINE n == stack.pushes + 1
           b == StackCall(faults)
           c == Pushed(b, n)
           due == Append(stack.due, n)
           refused == [stack EXCEPT !.pushes = n]
           pushed == [stack EXCEPT !.pushes = n, !.due = Append(@, n),
                                   !.late = IF stack.pc = "cleanup" THEN @ + 1 ELSE @]
           r == [op |-> "pushed", err |-> c.err]
<1>2. StackEnd(c, IF c.err # 0 THEN refused ELSE pushed, r) /\ r.op = "pushed"
  BY <1>1
<1>3. /\ PairOK(b) /\ HeldOK(b, stack)
  BY StackCallOK
<1>4. stack.pc \in {"user", "cleanup"} /\ IsStack(stack) /\ LifeOK(stack)
  BY DEF cthread_push, ProgramRuns, StackInv
<1>5. Stacked(b, stack.due) /\ n \in Nat
  BY <1>3, <1>4 DEF HeldOK, LifeOK
<1> HIDE DEF b, r
<1>6. PairOK(c) /\ (c.err = 0 => Stacked(c, due)) /\ (c.err # 0 => Stacked(c, stack.due))
  BY <1>3, <1>5, PushedFacts
<1> HIDE DEF c
<1>7. CASE c.err # 0
  <2>1. /\ IsStack(refused) /\ refused.pushes = n
        /\ \A x \in StackVars \ {"pushes"} : refused[x] = stack[x]
    BY <1>4 DEF IsStack, StackVars
  <2> HIDE DEF refused
  <2>2. /\ refused.pc = stack.pc /\ refused.count = stack.count /\ refused.late = stack.late
        /\ refused.due = stack.due
    BY <2>1 DEF StackVars
  <2>3. \A i \in 1 .. Len(stack.due) : stack.due[i] <= n
    BY <1>4 DEF LifeOK
  <2> HIDE DEF n
  <2>4. LifeOK(refused)
    BY <1>4, <1>5, <2>1, <2>2, <2>3 DEF LifeOK
  <2>5. HeldOK(c, refused)
    BY <1>4, <1>6, <1>7, <2>2 DEF HeldOK
  <2>6. StackEnd(c, refused, r)
    BY <1>2, <1>7
  <2>7. QED BY <1>2, <1>6, <2>1, <2>4, <2>5, <2>6, StackEndOK
<1>8. CASE c.err = 0
  <2> DEFINE late == IF stack.pc = "cleanup" THEN stack.late + 1 ELSE stack.late
  <2>1. /\ IsStack(pushed) /\ pushed.pushes = n /\ pushed.due = due /\ pushed.late = late
        /\ \A x \in StackVars \ {"pushes", "due", "late"} : pushed[x] = stack[x]
    BY <1>4 DEF IsStack, StackVars
  <2> HIDE DEF pushed
  <2>2. pushed.pc = stack.pc /\ pushed.count = stack.count
    BY <2>1 DEF StackVars
  <2> DEFINE k == Len(stack.due)
  <2>3. k \in Nat /\ stack.due \in Seq(Nat) /\ stack.pushes \in Nat
    BY <1>4 DEF LifeOK
  <2>4. due \in Seq(Nat) /\ Len(due) = k + 1 /\ due[k + 1] = n /\ \A i \in 1 .. k : due[i] = stack.due[i]
    BY <1>5, <2>3
  <2>5. \A i \in 1 .. k : stack.due[i] \in Nat /\ stack.due[i] <= stack.pushes
    BY <1>4, <2>3 DEF LifeOK
  <2>6. \A i \in 1 .. k : stack.due[i] # n /\ stack.due[i] <= n
    BY <2>3, <2>5
  <2>7. \A i \in 1 .. k + 1 : i \in 1 .. k \/ i = k + 1
    BY <2>3
  <2>8. \A i, j \in 1 .. k : stack.due[i] = stack.due[j] => i = j
    BY <1>4 DEF LifeOK, Distinguished
  <2> HIDE DEF due
  <2>9. Distinguished(due)
    <3>1. ASSUME NEW i \in 1 .. k + 1, NEW j \in 1 .. k + 1, due[i] = due[j] PROVE i = j
      BY <2>4, <2>6, <2>7, <2>8, <3>1
    <3>2. QED BY <2>4, <3>1 DEF Distinguished
  <2>10. \A i \in 1 .. k + 1 : due[i] <= n
    BY <1>5, <2>4, <2>6, <2>7
  <2>11. stack.count \in Nat /\ stack.late \in Nat /\ late \in Nat
         /\ (stack.pc = "cleanup" => k + 1 <= stack.count + late)
    BY <1>4, <2>3 DEF LifeOK
  <2> HIDE DEF n, k, late
  <2>12. LifeOK(pushed)
    BY <1>4, <1>5, <2>1, <2>2, <2>4, <2>9, <2>10, <2>11 DEF LifeOK
  <2>13. HeldOK(c, pushed)
    BY <1>4, <1>6, <1>8, <2>1, <2>2 DEF HeldOK
  <2>14. StackEnd(c, pushed, r)
    BY <1>2, <1>8
  <2>15. QED BY <1>2, <1>6, <2>1, <2>12, <2>13, <2>14, StackEndOK
<1>9. QED BY <1>6, <1>7, <1>8

(* A pop leaves one function less, when there is one. *)
LEMMA PopOK ==
    ASSUME StackInv, stack.pc # "ended", NEW next, Pop(next), IsStack(next),
           next.due = stack.due, next.pc = stack.pc, next.pushes = stack.pushes, next.late = stack.late,
           next.count \in Nat,
           stack.pc = "cleanup" => Len(stack.due) <= next.count + next.late + 1
    PROVE  StackInv'
<1> DEFINE b == StackCall({})
           c == Popped(b)
           due == StillDue(stack.due, c.func)
           left == [next EXCEPT !.due = due]
           r == [op |-> "popped", func |-> c.func, arg |-> IF c.func = NULL THEN NULL ELSE c.got,
                 due |-> stack.due]
           k == Len(stack.due)
<1>1. StackEnd(c, left, r)
  BY DEF Pop
<1>2. PairOK(b) /\ HeldOK(b, stack) /\ b.func = NULL
  BY StackCallOK
<1>3. Stacked(b, stack.due) /\ LifeOK(stack)
  BY <1>2 DEF HeldOK, StackInv
<1> HIDE DEF b
<1>4. /\ PairOK(c)
      /\ k = 0 => Stacked(c, stack.due) /\ c.func = NULL
      /\ k # 0 => /\ Stacked(c, Without(stack.due, k))
                  /\ c.func = Func(stack.due[k]) /\ c.got = Arg(stack.due[k])
  BY <1>2, <1>3, PoppedFacts
<1> HIDE DEF c
<1>5. stack.due \in Seq(Nat) /\ k \in Nat /\ Distinguished(stack.due)
  BY <1>3 DEF LifeOK
<1>6. k = 0 <=> stack.due = <<>>
  BY <1>5, EmptySeq
<1>7. StillDue(stack.due, NULL) = stack.due
      /\ (stack.due # <<>> => StillDue(stack.due, Func(stack.due[k])) = Without(stack.due, k))
  BY <1>5, StillDueFacts
<1>8. r.op = "popped" /\ r.func = c.func /\ r.due = stack.due
      /\ r.arg = IF c.func = NULL THEN NULL ELSE c.got
  OBVIOUS
<1> HIDE DEF r
<1>9. TakesLast(r)
  <2>1. CASE k = 0
    BY <1>4, <1>6, <1>8, <2>1 DEF TakesLast
  <2>2. CASE k # 0
    <3>1. stack.due[k] \in Nat
      BY <1>5, <2>2
    <3>2. c.func # NULL
      BY <1>4, <2>2, <3>1, FuncFacts
    <3>3. QED BY <1>4, <1>6, <1>8, <2>2, <3>2 DEF TakesLast
  <2>3. QED BY <2>1, <2>2
<1>10. /\ IsStack(left) /\ left.due = due
       /\ \A x \in StackVars \ {"due"} : left[x] = next[x]
  BY DEF IsStack, StackVars
<1> HIDE DEF left
<1>11. /\ left.pc = stack.pc /\ left.pushes = stack.pushes /\ left.late = stack.late
       /\ left.count = next.count
  BY <1>10 DEF StackVars
<1>12. due \in Seq(Nat) /\ (\A i \in 1 .. Len(due) : i \in 1 .. k /\ due[i] = stack.due[i])
       /\ Stacked(c, due) /\ (IF k = 0 THEN Len(due) = 0 ELSE Len(due) = k - 1)
  <2>1. CASE k = 0
    <3>1. due = stack.due
      BY <1>4, <1>7, <2>1
    <3>2. QED BY <1>4, <1>5, <2>1, <3>1
  <2>2. CASE k # 0
    <3>1. due = Without(stack.due, k)
      BY <1>4, <1>6, <1>7, <2>2
    <3> HIDE DEF due
    <3>2. due \in Seq(Nat) /\ Len(due) = k - 1 /\ \A i \in 1 .. k - 1 : due[i] = stack.due[i]
      BY <1>5, <2>2, <3>1, WithoutLast
    <3>3. \A i \in 1 .. k - 1 : i \in 1 .. k
      BY <1>5
    <3>4. QED BY <1>4, <2>2, <3>1, <3>2, <3>3
  <2>3. QED BY <2>1, <2>2
<1> HIDE DEF due
<1>13. Distinguished(due)
  BY <1>5, <1>12 DEF Distinguished
<1>14. \A i \in 1 .. Len(due) : due[i] <= stack.pushes
  BY <1>3, <1>12 DEF LifeOK
<1>15. stack.pc = "cleanup" => Len(due) <= next.count + next.late
  <2>1. next.late \in Nat
    BY <1>3 DEF LifeOK
  <2>2. QED BY <1>5, <1>12, <2>1
<1>16. LifeOK(left)
  BY <1>3, <1>10, <1>11, <1>12, <1>13, <1>14, <1>15 DEF LifeOK
<1>17. HeldOK(c, left)
  BY <1>10, <1>11, <1>12 DEF HeldOK
<1>18. QED BY <1>1, <1>4, <1>9, <1>10, <1>16, <1>17, StackEndOK

LEMMA PopStep == ASSUME StackInv, cthread_pop PROVE StackInv'
<1>1. stack.pc # "ended" /\ Pop(stack)
  BY DEF cthread_pop, ProgramRuns
<1>2. IsStack(stack) /\ LifeOK(stack)
  BY DEF StackInv
<1>3. stack.count \in Nat /\ (stack.pc = "cleanup" => Len(stack.due) <= stack.count + stack.late + 1)
  BY <1>2 DEF LifeOK
<1>4. QED BY <1>1, <1>2, <1>3, PopOK

LEMMA CleanupStep == ASSUME StackInv, cleanup_thread PROVE StackInv'
<1> DEFINE next == [stack EXCEPT !.count = @ - 1, !.ran = stack.push.count > 0]
<1>1. stack.pc = "cleanup" /\ stack.count > 0 /\ Pop(next)
  BY DEF cleanup_thread
<1>2. IsStack(stack) /\ LifeOK(stack)
  BY DEF StackInv
<1>3. /\ IsStack(next) /\ next.count = stack.count - 1
      /\ \A x \in StackVars \ {"count", "ran"} : next[x] = stack[x]
  BY <1>2 DEF IsStack, StackVars
<1> HIDE DEF next
<1>4. next.due = stack.due /\ next.pc = stack.pc /\ next.pushes = stack.pushes /\ next.late = stack.late
  BY <1>3 DEF StackVars
<1>5. next.count \in Nat /\ Len(stack.due) <= next.count + next.late + 1
  <2>1. stack.count \in Nat /\ stack.late \in Nat /\ Len(stack.due) \in Nat
    BY <1>2 DEF LifeOK
  <2>2. Len(stack.due) <= stack.count + stack.late
    BY <1>1, <1>2 DEF LifeOK
  <2>3. QED BY <1>1, <1>3, <1>4, <2>1, <2>2
<1>6. QED BY <1>1, <1>3, <1>4, <1>5, PopOK

LEMMA ExitStep == ASSUME StackInv, CTEXIT PROVE StackInv'
<1> DEFINE c == StackCall({})
           next == [stack EXCEPT !.pc = "cleanup", !.count = stack.push.count, !.ran = FALSE, !.late = 0]
           r == [op |-> "exits"]
<1>1. stack.pc # "ended" /\ StackEnd(c, next, r) /\ r.op = "exits"
  BY DEF CTEXIT, ProgramRuns
<1>2. IsStack(stack) /\ LifeOK(stack)
  BY DEF StackInv
<1>3. PairOK(c) /\ c.push = stack.push /\ HeldOK(c, stack)
  BY StackCallOK
<1> HIDE DEF c, r
<1>4. Stacked(c, stack.due) /\ Len(stack.due) = stack.push.count /\ stack.push.count \in Nat
  <2>1. Stacked(c, stack.due)
    BY <1>1, <1>3 DEF HeldOK
  <2>2. Len(stack.due) \in Nat
    BY <1>2 DEF LifeOK
  <2>3. QED BY <1>3, <2>1, <2>2 DEF Stacked
<1>5. /\ IsStack(next) /\ next.pc = "cleanup" /\ next.count = stack.push.count /\ next.late = 0
      /\ \A x \in StackVars \ {"pc", "count", "ran", "late"} : next[x] = stack[x]
  BY <1>2 DEF IsStack, StackVars
<1> HIDE DEF next
<1>6. next.due = stack.due /\ next.pushes = stack.pushes
  BY <1>5 DEF StackVars
<1>7. LifeOK(next)
  BY <1>2, <1>4, <1>5, <1>6 DEF LifeOK
<1>8. HeldOK(c, next)
  BY <1>4, <1>5, <1>6 DEF HeldOK
<1>9. QED BY <1>1, <1>3, <1>5, <1>7, <1>8, StackEndOK

LEMMA NewThreadStep == ASSUME StackInv, NewThread PROVE StackInv'
<1> DEFINE c == StackCall({})
           next == [stack EXCEPT !.pc = "user", !.ran = FALSE, !.pushes = 0, !.due = <<>>, !.late = 0]
           r == [op |-> "created"]
<1>1. stack.pc = "ended" /\ StackEnd(c, next, r) /\ r.op = "created"
  BY DEF NewThread
<1>2. IsStack(stack) /\ LifeOK(stack)
  BY DEF StackInv
<1>3. PairOK(c) /\ HeldOK(c, stack)
  BY StackCallOK
<1>4. c.push = NoArray /\ c.args = NoArray
  BY <1>1, <1>3 DEF HeldOK
<1> HIDE DEF c, r
<1>5. /\ IsStack(next) /\ next.pc = "user" /\ next.pushes = 0 /\ next.due = <<>> /\ next.late = 0
      /\ \A x \in StackVars \ {"pc", "ran", "pushes", "due", "late"} : next[x] = stack[x]
  BY <1>2 DEF IsStack, StackVars
<1> HIDE DEF next
<1>6. next.count = stack.count
  BY <1>5 DEF StackVars
<1>7. <<>> \in Seq(Nat) /\ Len(<<>>) = 0 /\ \A i \in 1 .. 0 : FALSE
  OBVIOUS
<1>8. LifeOK(next)
  <2>1. Distinguished(<<>>)
    BY <1>7 DEF Distinguished
  <2>2. QED BY <1>2, <1>5, <1>6, <1>7, <2>1 DEF LifeOK
<1>9. Stacked(c, <<>>)
  BY <1>4, <1>7, EmptyOK DEF Stacked
<1>10. HeldOK(c, next)
  BY <1>5, <1>9 DEF HeldOK
<1>11. QED BY <1>1, <1>3, <1>5, <1>8, <1>10, StackEndOK

(* arrayfree() of one of the arrays. *)
LEMMA FreedFacts ==
    ASSUME NEW c, IsStackCall(c), NULL \notin c.held, NEW which \in {"push", "args"},
           c[which].block = NULL \/ c[which].block \in c.held
    PROVE  LET d == Freed(c, which)
           IN  /\ IsStackCall(d) /\ d.held = c.held \ {c[which].block} /\ d.twice = c.twice
               /\ \A w \in {"push", "args"} \ {which} : d[w] = c[w]
               /\ d[which] = IF c[which].block = NULL THEN c[which] ELSE NoArray
<1> DEFINE u == Using(c, which)
           v == arrayfree(u)
           d == Keeping(v, which)
<1>1. /\ IsStackCall(u) /\ DOMAIN u = DOMAIN c /\ u.array = c[which]
      /\ \A x \in DOMAIN c \ {"array"} : u[x] = c[x]
  BY UsingFacts
<1> HIDE DEF u
<1>2. u.held = c.held /\ u.twice = c.twice /\ u.push = c.push /\ u.args = c.args
  BY <1>1 DEF IsStackCall, StackFields, IsCall, Used
<1>3. Holds(u) /\ IsCall(u)
  BY <1>1, <1>2 DEF Holds, IsStackCall
<1>4. /\ IsCall(v) /\ DOMAIN v = DOMAIN u
      /\ \A x \in DOMAIN u \ {"held", "array", "err"} : v[x] = u[x]
      /\ v.held = u.held \ {u.array.block}
      /\ v.array = IF u.array.block = NULL THEN u.array ELSE NoArray
  BY <1>3, FreeFacts
<1> HIDE DEF v
<1>5. IsStackCall(v) /\ v.push = c.push /\ v.args = c.args /\ v.twice = c.twice
  BY <1>1, <1>2, <1>4 DEF IsStackCall, StackFields, IsCall, Used
<1>6. /\ IsStackCall(d) /\ DOMAIN d = DOMAIN v /\ d[which] = v.array
      /\ \A x \in DOMAIN v \ {which} : d[x] = v[x]
  BY <1>5, KeepingFacts
<1> HIDE DEF d
<1>7. d.held = v.held /\ d.twice = v.twice /\ \A w \in {"push", "args"} \ {which} : d[w] = c[w]
  BY <1>5, <1>6 DEF IsStackCall, StackFields, IsCall, Used
<1>8. QED BY <1>1, <1>2, <1>4, <1>5, <1>6, <1>7 DEF Freed, d, v, u

LEMMA DoneStep == ASSUME StackInv, CleanupDone PROVE StackInv'
<1> DEFINE b == StackCall({})
           f == Freed(b, "push")
           g == Freed(f, "args")
           c == IF stack.push.block = NULL THEN b ELSE g
           next == [stack EXCEPT !.pc = "ended"]
           r == [op |-> "cleaned"]
<1>1. stack.pc = "cleanup" /\ stack.count = 0 /\ StackEnd(c, next, r) /\ r.op = "cleaned"
  BY DEF CleanupDone
<1>2. IsStack(stack) /\ LifeOK(stack)
  BY DEF StackInv
<1>3. PairOK(b) /\ b.push = stack.push /\ b.args = stack.args
  BY StackCallOK
<1> HIDE DEF b, r
<1>4. PairOK(c) /\ c.push = NoArray /\ c.args = NoArray
  <2>1. CASE stack.push.block = NULL
    BY <1>3, <2>1 DEF PairOK, ArrayOK
  <2>2. CASE stack.push.block # NULL
    <3>1. /\ IsStackCall(b) /\ b.held = {b.push.block, b.args.block} \ {NULL} /\ b.twice = FALSE
          /\ b.push.block # b.args.block /\ b.push.block # NULL
          /\ b.args.block = NULL => b.args = NoArray
      BY <1>3, <2>2 DEF PairOK, Pair, ArrayOK
    <3>2. /\ IsStackCall(f) /\ f.held = b.held \ {b.push.block} /\ f.twice = b.twice
          /\ f.args = b.args /\ f.push = NoArray
      <4>1. "push" \in {"push", "args"} /\ NULL \notin b.held /\ b["push"].block \in b.held
        BY <3>1
      <4>2. QED BY <3>1, <4>1, FreedFacts
    <3> HIDE DEF f
    <3>3. f.held = {b.args.block} \ {NULL}
      BY <3>1, <3>2
    <3>4. /\ IsStackCall(g) /\ g.held = f.held \ {f.args.block} /\ g.twice = f.twice
          /\ g.push = f.push /\ g.args = IF f.args.block = NULL THEN f.args ELSE NoArray
      <4>1. "args" \in {"push", "args"} /\ NULL \notin f.held
            /\ (f["args"].block = NULL \/ f["args"].block \in f.held)
        BY <3>2, <3>3
      <4>2. QED BY <3>2, <4>1, FreedFacts
    <3> HIDE DEF g
    <3>5. g.push = NoArray /\ g.args = NoArray /\ g.held = {} /\ g.twice = FALSE
      BY <3>1, <3>2, <3>3, <3>4
    <3>6. Pair(g) = {}
      BY <3>5, EmptyOK DEF Pair
    <3>7. QED BY <2>2, <3>4, <3>5, <3>6, EmptyOK DEF PairOK
  <2>3. QED BY <2>1, <2>2
<1> HIDE DEF c
<1>5. /\ IsStack(next) /\ next.pc = "ended"
      /\ \A x \in StackVars \ {"pc"} : next[x] = stack[x]
  BY <1>2 DEF IsStack, StackVars
<1> HIDE DEF next
<1>6. /\ next.count = stack.count /\ next.pushes = stack.pushes /\ next.late = stack.late
      /\ next.due = stack.due
  BY <1>5 DEF StackVars
<1>7. Len(stack.due) <= stack.late
  <2>1. stack.late \in Nat /\ Len(stack.due) <= stack.count + stack.late
    BY <1>1, <1>2 DEF LifeOK
  <2>2. QED BY <1>1, <2>1
<1>8. LifeOK(next)
  BY <1>2, <1>5, <1>6, <1>7 DEF LifeOK
<1>9. HeldOK(c, next)
  BY <1>4, <1>5 DEF HeldOK
<1>10. QED BY <1>1, <1>4, <1>5, <1>8, <1>9, StackEndOK

LEMMA StackSeeStep ==
    ASSUME StackInv, (See /\ UNCHANGED stack) \/ UNCHANGED <<ledger, result, stack>>
    PROVE  StackInv'
<1>1. ledger' = ledger /\ stack' = stack /\ (result' = Seen \/ result' = result)
  BY DEF See
<1>2. result'.op = "popped" => TakesLast(result')
  BY <1>1 DEF Seen, StackInv
<1>3. QED BY <1>1, <1>2 DEF StackInv

LEMMA StackStart == LedgerInit /\ StackInit => StackInv
<1> SUFFICES ASSUME LedgerInit, StackInit PROVE StackInv
  OBVIOUS
<1>1. /\ IsStack(stack) /\ stack.push = NoArray /\ stack.args = NoArray /\ stack.pc = "user"
      /\ stack.count = 0 /\ stack.pushes = 0 /\ stack.due = <<>> /\ stack.late = 0
  BY DEF StackInit, IsStack, StackVars
<1>2. ledger.held = {} /\ ledger.twice = FALSE /\ result.op = "seen"
  BY DEF LedgerInit, Seen
<1>3. <<>> \in Seq(Nat) /\ Len(<<>>) = 0 /\ \A i \in 1 .. 0 : FALSE
  OBVIOUS
<1>4. Distinguished(<<>>)
  BY <1>3 DEF Distinguished
<1>5. LifeOK(stack)
  BY <1>1, <1>3, <1>4 DEF LifeOK
<1>6. HeldOK(stack, stack)
  BY <1>1, <1>3, EmptyOK DEF HeldOK, Stacked
<1>7. Pair(stack) = {}
  BY <1>1, EmptyOK DEF Pair
<1>8. QED BY <1>1, <1>2, <1>5, <1>6, <1>7, EmptyOK DEF StackInv

----------------------------------------------------------------------------
(* StackInv holds in every state of the thread. *)
THEOREM StackInvAlways == StackSpec => []StackInv
<1>1. LedgerInit /\ StackInit => StackInv
  BY StackStart
<1>2. StackInv /\ [StackNext]_<<ledger, result, stack>> => StackInv'
  BY PushStep, PopStep, CleanupStep, ExitStep, NewThreadStep, DoneStep, StackSeeStep DEF StackNext
<1>3. QED BY <1>1, <1>2, PTL DEF StackSpec

(* A pop takes what was pushed last, with its argument, and the end of a   *)
(* thread misses no more than what was pushed while it ran.                *)
THEOREM StackIsPoppedAlways == StackSpec => []StackIsPopped
<1>1. StackInv => StackIsPopped
  <2> SUFFICES ASSUME StackInv PROVE StackIsPopped
    OBVIOUS
  <2>1. LifeOK(stack) /\ HeldOK(stack, stack) /\ (result.op = "popped" => TakesLast(result))
    BY DEF StackInv
  <2>2. stack.pc = "ended" => Len(stack.due) <= stack.late
    BY <2>1 DEF LifeOK
  <2>3. ASSUME stack.pc # "ended"
        PROVE  Items([array |-> stack.push]) = [i \in 1 .. Len(stack.due) |-> Func(stack.due[i])]
    <3>1. Stacked(stack, stack.due)
      BY <2>1, <2>3 DEF HeldOK
    <3>2. Items([array |-> stack.push]) = [i \in 1 .. stack.push.count |-> stack.push.slots[i]]
      BY DEF Items
    <3>3. QED BY <3>1, <3>2 DEF Stacked
  <2>4. QED BY <2>1, <2>2, <2>3 DEF StackIsPopped
<1>2. QED BY <1>1, StackInvAlways, PTL

(* What is held is the blocks of the two arrays, and nothing is given back *)
(* twice.                                                                  *)
THEOREM StackLosesNothing == StackSpec => [](ledger.held = StackOwns /\ ~ ledger.twice)
<1>1. StackInv => ledger.held = StackOwns /\ ~ ledger.twice
  BY DEF StackInv, Pair, StackOwns
<1>2. QED BY <1>1, StackInvAlways, PTL

----------------------------------------------------------------------------
(* The variables of a program. *)

(* A call of this module has the variables as well. *)
EnvFields == {"vars", "map"}
IsEnvCall(c) == IsCall(c) /\ EnvFields \subseteq DOMAIN c

(* The entries in use, their blocks, and what may be in one. *)
InUse(c) == {i \in 1 .. c.array.count : c.array.slots[i] # NULL}
Blocks(c) == {c.array.slots[i] : i \in InUse(c)}
IsPlain(n) == IsName(n) /\ n.blanks = FALSE
Variable(v) == v = [name |-> v.name, value |-> v.value] /\ IsPlain(v.name) /\ IsValue(v.value)

(* The array is in order, each name is in it once, and what the call holds *)
(* is the array, the variables in it and those in extra, which have been   *)
(* built and have no entry yet.                                            *)
VarsOK(c, extra) ==
    /\ IsEnvCall(c) /\ ArrayOK(c.array) /\ c.twice = FALSE
    /\ \A r \in Blocks(c) \cup extra : OfKind("variable", r)
    /\ Blocks(c) \cap extra = {}
    /\ c.vars = [x \in Blocks(c) \cup extra |-> c.vars[x]]
    /\ \A r \in Blocks(c) \cup extra : Variable(c.vars[r])
    /\ \A i, j \in InUse(c) : c.vars[c.array.slots[i]].name = c.vars[c.array.slots[j]].name => i = j
    /\ c.held = ({c.array.block} \ {NULL}) \cup Blocks(c) \cup extra

(* The variables in the array are those the program has set. *)
Pairs(c) == {<<c.vars[c.array.slots[i]].name, c.vars[c.array.slots[i]].value>> : i \in InUse(c)}
MapOK(c) == c.map = Pairs(c)

----------------------------------------------------------------------------
(* Searches. *)

LEMMA FieldFacts ==
    /\ \A w, u, b, f : [[word |-> w, upper |-> u, blanks |-> b] EXCEPT !.blanks = f]
                       = [word |-> w, upper |-> u, blanks |-> f]
    /\ \A x, l, f : /\ [[text |-> x, lead |-> l] EXCEPT !.lead = f] = [text |-> x, lead |-> f]
                    /\ [[text |-> x, lead |-> l] EXCEPT !.text = f] = [text |-> f, lead |-> l]
OBVIOUS

LEMMA NameFacts ==
    /\ \A a, b : IsName(a) /\ IsName(b) => (SameName(a, b, FALSE) <=> a = b)
    /\ \A a : IsName(a) => IsPlain(Trimmed(a))
    /\ \A v : IsValue(v) => IsValue(Unled(v)) /\ IsValue([v EXCEPT !.text = "cut"])
<1>1. ASSUME NEW a, NEW b, IsName(a), IsName(b) PROVE SameName(a, b, FALSE) <=> a = b
  <2>1. ASSUME SameName(a, b, FALSE) PROVE a = b
    BY <1>1, <2>1 DEF IsName, SameName
  <2>2. QED BY <2>1 DEF SameName
<1>2. ASSUME NEW a, IsName(a) PROVE IsPlain(Trimmed(a))
  <2> DEFINE w == a.word
             u == a.upper
             b == a.blanks
             no == FALSE
             t == Trimmed(a)
  <2>1. a = [word |-> w, upper |-> u, blanks |-> b] /\ t = [a EXCEPT !.blanks = no]
    BY <1>2 DEF IsName, Trimmed
  <2> HIDE DEF w, u, b, t, no
  <2>2. t = [word |-> w, upper |-> u, blanks |-> no]
    BY <2>1, FieldFacts
  <2>3. t.word = w /\ t.upper = u /\ t.blanks = no
    BY <2>2
  <2>4. QED BY <2>2, <2>3 DEF IsName, IsPlain, t, no
<1>3. ASSUME NEW v, IsValue(v) PROVE IsValue(Unled(v)) /\ IsValue([v EXCEPT !.text = "cut"])
  <2> DEFINE x == v.text
             l == v.lead
             no == FALSE
             cut == "cut"
             t == Unled(v)
             s == [v EXCEPT !.text = "cut"]
  <2>1. v = [text |-> x, lead |-> l] /\ t = [v EXCEPT !.lead = no] /\ s = [v EXCEPT !.text = cut]
    BY <1>3 DEF IsValue, Unled
  <2> HIDE DEF x, l, t, s, no, cut
  <2>2. t = [text |-> x, lead |-> no] /\ s = [text |-> cut, lead |-> l]
    BY <2>1, FieldFacts
  <2>3. t.text = x /\ t.lead = no /\ s.text = cut /\ s.lead = l
    BY <2>2
  <2>4. QED BY <2>2, <2>3 DEF IsValue, t, s
<1>4. QED BY <1>1, <1>2, <1>3

LEMMA LowestFacts ==
    ASSUME NEW S, S \subseteq Nat \ {0}
    PROVE  (S = {} /\ Lowest(S) = 0) \/ (S # {} /\ Lowest(S) \in S)
<1>1. CASE S = {}
  BY <1>1 DEF Lowest
<1>2. CASE S # {}
  <2> DEFINE P(i) == \A j \in S : i =< j
             k == CHOOSE i \in S : P(i)
  <2>1. \E i \in S : P(i)
    BY <1>2, Least
  <2>2. Lowest(S) = k
    BY <1>2 DEF Lowest
  <2> HIDE DEF P
  <2>3. k \in S
    BY <2>1
  <2>4. QED BY <1>2, <2>2, <2>3
<1>3. QED BY <1>1, <1>2

LEMMA MatchFacts ==
    ASSUME NEW c, ArrayOK(c.array), NEW name, NEW nocase
    PROVE  LET m == Matches(c, name, nocase)
           IN  /\ m = {i \in InUse(c) : SameName(c.vars[c.array.slots[i]].name, name, nocase)}
               /\ m \subseteq 1 .. c.array.count /\ c.array.count \in Nat
               /\ (m = {} /\ FoundAt(c, name, nocase) = 0) \/ (m # {} /\ FoundAt(c, name, nocase) \in m)
               /\ Lowest(Holes(c)) = 0 \/ Lowest(Holes(c)) \in (1 .. c.array.count) \ InUse(c)
<1> DEFINE n == c.array.count
           m == Matches(c, name, nocase)
<1>1. n \in Nat
  BY DEF ArrayOK
<1>2. DOMAIN Items(c) = 1 .. n /\ \A i \in 1 .. n : Items(c)[i] = c.array.slots[i]
  BY DEF Items
<1>3. m = {i \in InUse(c) : SameName(c.vars[c.array.slots[i]].name, name, nocase)}
  BY <1>2 DEF Matches, InUse
<1>4. Holes(c) = (1 .. n) \ InUse(c)
  BY <1>2 DEF Holes, InUse
<1>5. m \subseteq 1 .. n
  BY <1>3 DEF InUse
<1>6. m \subseteq Nat \ {0} /\ Holes(c) \subseteq Nat \ {0}
  BY <1>1, <1>4, <1>5
<1> HIDE DEF m, n
<1>7. (m = {} /\ FoundAt(c, name, nocase) = 0) \/ (m # {} /\ FoundAt(c, name, nocase) \in m)
  BY <1>6, LowestFacts DEF FoundAt, m
<1>8. Lowest(Holes(c)) = 0 \/ Lowest(Holes(c)) \in Holes(c)
  BY <1>6, LowestFacts
<1>9. QED BY <1>1, <1>3, <1>4, <1>5, <1>7, <1>8 DEF m, n

----------------------------------------------------------------------------
(* The blocks of variables. *)

LEMMA BlockFacts ==
    ASSUME NEW c, NEW extra, VarsOK(c, extra)
    PROVE  /\ NULL \notin c.held /\ Holds(c) /\ IsCall(c) /\ ArrayOK(c.array)
           /\ \A r \in Blocks(c) \cup extra : r # NULL /\ r # c.array.block /\ r \in c.held
           /\ DOMAIN c.vars = Blocks(c) \cup extra /\ c.array.count \in Nat
           /\ \A i, j \in InUse(c) : c.array.slots[i] = c.array.slots[j] => i = j
<1>1. c.array.block = NULL \/ OfKind("array", c.array.block)
  BY DEF VarsOK, ArrayOK
<1>2. \A r \in Blocks(c) \cup extra : r # NULL /\ r # c.array.block
  <2>1. \A r \in Blocks(c) \cup extra : OfKind("variable", r)
    BY DEF VarsOK
  <2>2. QED BY <1>1, <2>1, NullFacts, KindFacts
<1>3. NULL \notin c.held
  BY <1>2 DEF VarsOK
<1>4. DOMAIN c.vars = Blocks(c) \cup extra
  <2> DEFINE D == Blocks(c) \cup extra
  <2>1. c.vars = [x \in D |-> c.vars[x]]
    BY DEF VarsOK
  <2> HIDE DEF D
  <2>2. DOMAIN c.vars = D
    BY <2>1
  <2>3. QED BY <2>2 DEF D
<1>5. c.array.count \in Nat
  BY DEF VarsOK, ArrayOK
<1>6. QED BY <1>2, <1>3, <1>4, <1>5 DEF VarsOK, IsEnvCall, Holds

(* Giving back a block of a variable takes it out of vars. *)
LEMMA ForgetFacts ==
    ASSUME NEW c, IsEnvCall(c), NEW r, r = NULL \/ r \in c.held, NULL \notin c.held
    PROVE  LET d == ForgetVariable(c, r)
           IN  /\ IsEnvCall(d) /\ DOMAIN d = DOMAIN c
               /\ d.held = c.held \ {r} /\ d.vars = VariableGone(c.vars, r)
               /\ d.array = c.array /\ d.twice = c.twice /\ d.map = c.map /\ d.err = c.err
<1> DEFINE e == Release(c, r)
           d == [e EXCEPT !.vars = VariableGone(c.vars, r)]
<1>1. /\ IsCall(e) /\ DOMAIN e = DOMAIN c /\ e.held = c.held \ {r}
      /\ \A x \in DOMAIN c \ {"held"} : e[x] = c[x]
  BY ReleaseFacts DEF IsEnvCall
<1> HIDE DEF e
<1>2. /\ DOMAIN d = DOMAIN e /\ d = [x \in DOMAIN d |-> d[x]] /\ d.vars = VariableGone(c.vars, r)
      /\ \A x \in DOMAIN e \ {"vars"} : d[x] = e[x]
  BY <1>1 DEF IsCall, IsEnvCall, EnvFields
<1>3. ForgetVariable(c, r) = d
  BY DEF ForgetVariable, e
<1> HIDE DEF d
<1>4. d.held = c.held \ {r} /\ d.array = c.array /\ d.twice = c.twice /\ d.map = c.map /\ d.err = c.err
  BY <1>1, <1>2 DEF IsCall, IsEnvCall, EnvFields, Used
<1>5. IsEnvCall(d)
  BY <1>1, <1>2, <1>4 DEF IsCall, IsEnvCall
<1>6. QED BY <1>1, <1>2, <1>3, <1>4, <1>5

(* The pair of an entry, and those of all others. *)
PairAt(c, i) == <<c.vars[c.array.slots[i]].name, c.vars[c.array.slots[i]].value>>
OthersOf(c, i) == {PairAt(c, j) : j \in InUse(c) \ {i}}

(* Where entry i is the one of that name, if there is one. *)
Only(c, i, name) == \A j \in InUse(c) : c.vars[c.array.slots[j]].name = name <=> j = i

LEMMA OthersFacts ==
    ASSUME NEW c, NEW i, NEW name, Only(c, i, name)
    PROVE  {v \in Pairs(c) : v[1] # name} = OthersOf(c, i)
<1>1. \A j \in InUse(c) : PairAt(c, j)[1] # name <=> j # i
  BY DEF Only, PairAt
<1>2. Pairs(c) = {PairAt(c, j) : j \in InUse(c)}
  BY DEF Pairs, PairAt
<1>3. ASSUME NEW v, v \in Pairs(c), v[1] # name PROVE v \in OthersOf(c, i)
  <2>1. PICK j \in InUse(c) : v = PairAt(c, j)
    BY <1>2, <1>3
  <2>2. QED BY <1>1, <1>3, <2>1 DEF OthersOf
<1>4. ASSUME NEW v \in OthersOf(c, i) PROVE v \in Pairs(c) /\ v[1] # name
  <2>1. PICK j \in InUse(c) \ {i} : v = PairAt(c, j)
    BY DEF OthersOf
  <2>2. QED BY <1>1, <1>2, <2>1
<1>5. QED BY <1>3, <1>4

(* A variable that is built and not kept leaves nothing. *)
LEMMA DroppedFacts ==
    ASSUME NEW c, NEW r, VarsOK(c, {r})
    PROVE  LET d == ForgetVariable(c, r)
           IN  /\ VarsOK(d, {}) /\ d.map = c.map /\ Pairs(d) = Pairs(c) /\ d.err = c.err
<1> DEFINE d == ForgetVariable(c, r)
<1>1. /\ NULL \notin c.held /\ r \in c.held /\ r # c.array.block /\ r # NULL
      /\ DOMAIN c.vars = Blocks(c) \cup {r}
  BY BlockFacts
<1>2. IsEnvCall(c) /\ Blocks(c) \cap {r} = {} /\ c.held = ({c.array.block} \ {NULL}) \cup Blocks(c) \cup {r}
  BY DEF VarsOK
<1>3. /\ IsEnvCall(d) /\ d.held = c.held \ {r} /\ d.vars = VariableGone(c.vars, r)
      /\ d.array = c.array /\ d.twice = c.twice /\ d.map = c.map /\ d.err = c.err
  BY <1>1, <1>2, ForgetFacts
<1> HIDE DEF d
<1>4. InUse(d) = InUse(c) /\ Blocks(d) = Blocks(c) /\ \A i \in InUse(c) : c.array.slots[i] \in Blocks(c)
  BY <1>3 DEF InUse, Blocks
<1>5. d.vars = [x \in Blocks(d) |-> c.vars[x]] /\ \A x \in Blocks(d) : d.vars[x] = c.vars[x]
  <2>1. (Blocks(c) \cup {r}) \ {r} = Blocks(d)
    BY <1>2, <1>4
  <2> HIDE DEF Blocks
  <2>2. d.vars = [x \in Blocks(d) |-> c.vars[x]]
    BY <1>1, <1>3, <2>1 DEF VariableGone
  <2>3. QED BY <2>2
<1>6. d.vars = [x \in Blocks(d) \cup {} |-> d.vars[x]]
  BY <1>5
<1>7. d.held = ({d.array.block} \ {NULL}) \cup Blocks(d) \cup {}
  BY <1>1, <1>2, <1>3, <1>4
<1>8. Pairs(d) = Pairs(c)
  BY <1>3, <1>4, <1>5 DEF Pairs
<1>9. VarsOK(d, {})
  <2>1. /\ \A x \in Blocks(d) : OfKind("variable", x) /\ Variable(d.vars[x])
        /\ \A i, j \in InUse(d) : d.vars[d.array.slots[i]].name = d.vars[d.array.slots[j]].name => i = j
    <3>1. /\ \A x \in Blocks(c) : OfKind("variable", x) /\ Variable(c.vars[x])
          /\ \A i, j \in InUse(c) : c.vars[c.array.slots[i]].name = c.vars[c.array.slots[j]].name => i = j
      BY DEF VarsOK
    <3>2. \A i \in InUse(c) : d.vars[d.array.slots[i]] = c.vars[c.array.slots[i]]
      BY <1>3, <1>4, <1>5
    <3> HIDE DEF InUse, Blocks, Variable, OfKind
    <3>3. \A x \in Blocks(d) : OfKind("variable", x) /\ Variable(d.vars[x])
      BY <1>4, <1>5, <3>1
    <3>4. QED BY <1>4, <3>1, <3>2, <3>3
  <2>2. ArrayOK(d.array) /\ d.twice = FALSE
    BY <1>3 DEF VarsOK
  <2>3. Blocks(d) \cup {} = Blocks(d) /\ Blocks(d) \cap {} = {}
    OBVIOUS
  <2>4. QED BY ONLY <1>3, <1>6, <1>7, <2>1, <2>2, <2>3 DEF VarsOK
<1>10. QED BY <1>3, <1>8, <1>9 DEF d

(* An entry is changed, and the variable that was in it is given back. *)
LEMMA SlottedFacts ==
    ASSUME NEW a, ArrayOK(a), NEW i \in 1 .. a.count, NEW r
    PROVE  LET s == Slotted(a, i, r)
           IN  /\ ArrayOK(s) /\ s.block = a.block /\ s.count = a.count
               /\ s.slots[i] = r /\ \A j \in 1 .. a.count : j # i => s.slots[j] = a.slots[j]
<1> DEFINE t == [a.slots EXCEPT ![i] = r]
           s == [a EXCEPT !.slots = t]
           m == a.size
           n == a.count
           old == a.slots
<1>1. m \in Nat /\ n \in 0 .. m /\ i \in 1 .. m /\ i \in 1 .. n
  BY DEF ArrayOK
<1>2. old = [j \in 1 .. m |-> old[j]] /\ \A j \in n + 1 .. m : old[j] = NULL
  BY DEF ArrayOK, Slots
<1>3. ArrayRecord(a) /\ a.block # NULL /\ OfKind("array", a.block)
  <2>1. a.block = NULL => a.count = 0
    BY EmptyOK DEF ArrayOK
  <2>2. QED BY <2>1 DEF ArrayOK
<1> HIDE DEF m, n, old
<1>4. DOMAIN t = 1 .. m /\ t = [j \in 1 .. m |-> t[j]] /\ t[i] = r
      /\ \A j \in 1 .. m : j # i => t[j] = old[j]
  BY <1>1, <1>2 DEF old
<1>5. s.block = a.block /\ s.size = a.size /\ s.count = a.count /\ s.slots = t /\ ArrayRecord(s)
  BY <1>3 DEF ArrayRecord
<1>6. Slotted(a, i, r) = s
  BY DEF Slotted
<1> HIDE DEF t, s
<1>7. ASSUME NEW j \in n + 1 .. m PROVE t[j] = NULL
  <2>1. j \in 1 .. m /\ j # i
    BY <1>1
  <2>2. t[j] = old[j] /\ old[j] = NULL
    BY <1>2, <1>4, <2>1
  <2>3. QED BY <2>2
<1>8. ArrayOK(s)
  BY <1>1, <1>3, <1>4, <1>5, <1>7 DEF ArrayOK, Slots, m, n
<1>9. \A j \in 1 .. n : j # i => t[j] = old[j]
  BY <1>1, <1>4
<1>10. QED BY <1>4, <1>5, <1>6, <1>8, <1>9 DEF n, old

(* A variable that is built takes the place of another one, or of a hole;  *)
(* with NULL, the other one goes.                                          *)
BuiltFrom(r) == {r} \ {NULL}

LEMMA ReplacedFacts ==
    ASSUME NEW c, NEW r, VarsOK(c, BuiltFrom(r)), NEW i \in 1 .. c.array.count,
           r # NULL => Only(c, i, c.vars[r].name)
    PROVE  LET d == Replaced(c, i, r)
           IN  /\ VarsOK(d, {}) /\ d.map = c.map /\ d.err = c.err /\ d.array.count = c.array.count
               /\ InUse(d) = (InUse(c) \ {i}) \cup (IF r = NULL THEN {} ELSE {i})
               /\ \A j \in InUse(c) \ {i} : PairAt(d, j) = PairAt(c, j)
               /\ r # NULL => PairAt(d, i) = <<c.vars[r].name, c.vars[r].value>>
<1> DEFINE old == c.array.slots[i]
           f == ForgetVariable(c, old)
           s == Slotted(c.array, i, r)
           d == [f EXCEPT !.array = s]
           S == c.array.slots
<1>1. /\ NULL \notin c.held /\ ArrayOK(c.array)
      /\ \A x \in Blocks(c) \cup BuiltFrom(r) : x # NULL /\ x # c.array.block /\ x \in c.held
      /\ DOMAIN c.vars = Blocks(c) \cup BuiltFrom(r)
      /\ \A j, k \in InUse(c) : S[j] = S[k] => j = k
  BY BlockFacts
<1>2. \A j \in 1 .. c.array.count : (j \in InUse(c) <=> S[j] # NULL) /\ (S[j] # NULL => S[j] \in Blocks(c))
  BY DEF InUse, Blocks
<1>3. /\ IsEnvCall(f) /\ f.held = c.held \ {old} /\ f.vars = VariableGone(c.vars, old)
      /\ f.array = c.array /\ f.twice = c.twice /\ f.map = c.map /\ f.err = c.err
  <2>1. old = NULL \/ old \in c.held
    BY <1>1, <1>2
  <2>2. IsEnvCall(c)
    BY DEF VarsOK
  <2> HIDE DEF old
  <2>3. QED BY <1>1, <2>1, <2>2, ForgetFacts
<1>4. /\ ArrayOK(s) /\ s.block = c.array.block /\ s.count = c.array.count
      /\ s.slots[i] = r /\ \A j \in 1 .. c.array.count : j # i => s.slots[j] = S[j]
  BY <1>1, SlottedFacts
<1> HIDE DEF f, s
<1>5. /\ IsEnvCall(d) /\ d.array = s /\ d.held = f.held /\ d.vars = f.vars
      /\ d.twice = c.twice /\ d.map = c.map /\ d.err = c.err
  <2>1. /\ IsCall(d) /\ DOMAIN d = DOMAIN f /\ d.array = s
        /\ \A x \in DOMAIN f \ {"array"} : d[x] = f[x]
    BY <1>3, SetArray DEF IsEnvCall
  <2> HIDE DEF d
  <2>2. QED BY <1>3, <2>1 DEF IsEnvCall, EnvFields, IsCall, Used
<1>6. Replaced(c, i, r) = d
  BY DEF Replaced, f, s
<1> HIDE DEF d, S
<1>7. InUse(d) = (InUse(c) \ {i}) \cup (IF r = NULL THEN {} ELSE {i})
  BY <1>4, <1>5 DEF InUse, S
<1>8. \A j \in InUse(c) \ {i} : j \in 1 .. c.array.count /\ d.array.slots[j] = S[j] /\ S[j] \in Blocks(c) /\ S[j] # old
  <2>1. \A j \in InUse(c) : j \in 1 .. c.array.count /\ S[j] # NULL
    BY DEF InUse, S
  <2>2. \A j \in InUse(c) \ {i} : S[j] # S[i]
    BY <1>1, <1>2, <2>1
  <2>3. QED BY <1>2, <1>4, <1>5, <2>1, <2>2 DEF S
<1>9. Blocks(d) = (Blocks(c) \cup BuiltFrom(r)) \ {old}
  <2>1. ASSUME NEW x \in Blocks(d) PROVE x \in (Blocks(c) \cup BuiltFrom(r)) \ {old}
    <3>1. PICK j \in InUse(d) : x = d.array.slots[j]
      BY DEF Blocks
    <3>2. CASE j \in InUse(c) \ {i}
      BY <1>8, <3>1, <3>2
    <3>3. CASE r # NULL /\ j = i
      <4>1. x = r /\ r \in BuiltFrom(r)
        BY <1>4, <1>5, <3>1, <3>3 DEF BuiltFrom
      <4>2. old = NULL \/ old \in Blocks(c)
        BY <1>2 DEF S
      <4>3. r \notin Blocks(c)
        BY <4>1 DEF VarsOK
      <4>4. QED BY <3>3, <4>1, <4>2, <4>3
    <3>4. QED BY <1>7, <3>1, <3>2, <3>3
  <2>2. ASSUME NEW x \in (Blocks(c) \cup BuiltFrom(r)) \ {old} PROVE x \in Blocks(d)
    <3>1. CASE x \in Blocks(c)
      <4>1. PICK j \in InUse(c) : x = S[j]
        BY <3>1 DEF Blocks, S
      <4>2. j # i
        BY <2>2, <4>1 DEF S
      <4>3. j \in InUse(d) /\ d.array.slots[j] = x
        BY <1>7, <1>8, <4>1, <4>2
      <4>4. QED BY <4>3 DEF Blocks
    <3>2. CASE x \in BuiltFrom(r)
      <4>1. x = r /\ r # NULL
        BY <3>2 DEF BuiltFrom
      <4>2. i \in InUse(d) /\ d.array.slots[i] = x
        BY <1>4, <1>5, <1>7, <4>1
      <4>3. QED BY <4>2 DEF Blocks
    <3>3. QED BY <2>2, <3>1, <3>2
  <2>3. QED BY <2>1, <2>2
<1>10. d.vars = [x \in Blocks(d) |-> c.vars[x]] /\ \A x \in Blocks(d) : d.vars[x] = c.vars[x]
  <2>1. d.vars = [x \in DOMAIN c.vars \ {old} |-> c.vars[x]]
    BY <1>3, <1>5 DEF VariableGone
  <2>2. DOMAIN c.vars \ {old} = Blocks(d)
    BY <1>1, <1>9
  <2> HIDE DEF Blocks, old
  <2>3. d.vars = [x \in Blocks(d) |-> c.vars[x]]
    BY <2>1, <2>2
  <2>4. QED BY <2>3
<1>11. \A j \in InUse(c) \ {i} : PairAt(d, j) = PairAt(c, j)
  BY <1>8, <1>9, <1>10 DEF PairAt, S
<1>12. r # NULL => d.array.slots[i] = r /\ PairAt(d, i) = <<c.vars[r].name, c.vars[r].value>>
  <2> SUFFICES ASSUME r # NULL PROVE d.array.slots[i] = r /\ PairAt(d, i) = <<c.vars[r].name, c.vars[r].value>>
    OBVIOUS
  <2>1. i \in InUse(d) /\ d.array.slots[i] = r
    BY <1>4, <1>5, <1>7
  <2>2. r \in Blocks(d)
    BY <2>1 DEF Blocks
  <2>3. QED BY <1>10, <2>1, <2>2 DEF PairAt
<1>13. \A j, k \in InUse(d) : d.vars[d.array.slots[j]].name = d.vars[d.array.slots[k]].name => j = k
  <2>1. \A j \in InUse(c) \ {i} : d.vars[d.array.slots[j]].name = c.vars[S[j]].name
    BY <1>8, <1>9, <1>10
  <2>2. \A j, k \in InUse(c) : c.vars[S[j]].name = c.vars[S[k]].name => j = k
    BY DEF VarsOK, S
  <2>3. r # NULL => /\ d.vars[d.array.slots[i]].name = c.vars[r].name
                    /\ \A j \in InUse(c) \ {i} : c.vars[S[j]].name # c.vars[r].name
    <3> SUFFICES ASSUME r # NULL
                 PROVE  /\ d.vars[d.array.slots[i]].name = c.vars[r].name
                        /\ \A j \in InUse(c) \ {i} : c.vars[S[j]].name # c.vars[r].name
      OBVIOUS
    <3>1. r \in Blocks(d) /\ d.array.slots[i] = r
      <4>1. i \in InUse(d) /\ d.array.slots[i] = r
        BY <1>7, <1>12
      <4>2. QED BY <4>1 DEF Blocks
    <3>2. QED BY <1>10, <3>1 DEF Only, S
  <2>4. QED BY <1>7, <2>1, <2>2, <2>3
<1>14. \A x \in Blocks(d) : OfKind("variable", x) /\ Variable(d.vars[x])
  <2>1. \A x \in Blocks(c) \cup BuiltFrom(r) : OfKind("variable", x) /\ Variable(c.vars[x])
    BY DEF VarsOK
  <2> HIDE DEF Blocks, BuiltFrom, OfKind, Variable
  <2>2. QED BY <1>9, <1>10, <2>1
<1>15. d.held = ({d.array.block} \ {NULL}) \cup Blocks(d) \cup {}
  <2>1. c.held = ({c.array.block} \ {NULL}) \cup Blocks(c) \cup BuiltFrom(r)
    BY DEF VarsOK
  <2>2. old # c.array.block \/ c.array.block = NULL
    BY <1>1, <1>2 DEF S
  <2>3. QED BY <1>3, <1>4, <1>5, <1>9, <2>1, <2>2
<1>16. VarsOK(d, {})
  <2>1. ArrayOK(d.array) /\ d.twice = FALSE
    BY <1>4, <1>5 DEF VarsOK
  <2>2. Blocks(d) \cup {} = Blocks(d) /\ Blocks(d) \cap {} = {} /\ d.vars = [x \in Blocks(d) |-> d.vars[x]]
    BY <1>10
  <2>3. QED BY ONLY <1>5, <1>13, <1>14, <1>15, <2>1, <2>2 DEF VarsOK
<1>17. QED BY <1>4, <1>5, <1>6, <1>7, <1>11, <1>12, <1>16

(* A variable that is built takes a new entry, or is given back when there *)
(* is no storage for the array.                                            *)
LEMMA AddedVariable ==
    ASSUME NEW c, NEW r, VarsOK(c, {r}), Only(c, 0, c.vars[r].name)
    PROVE  LET d == Added(c, r)
           IN  /\ VarsOK(d, {}) /\ d.map = c.map
               /\ Pairs(d) = IF d.err = 0 THEN Pairs(c) \cup {<<c.vars[r].name, c.vars[r].value>>}
                             ELSE Pairs(c)
<1> DEFINE a == arrayadd(c, r)
           n == c.array.count
<1>1. /\ NULL \notin c.held /\ ArrayOK(c.array) /\ IsCall(c) /\ Holds(c)
      /\ \A x \in Blocks(c) \cup {r} : x # NULL /\ x # c.array.block /\ x \in c.held
      /\ DOMAIN c.vars = Blocks(c) \cup {r} /\ n \in Nat
  BY BlockFacts
<1>2. /\ IsCall(a) /\ Frame(c, a) /\ a.twice = c.twice /\ ArrayOK(a.array) /\ Moves(c, a)
      /\ a.err # 0 => a.array = c.array /\ a.held = c.held
      /\ a.err = 0 => /\ a.array.block # NULL /\ a.array.count = n + 1 /\ a.array.slots[n + 1] = r
                      /\ \A i \in 1 .. n : a.array.slots[i] = c.array.slots[i]
  BY <1>1, AddFacts
<1>3. Added(c, r) = IF a.err = 0 THEN a ELSE ForgetVariable(a, r)
  BY DEF Added
<1> HIDE DEF a
<1>4. IsEnvCall(a) /\ a.vars = c.vars /\ a.map = c.map
  BY <1>2 DEF Frame, VarsOK, IsEnvCall, EnvFields, Used
<1>5. CASE a.err # 0
  <2> DEFINE d == ForgetVariable(a, r)
  <2>1. a.array = c.array /\ a.held = c.held /\ a.twice = FALSE
    BY <1>2, <1>5 DEF VarsOK
  <2>2. InUse(a) = InUse(c) /\ Blocks(a) = Blocks(c)
    BY <2>1 DEF InUse, Blocks
  <2>3. VarsOK(a, {r})
    BY <1>4, <2>1, <2>2 DEF VarsOK
  <2>4. Pairs(a) = Pairs(c)
    BY <1>4, <2>1, <2>2 DEF Pairs
  <2>5. VarsOK(d, {}) /\ d.map = a.map /\ Pairs(d) = Pairs(a) /\ d.err = a.err
    BY <2>3, DroppedFacts
  <2>6. QED BY <1>3, <1>4, <1>5, <2>4, <2>5
<1>6. CASE a.err = 0
  <2> DEFINE S == c.array.slots
             T == a.array.slots
  <2>1. T[n + 1] = r /\ \A i \in 1 .. n : T[i] = S[i]
    BY <1>2, <1>6
  <2>2. \A i \in InUse(c) : i \in 1 .. n /\ T[i] = S[i] /\ i # n + 1 /\ S[i] \in Blocks(c)
    BY <1>1, <2>1 DEF InUse, Blocks
  <2>3. InUse(a) = InUse(c) \cup {n + 1}
    <3>1. r # NULL /\ a.array.count = n + 1
      BY <1>1, <1>2, <1>6
    <3>2. \A i : i \in 1 .. n + 1 <=> i \in 1 .. n \/ i = n + 1
      BY <1>1
    <3>3. QED BY <2>1, <3>1, <3>2 DEF InUse
  <2>4. Blocks(a) = Blocks(c) \cup {r}
    <3>1. Blocks(a) = {T[i] : i \in InUse(a)} /\ Blocks(c) = {S[i] : i \in InUse(c)}
      BY DEF Blocks
    <3> HIDE DEF S, T
    <3>2. \A x \in Blocks(a) : x \in Blocks(c) \cup {r}
      BY <2>1, <2>2, <2>3, <3>1
    <3>3. \A x \in Blocks(c) \cup {r} : x \in Blocks(a)
      BY <2>1, <2>2, <2>3, <3>1
    <3>4. QED BY <3>2, <3>3
  <2>5. a.held = ({a.array.block} \ {NULL}) \cup Blocks(a)
    <3>1. c.held = ({c.array.block} \ {NULL}) \cup Blocks(c) \cup {r}
      BY DEF VarsOK
    <3>2. a.array.block # NULL
      BY <1>2, <1>6
    <3>3. QED BY <1>1, <1>2, <2>4, <3>1, <3>2 DEF Moves
  <2>6. \A i, j \in InUse(a) : a.vars[T[i]].name = a.vars[T[j]].name => i = j
    <3>1. \A i, j \in InUse(c) : c.vars[S[i]].name = c.vars[S[j]].name => i = j
      BY DEF VarsOK
    <3>2. \A j \in InUse(c) : c.vars[S[j]].name # c.vars[r].name
      BY <1>1, <2>2 DEF Only
    <3> HIDE DEF S, T
    <3>3. QED BY <1>4, <2>1, <2>2, <2>3, <3>1, <3>2
  <2>7. \A x \in Blocks(a) : OfKind("variable", x) /\ Variable(a.vars[x])
    <3>1. \A x \in Blocks(c) \cup {r} : OfKind("variable", x) /\ Variable(c.vars[x])
      BY DEF VarsOK
    <3>2. QED BY ONLY <1>4, <2>4, <3>1
  <2>8. a.vars = [x \in Blocks(a) |-> a.vars[x]]
    <3>1. c.vars = [x \in Blocks(c) \cup {r} |-> c.vars[x]]
      BY DEF VarsOK
    <3>2. QED BY ONLY <1>4, <2>4, <3>1
  <2>9. VarsOK(a, {})
    <3>1. a.twice = FALSE
      BY <1>2 DEF VarsOK
    <3>2. Blocks(a) \cup {} = Blocks(a) /\ Blocks(a) \cap {} = {}
          /\ a.held = ({a.array.block} \ {NULL}) \cup Blocks(a) \cup {}
      BY <2>5
    <3>3. QED BY ONLY <1>2, <1>4, <2>6, <2>7, <2>8, <3>1, <3>2 DEF VarsOK
  <2>10. Pairs(a) = Pairs(c) \cup {<<c.vars[r].name, c.vars[r].value>>}
    <3>1. /\ \A i \in InUse(c) : PairAt(a, i) = PairAt(c, i)
          /\ PairAt(a, n + 1) = <<c.vars[r].name, c.vars[r].value>>
      BY <1>4, <2>1, <2>2 DEF PairAt
    <3>2. Pairs(a) = {PairAt(a, i) : i \in InUse(a)} /\ Pairs(c) = {PairAt(c, i) : i \in InUse(c)}
      BY DEF Pairs, PairAt
    <3>3. QED BY ONLY <2>3, <3>1, <3>2
  <2>11. QED BY <1>3, <1>4, <1>6, <2>9, <2>10
<1>7. QED BY <1>5, <1>6

----------------------------------------------------------------------------
(* setenv() *)

(* Only the array, the variables and what is held matter. *)
LEMMA SameVariables ==
    ASSUME NEW c, NEW extra, VarsOK(c, extra), NEW d, IsEnvCall(d), d.array = c.array,
           d.vars = c.vars, d.held = c.held, d.twice = c.twice
    PROVE  VarsOK(d, extra) /\ Pairs(d) = Pairs(c) /\ InUse(d) = InUse(c) /\ Blocks(d) = Blocks(c)
<1>1. InUse(d) = InUse(c) /\ Blocks(d) = Blocks(c)
  BY DEF InUse, Blocks
<1>2. Pairs(d) = Pairs(c)
  BY <1>1 DEF Pairs
<1>3. VarsOK(d, extra)
  BY <1>1 DEF VarsOK
<1>4. QED BY <1>1, <1>2, <1>3

LEMMA SetMap ==
    ASSUME NEW c, NEW extra, VarsOK(c, extra), NEW m
    PROVE  LET d == [c EXCEPT !.map = m]
           IN  /\ VarsOK(d, extra) /\ Pairs(d) = Pairs(c) /\ d.map = m
               /\ d.array = c.array /\ d.vars = c.vars /\ d.held = c.held /\ d.twice = c.twice
<1> DEFINE d == [c EXCEPT !.map = m]
<1>1. IsEnvCall(c) /\ IsCall(c)
  BY DEF VarsOK, IsEnvCall
<1>2. /\ DOMAIN d = DOMAIN c /\ d = [x \in DOMAIN d |-> d[x]] /\ d.map = m
      /\ \A x \in DOMAIN c \ {"map"} : d[x] = c[x]
  BY <1>1 DEF IsCall, IsEnvCall, EnvFields
<1> HIDE DEF d
<1>3. /\ IsEnvCall(d) /\ d.array = c.array /\ d.vars = c.vars /\ d.held = c.held /\ d.twice = c.twice
  BY <1>1, <1>2 DEF IsCall, IsEnvCall, EnvFields, Used
<1>4. VarsOK(d, extra) /\ Pairs(d) = Pairs(c)
  BY <1>3, SameVariables
<1>5. QED BY <1>2, <1>3, <1>4 DEF d

LEMMA SetErr ==
    ASSUME NEW c, NEW extra, VarsOK(c, extra), NEW e
    PROVE  LET d == [c EXCEPT !.err = e]
           IN  /\ VarsOK(d, extra) /\ Pairs(d) = Pairs(c) /\ d.map = c.map /\ d.err = e
               /\ d.array = c.array /\ d.vars = c.vars /\ d.held = c.held /\ d.twice = c.twice
<1> DEFINE d == [c EXCEPT !.err = e]
<1>1. IsEnvCall(c) /\ IsCall(c)
  BY DEF VarsOK, IsEnvCall
<1>2. /\ DOMAIN d = DOMAIN c /\ d = [x \in DOMAIN d |-> d[x]] /\ d.err = e
      /\ \A x \in DOMAIN c \ {"err"} : d[x] = c[x]
  BY <1>1 DEF IsCall, IsEnvCall, Used
<1> HIDE DEF d
<1>3. /\ IsEnvCall(d) /\ d.array = c.array /\ d.vars = c.vars /\ d.held = c.held /\ d.twice = c.twice
      /\ d.map = c.map
  BY <1>1, <1>2 DEF IsCall, IsEnvCall, EnvFields, Used
<1>4. VarsOK(d, extra) /\ Pairs(d) = Pairs(c)
  BY <1>3, SameVariables
<1>5. QED BY <1>2, <1>3, <1>4 DEF d

(* The variable found is the only one of that name. *)
LEMMA FoundFacts ==
    ASSUME NEW c, NEW extra, VarsOK(c, extra), NEW name, IsName(name)
    PROVE  LET i == FoundAt(c, name, FALSE)
           IN  i \in {0} \cup InUse(c) /\ Only(c, i, name)
<1> DEFINE i == FoundAt(c, name, FALSE)
           S == c.array.slots
<1>1. \A j \in InUse(c) : SameName(c.vars[S[j]].name, name, FALSE) <=> c.vars[S[j]].name = name
  <2>1. \A x \in Blocks(c) : IsName(c.vars[x].name)
    BY DEF VarsOK, Variable, IsPlain
  <2>2. \A j \in InUse(c) : S[j] \in Blocks(c)
    BY DEF Blocks
  <2> HIDE DEF S
  <2>3. ASSUME NEW j \in InUse(c)
        PROVE  SameName(c.vars[S[j]].name, name, FALSE) <=> c.vars[S[j]].name = name
    <3>1. IsName(c.vars[S[j]].name)
      BY <2>1, <2>2
    <3>2. QED BY <3>1, NameFacts
  <2>4. QED BY <2>3
<1>2. /\ Matches(c, name, FALSE) = {j \in InUse(c) : SameName(c.vars[S[j]].name, name, FALSE)}
      /\ \/ Matches(c, name, FALSE) = {} /\ i = 0
         \/ Matches(c, name, FALSE) # {} /\ i \in Matches(c, name, FALSE)
  <2>1. ArrayOK(c.array)
    BY DEF VarsOK
  <2> HIDE DEF i
  <2>2. QED BY <2>1, MatchFacts DEF i
<1>3. \A j, k \in InUse(c) : c.vars[S[j]].name = c.vars[S[k]].name => j = k
  BY DEF VarsOK
<1>4. \A j \in InUse(c) : j # 0
  BY BlockFacts DEF InUse
<1> HIDE DEF i, S
<1>5. CASE Matches(c, name, FALSE) = {} /\ i = 0
  <2>1. \A j \in InUse(c) : c.vars[S[j]].name # name /\ j # i
    BY <1>1, <1>2, <1>4, <1>5
  <2>2. QED BY <1>5, <2>1 DEF Only, S, i
<1>6. CASE Matches(c, name, FALSE) # {} /\ i \in Matches(c, name, FALSE)
  <2>1. i \in InUse(c) /\ c.vars[S[i]].name = name
    BY <1>1, <1>2, <1>6
  <2>2. \A j \in InUse(c) : c.vars[S[j]].name = name <=> j = i
    BY <1>3, <2>1
  <2>3. QED BY <2>1, <2>2 DEF Only, S, i
<1>7. QED BY <1>2, <1>5, <1>6

LEMMA KeepFacts ==
    ASSUME NEW c, NEW r, VarsOK(c, {r}), MapOK(c), c.err = 0, NEW given, NEW rewrite \in BOOLEAN
    PROVE  LET d == KeepVariable(c, given, r, rewrite) IN VarsOK(d, {}) /\ MapOK(d)
<1> DEFINE name == c.vars[r].name
           value == c.vars[r].value
           f == FoundAt(c, name, FALSE)
           i == SlotFor(c, name, given)
           s == IF i # 0 THEN Replaced(c, i, r) ELSE Added(c, r)
           d == KeepVariable(c, given, r, rewrite)
<1>1. r # NULL /\ BuiltFrom(r) = {r} /\ IsName(name) /\ c.array.count \in Nat
  <2>1. r # NULL /\ c.array.count \in Nat
    BY BlockFacts
  <2>2. IsName(name)
    BY DEF VarsOK, Variable, IsPlain
  <2>3. QED BY <2>1, <2>2 DEF BuiltFrom
<1>2. f \in {0} \cup InUse(c) /\ Only(c, f, name)
  BY <1>1, FoundFacts
<1>3. i \in {0} \cup 1 .. c.array.count /\ Only(c, i, name) /\ (f # 0 => i = f) /\ (i = 0 => f = 0)
  <2>1. CASE f # 0
    BY <1>2, <2>1 DEF SlotFor, InUse
  <2>2. CASE f = 0
    <3>1. i = Lowest(Holes(c))
      BY <2>2 DEF SlotFor
    <3>2. i = 0 \/ i \in (1 .. c.array.count) \ InUse(c)
      BY <3>1, MatchFacts DEF VarsOK
    <3>3. \A j \in InUse(c) : j \in 1 .. c.array.count /\ j # 0
      BY <1>1 DEF InUse
    <3> HIDE DEF i, f, name
    <3>4. Only(c, i, name)
      BY <1>2, <2>2, <3>2, <3>3 DEF Only
    <3>5. QED BY <2>2, <3>2, <3>4
  <2>3. QED BY <2>1, <2>2
<1>4. d = IF f # 0 /\ ~ rewrite THEN ForgetVariable(c, r)
          ELSE IF s.err # 0 THEN s ELSE Recorded(s, name, value)
  BY DEF KeepVariable
<1> HIDE DEF d, i, f
<1>5. CASE f # 0 /\ ~ rewrite
  BY <1>4, <1>5, DroppedFacts DEF MapOK, d
<1>6. CASE ~ (f # 0 /\ ~ rewrite)
  <2>1. /\ VarsOK(s, {}) /\ s.map = c.map
        /\ s.err = 0 => Pairs(s) = OthersOf(c, i) \cup {<<name, value>>}
        /\ s.err # 0 => Pairs(s) = Pairs(c)
    <3>1. CASE i # 0
      <4>1. s = Replaced(c, i, r) /\ i \in 1 .. c.array.count
        BY <1>3, <3>1
      <4>2. VarsOK(c, BuiltFrom(r))
        BY <1>1
      <4> HIDE DEF s, name, value
      <4>3. /\ VarsOK(s, {}) /\ s.map = c.map /\ s.err = c.err
            /\ InUse(s) = (InUse(c) \ {i}) \cup (IF r = NULL THEN {} ELSE {i})
            /\ \A j \in InUse(c) \ {i} : PairAt(s, j) = PairAt(c, j)
            /\ r # NULL => PairAt(s, i) = <<c.vars[r].name, c.vars[r].value>>
        <5>1. r # NULL => Only(c, i, c.vars[r].name)
          BY <1>3 DEF name
        <5>2. QED BY <4>1, <4>2, <5>1, ReplacedFacts
      <4>4. Pairs(s) = {PairAt(s, j) : j \in InUse(s)}
        BY DEF Pairs, PairAt
      <4>5. Pairs(s) = OthersOf(c, i) \cup {<<name, value>>}
        BY ONLY <1>1, <4>3, <4>4 DEF OthersOf, name, value
      <4>6. QED BY <4>3, <4>5
    <3>2. CASE i = 0
      <4>1. s = Added(c, r) /\ Only(c, 0, c.vars[r].name)
        BY <1>3, <3>2
      <4> HIDE DEF s, name, value
      <4>2. /\ VarsOK(s, {}) /\ s.map = c.map
            /\ Pairs(s) = IF s.err = 0 THEN Pairs(c) \cup {<<name, value>>} ELSE Pairs(c)
        BY <4>1, AddedVariable DEF name, value
      <4>3. OthersOf(c, i) = Pairs(c)
        <5>1. InUse(c) \ {0} = InUse(c)
          BY <1>1 DEF InUse
        <5>2. QED BY <3>2, <5>1 DEF OthersOf, Pairs, PairAt
      <4>4. QED BY <4>2, <4>3
    <3>3. QED BY <1>3, <3>1, <3>2
  <2> HIDE DEF s
  <2>2. CASE s.err # 0
    <3>1. d = s
      BY <1>4, <1>6, <2>2
    <3>2. QED BY <2>1, <2>2, <3>1 DEF MapOK, d
  <2>3. CASE s.err = 0
    <3> DEFINE m == {v \in s.map : v[1] # name} \cup {<<name, value>>}
    <3>1. d = [s EXCEPT !.map = m]
      BY <1>4, <1>6, <2>3 DEF Recorded
    <3>2. VarsOK(d, {}) /\ Pairs(d) = Pairs(s) /\ d.map = m
      BY <2>1, <3>1, SetMap
    <3>3. {v \in Pairs(c) : v[1] # name} = OthersOf(c, i)
      BY <1>3, OthersFacts
    <3>4. m = OthersOf(c, i) \cup {<<name, value>>}
      BY <2>1, <3>3 DEF MapOK
    <3>5. QED BY <2>1, <2>3, <3>2, <3>4 DEF MapOK, d
  <2>4. QED BY <2>2, <2>3
<1>7. QED BY <1>5, <1>6

(* What setenv() leaves is in order, whatever was refused. *)
LEMMA SetenvFacts ==
    ASSUME NEW c, VarsOK(c, {}), MapOK(c), NEW name, IsName(name), NEW value, IsValue(value),
           NEW rewrite \in BOOLEAN
    PROVE  LET d == setenv(c, name, value, rewrite) IN VarsOK(d, {}) /\ MapOK(d)
<1> DEFINE b == [c EXCEPT !.err = 0]
           o == Obtain(b, "variable")
           r == o.got
           v == [name |-> Trimmed(name), value |-> Unled(value)]
           k == [o EXCEPT !.vars = VariableNew(o.vars, r, v)]
<1>1. VarsOK(b, {}) /\ Pairs(b) = Pairs(c) /\ b.map = c.map /\ b.err = 0
  BY SetErr
<1> HIDE DEF b
<1>2. /\ IsCall(o) /\ Frame(b, o) /\ Obtained(b, o, "variable")
      /\ o.array = b.array /\ o.err = b.err /\ o.twice = b.twice
  BY <1>1, ObtainFacts DEF VarsOK, IsEnvCall
<1> HIDE DEF o
<1>3. IsEnvCall(o) /\ o.vars = b.vars /\ o.map = b.map
  BY <1>1, <1>2 DEF Frame, VarsOK, IsEnvCall, EnvFields, Used
<1>4. CASE name.word = "" \/ value = NoEnvValue
  <2> DEFINE d == [c EXCEPT !.err = 1]
  <2>1. setenv(c, name, value, rewrite) = d
    BY <1>4 DEF setenv
  <2>2. VarsOK(d, {}) /\ Pairs(d) = Pairs(c) /\ d.map = c.map
    BY SetErr
  <2>3. QED BY <2>1, <2>2 DEF MapOK
<1>5. CASE ~ (name.word = "" \/ value = NoEnvValue) /\ r = NULL
  <2> DEFINE d == [o EXCEPT !.err = 1]
  <2>1. setenv(c, name, value, rewrite) = d
    BY <1>5 DEF setenv, BuildVariable, b, o
  <2>2. o.held = b.held
    BY <1>2, <1>5 DEF Obtained
  <2>3. VarsOK(o, {}) /\ Pairs(o) = Pairs(b)
    BY <1>1, <1>2, <1>3, <2>2, SameVariables
  <2>4. VarsOK(d, {}) /\ Pairs(d) = Pairs(o) /\ d.map = o.map
    BY <2>3, SetErr
  <2>5. QED BY <1>1, <1>3, <2>1, <2>3, <2>4 DEF MapOK
<1>6. CASE ~ (name.word = "" \/ value = NoEnvValue) /\ r # NULL
  <2>1. setenv(c, name, value, rewrite) = KeepVariable(k, name, r, rewrite)
    BY <1>6 DEF setenv, BuildVariable, b, o
  <2>2. OfKind("variable", r) /\ r \notin b.held /\ o.held = b.held \cup {r}
    BY <1>2, <1>6 DEF Obtained
  <2>3. Variable(v)
    <3>1. v.name = Trimmed(name) /\ v.value = Unled(value)
      OBVIOUS
    <3>2. IsPlain(Trimmed(name)) /\ IsValue(Unled(value))
      BY NameFacts
    <3>3. QED BY <3>1, <3>2 DEF Variable
  <2> HIDE DEF v
  <2>4. DOMAIN b.vars = Blocks(b) /\ r \notin Blocks(b)
    <3>1. DOMAIN b.vars = Blocks(b) \cup {} /\ \A x \in Blocks(b) \cup {} : x \in b.held
      BY <1>1, BlockFacts
    <3>2. QED BY <2>2, <3>1
  <2>5. /\ IsEnvCall(k) /\ k.vars = VariableNew(o.vars, r, v) /\ k.held = o.held /\ k.array = o.array
        /\ k.twice = o.twice /\ k.map = o.map /\ k.err = o.err
    <3>1. /\ DOMAIN k = DOMAIN o /\ k = [x \in DOMAIN k |-> k[x]] /\ k.vars = VariableNew(o.vars, r, v)
          /\ \A x \in DOMAIN o \ {"vars"} : k[x] = o[x]
      BY <1>2, <1>3 DEF IsCall, IsEnvCall, EnvFields
    <3> HIDE DEF k
    <3>2. QED BY <1>2, <1>3, <3>1 DEF IsCall, IsEnvCall, EnvFields, Used
  <2> HIDE DEF k
  <2>6. InUse(k) = InUse(b) /\ Blocks(k) = Blocks(b)
    BY <1>2, <2>5 DEF InUse, Blocks
  <2>7. /\ k.vars = [x \in Blocks(k) \cup {r} |-> k.vars[x]] /\ k.vars[r] = v
        /\ \A x \in Blocks(k) : k.vars[x] = b.vars[x]
    <3>1. k.vars = [x \in Blocks(k) \cup {r} |-> IF x = r THEN v ELSE b.vars[x]]
      BY <1>3, <2>4, <2>5, <2>6 DEF VariableNew
    <3> HIDE DEF Blocks
    <3>2. \A x \in Blocks(k) \cup {r} : k.vars[x] = IF x = r THEN v ELSE b.vars[x]
      BY <3>1
    <3>3. k.vars = [x \in Blocks(k) \cup {r} |-> k.vars[x]]
      BY <3>1
    <3>4. QED BY <2>4, <2>6, <3>2, <3>3
  <2>8. \A i \in InUse(k) : k.array.slots[i] = b.array.slots[i] /\ b.array.slots[i] \in Blocks(k)
    BY <1>2, <2>5, <2>6 DEF Blocks
  <2>9. VarsOK(k, {r})
    <3>1. /\ \A x \in Blocks(b) : OfKind("variable", x) /\ Variable(b.vars[x])
          /\ \A i, j \in InUse(b) : b.vars[b.array.slots[i]].name = b.vars[b.array.slots[j]].name => i = j
          /\ b.held = ({b.array.block} \ {NULL}) \cup Blocks(b) /\ ArrayOK(b.array) /\ b.twice = FALSE
      BY <1>1 DEF VarsOK
    <3>2. \A x \in Blocks(k) \cup {r} : OfKind("variable", x) /\ Variable(k.vars[x])
      BY ONLY <2>2, <2>3, <2>6, <2>7, <3>1
    <3>3. \A i, j \in InUse(k) : k.vars[k.array.slots[i]].name = k.vars[k.array.slots[j]].name => i = j
      <4>1. \A i \in InUse(k) : k.vars[k.array.slots[i]] = b.vars[b.array.slots[i]]
        BY ONLY <2>7, <2>8
      <4>2. QED BY ONLY <2>6, <3>1, <4>1
    <3>4. k.held = ({k.array.block} \ {NULL}) \cup Blocks(k) \cup {r}
      BY <1>2, <2>2, <2>5, <2>6, <3>1
    <3>5. ArrayOK(k.array) /\ k.twice = FALSE /\ Blocks(k) \cap {r} = {}
      BY <1>2, <2>4, <2>5, <2>6, <3>1
    <3>6. QED BY ONLY <2>5, <2>7, <3>2, <3>3, <3>4, <3>5 DEF VarsOK
  <2>10. Pairs(k) = Pairs(b)
    <3>1. \A i \in InUse(k) : PairAt(k, i) = PairAt(b, i)
      BY <2>7, <2>8 DEF PairAt
    <3>2. Pairs(k) = {PairAt(k, i) : i \in InUse(k)} /\ Pairs(b) = {PairAt(b, i) : i \in InUse(b)}
      BY DEF Pairs, PairAt
    <3>3. QED BY ONLY <2>6, <3>1, <3>2
  <2>11. MapOK(k) /\ k.err = 0
    BY <1>1, <1>2, <1>3, <2>5, <2>10 DEF MapOK
  <2>12. QED BY <2>1, <2>9, <2>11, KeepFacts
<1>7. QED BY <1>4, <1>5, <1>6

----------------------------------------------------------------------------
(* unsetenv() *)

(* The function of its loop exists: it can be built entry by entry. *)
Unsets(f, c, n, name) == f[0] = c /\ \A i \in 1 .. n : f[i] = UnsetAt(f[i - 1], i, name)

LEMMA UnsetDone ==
    ASSUME NEW c, NEW n \in Nat, NEW name
    PROVE  \E f : UnsetUpTo(c, n, name) = f[n] /\ Unsets(f, c, n, name)
<1> DEFINE Body(f, m) == [i \in 0 .. m |-> IF i = 0 THEN c ELSE UnsetAt(f[i - 1], i, name)]
           Whole(m) == \E f : f = Body(f, m)
           Missing == {m \in Nat : ~ Whole(m)}
<1>1. ASSUME Missing # {} PROVE FALSE
  <2>1. PICK m \in Missing : \A j \in Missing : m <= j
    BY <1>1, Least
  <2>2. m \in Nat /\ ~ Whole(m)
    BY <2>1
  <2>3. CASE m = 0
    <3> DEFINE f == [i \in 0 .. 0 |-> c]
    <3>1. \A i \in 0 .. 0 : i = 0
      OBVIOUS
    <3>2. f = Body(f, 0)
      BY <3>1
    <3>3. QED BY <2>2, <2>3, <3>2
  <2>4. CASE m > 0
    <3>1. m - 1 \in Nat /\ m - 1 < m
      BY <2>2, <2>4
    <3>2. m - 1 \notin Missing
      <4> HIDE DEF Missing
      <4>1. QED BY <2>1, <2>2, <3>1
    <3>3. Whole(m - 1)
      BY <3>1, <3>2
    <3>4. PICK g : g = Body(g, m - 1)
      BY <3>3
    <3> DEFINE f == [i \in 0 .. m |-> IF i = m THEN UnsetAt(g[m - 1], m, name) ELSE g[i]]
    <3>5. \A i \in 0 .. m - 1 : g[i] = IF i = 0 THEN c ELSE UnsetAt(g[i - 1], i, name)
      BY <3>4
    <3>6. f[m] = UnsetAt(g[m - 1], m, name) /\ \A i \in 0 .. m - 1 : f[i] = g[i]
      BY <2>2
    <3>7. ASSUME NEW i \in 0 .. m PROVE f[i] = IF i = 0 THEN c ELSE UnsetAt(f[i - 1], i, name)
      <4>1. CASE i = m
        BY <2>2, <2>4, <3>1, <3>6, <4>1
      <4>2. CASE i # m /\ i # 0
        <5>1. i \in 0 .. m - 1 /\ i - 1 \in 0 .. m - 1
          BY <2>2, <4>2
        <5>2. QED BY <3>5, <3>6, <4>2, <5>1
      <4>3. CASE i # m /\ i = 0
        <5>1. i \in 0 .. m - 1
          BY <2>2, <4>3
        <5>2. QED BY <3>5, <3>6, <4>3, <5>1
      <4>4. QED BY <4>1, <4>2, <4>3
    <3>8. f = Body(f, m)
      <4>1. Body(f, m) = [i \in 0 .. m |-> f[i]]
        BY <3>7
      <4>2. f = [i \in 0 .. m |-> f[i]]
        OBVIOUS
      <4>3. QED BY <4>1, <4>2
    <3> HIDE DEF f, Body
    <3>9. Whole(m)
      BY <3>8
    <3>10. QED BY <2>2, <3>9
  <2>5. QED BY <2>2, <2>3, <2>4
<1>2. Whole(n)
  BY <1>1
<1> DEFINE P(f) == f = Body(f, n)
           d == CHOOSE f : P(f)
<1>3. UnsetUpTo(c, n, name) = d[n]
  BY DEF UnsetUpTo
<1>4. \E f : P(f)
  BY <1>2
<1> HIDE DEF P
<1>5. P(d)
  BY <1>4
<1> HIDE DEF d
<1>6. d = Body(d, n)
  BY <1>5 DEF P
<1>7. \A i \in 0 .. n : d[i] = IF i = 0 THEN c ELSE UnsetAt(d[i - 1], i, name)
  BY <1>6
<1>8. d[0] = c
  BY <1>7
<1>9. ASSUME NEW i \in 1 .. n PROVE d[i] = UnsetAt(d[i - 1], i, name)
  <2>1. i \in 0 .. n /\ i # 0
    OBVIOUS
  <2>2. QED BY <1>7, <2>1
<1>10. QED BY <1>3, <1>8, <1>9 DEF Unsets

(* The loop has unset the variables of that name up to entry k. *)
LEMMA UnsetFacts ==
    ASSUME NEW c, VarsOK(c, {}), MapOK(c), NEW name, IsName(name)
    PROVE  LET d == unsetenv(c, name) IN VarsOK(d, {}) /\ MapOK(d)
<1> DEFINE n == c.array.count
           nm(j) == PairAt(c, j)[1]
           Left(k) == {j \in InUse(c) : j > k \/ nm(j) # name}
<1>1. n \in Nat /\ \A j \in InUse(c) : j \in 1 .. n
  BY BlockFacts DEF InUse
<1>2. PICK f : UnsetUpTo(c, n, name) = f[n] /\ Unsets(f, c, n, name)
  BY <1>1, UnsetDone
<1>3. f[0] = c /\ \A i \in 1 .. n : f[i] = UnsetAt(f[i - 1], i, name)
  BY <1>2 DEF Unsets
<1> DEFINE Good(k) == /\ VarsOK(f[k], {}) /\ f[k].map = c.map /\ f[k].array.count = n
                      /\ InUse(f[k]) = Left(k)
                      /\ \A j \in Left(k) : PairAt(f[k], j) = PairAt(c, j)
           Bad == {k \in 0 .. n : ~ Good(k)}
<1>4. Good(0)
  <2>1. InUse(c) = Left(0)
    BY <1>1
  <2>2. QED BY <1>3, <2>1
<1>5. ASSUME NEW k \in 1 .. n, Good(k - 1) PROVE Good(k)
  <2> DEFINE b == f[k - 1]
  <2>1. /\ f[k] = UnsetAt(b, k, name) /\ VarsOK(b, {}) /\ b.map = c.map /\ b.array.count = n
        /\ InUse(b) = Left(k - 1) /\ \A j \in Left(k - 1) : PairAt(b, j) = PairAt(c, j)
    BY <1>3, <1>5
  <2> HIDE DEF b
  <2>2. Left(k) = IF k \in InUse(c) /\ nm(k) = name THEN Left(k - 1) \ {k} ELSE Left(k - 1)
    <3>1. \A j \in InUse(c) : j > k - 1 <=> j > k \/ j = k
      BY <1>1
    <3> HIDE DEF nm
    <3>2. QED BY <3>1
  <2>3. k \in Matches(b, name, FALSE) <=> k \in InUse(c) /\ nm(k) = name
    <3>1. Matches(b, name, FALSE) = {i \in InUse(b) : SameName(b.vars[b.array.slots[i]].name, name, FALSE)}
      <4>1. ArrayOK(b.array)
        BY <2>1 DEF VarsOK
      <4>2. QED BY <4>1, MatchFacts
    <3>2. ASSUME k \in InUse(b) PROVE SameName(b.vars[b.array.slots[k]].name, name, FALSE) <=> nm(k) = name
      <4>1. b.array.slots[k] \in Blocks(b)
        BY <3>2 DEF Blocks
      <4>2. IsName(b.vars[b.array.slots[k]].name)
        BY <2>1, <4>1 DEF VarsOK, Variable, IsPlain
      <4>3. b.vars[b.array.slots[k]].name = nm(k)
        BY <2>1, <3>2 DEF PairAt
      <4> HIDE DEF nm
      <4>4. QED BY <4>2, <4>3, NameFacts
    <3>3. k \in InUse(b) <=> k \in InUse(c)
      BY <1>1, <2>1
    <3> HIDE DEF nm
    <3>4. QED BY <3>1, <3>2, <3>3
  <2> HIDE DEF Left, nm
  <2>4. CASE k \in Matches(b, name, FALSE)
    <3>1. f[k] = Replaced(b, k, NULL)
      BY <2>1, <2>4 DEF UnsetAt
    <3> DEFINE d == f[k]
    <3>2. VarsOK(b, BuiltFrom(NULL)) /\ k \in 1 .. b.array.count
      <4>1. BuiltFrom(NULL) = {}
        BY DEF BuiltFrom
      <4>2. QED BY <2>1, <4>1
    <3> HIDE DEF d
    <3>3. /\ VarsOK(d, {}) /\ d.map = b.map /\ d.array.count = b.array.count
          /\ InUse(d) = (InUse(b) \ {k}) \cup {}
          /\ \A j \in InUse(b) \ {k} : PairAt(d, j) = PairAt(b, j)
      <4>1. d = Replaced(b, k, NULL)
        BY <3>1 DEF d
      <4>2. QED BY <3>2, <4>1, ReplacedFacts
    <3>4. InUse(d) = Left(k) /\ \A j \in Left(k) : PairAt(d, j) = PairAt(c, j)
      BY <2>1, <2>2, <2>3, <2>4, <3>3
    <3>5. QED BY <2>1, <3>3, <3>4 DEF d
  <2>5. CASE k \notin Matches(b, name, FALSE)
    <3>1. f[k] = b
      BY <2>1, <2>5 DEF UnsetAt
    <3>2. Left(k) = Left(k - 1)
      BY <2>2, <2>3, <2>5
    <3>3. QED BY <2>1, <3>1, <3>2
  <2>6. QED BY <2>4, <2>5
<1> HIDE DEF Good
<1>6. ASSUME Bad # {} PROVE FALSE
  <2>1. PICK k \in Bad : \A j \in Bad : k <= j
    <3>1. Bad \subseteq Nat
      OBVIOUS
    <3> HIDE DEF Bad
    <3>2. QED BY <1>6, <3>1, Least
  <2>2. k \in 1 .. n /\ k - 1 \in 0 .. n /\ k - 1 < k
    <3>1. k \in 0 .. n /\ ~ Good(k)
      BY <2>1
    <3>2. k # 0
      BY <1>4, <3>1
    <3>3. QED BY <1>1, <3>1, <3>2
  <2>3. Good(k - 1)
    BY <2>1, <2>2
  <2>4. QED BY <1>5, <2>1, <2>2, <2>3
<1>7. Good(n)
  BY <1>1, <1>6
<1> DEFINE e == f[n]
           m == {v \in c.map : v[1] # name}
           d == [e EXCEPT !.map = m]
<1>8. unsetenv(c, name) = d
  BY <1>2 DEF unsetenv
<1>9. /\ VarsOK(e, {}) /\ InUse(e) = Left(n) /\ \A j \in Left(n) : PairAt(e, j) = PairAt(c, j)
  BY <1>7 DEF Good
<1>10. Left(n) = {j \in InUse(c) : nm(j) # name}
  BY <1>1
<1> HIDE DEF Left, e, m, d
<1>11. Pairs(e) = m
  <2>1. Pairs(e) = {PairAt(e, j) : j \in InUse(e)} /\ Pairs(c) = {PairAt(c, j) : j \in InUse(c)}
    BY DEF Pairs, PairAt
  <2>2. Pairs(e) = {PairAt(c, j) : j \in Left(n)}
    BY <1>9, <2>1
  <2>3. ASSUME NEW v \in Pairs(e) PROVE v \in m
    <3>1. PICK j \in Left(n) : v = PairAt(c, j)
      BY <2>2
    <3>2. j \in InUse(c) /\ v[1] # name
      BY <1>10, <3>1
    <3>3. QED BY <2>1, <3>1, <3>2 DEF m, MapOK
  <2>4. ASSUME NEW v \in m PROVE v \in Pairs(e)
    <3>1. v \in Pairs(c) /\ v[1] # name
      BY DEF m, MapOK
    <3>2. PICK j \in InUse(c) : v = PairAt(c, j)
      BY <2>1, <3>1
    <3>3. j \in Left(n)
      BY <1>10, <3>1, <3>2
    <3>4. QED BY <2>2, <3>2, <3>3
  <2>5. QED BY <2>3, <2>4
<1>12. VarsOK(d, {}) /\ Pairs(d) = Pairs(e) /\ d.map = m
  BY <1>9, SetMap DEF d
<1>13. QED BY <1>8, <1>11, <1>12 DEF MapOK

----------------------------------------------------------------------------
(* Lines *)

LEMMA LineFacts ==
    ASSUME NEW c, VarsOK(c, {}), MapOK(c), NEW line \in EnvLines
    PROVE  LET d == __envln(c, line) IN VarsOK(d, {}) /\ MapOK(d)
<1>1. IsName(line.name) /\ IsValue(line.value)
  BY EnvAssumption
<1>2. IsValue(LineValue(line))
  BY <1>1, NameFacts DEF LineValue
<1>3. CASE line.comment \/ ~ line.equals
  BY <1>3 DEF __envln
<1>4. CASE ~ (line.comment \/ ~ line.equals)
  <2>1. __envln(c, line) = setenv(c, line.name, LineValue(line), TRUE)
    BY <1>4 DEF __envln
  <2>2. QED BY <1>1, <1>2, <2>1, SetenvFacts
<1>5. QED BY <1>3, <1>4

(* The function that reads line after line exists. *)
Reads(f, c, lines) == f[0] = c /\ \A i \in 1 .. Len(lines) : f[i] = __envln(f[i - 1], lines[i])

LEMMA ReadDone ==
    ASSUME NEW c, NEW lines, NEW n \in Nat, Len(lines) = n
    PROVE  \E f : ReadLines(c, lines) = f[n] /\ Reads(f, c, lines)
<1> DEFINE Body(f, m) == [i \in 0 .. m |-> IF i = 0 THEN c ELSE __envln(f[i - 1], lines[i])]
           Whole(m) == \E f : f = Body(f, m)
           Missing == {m \in Nat : ~ Whole(m)}
<1>1. ASSUME Missing # {} PROVE FALSE
  <2>1. PICK m \in Missing : \A j \in Missing : m <= j
    BY <1>1, Least
  <2>2. m \in Nat /\ ~ Whole(m)
    BY <2>1
  <2>3. CASE m = 0
    <3> DEFINE f == [i \in 0 .. 0 |-> c]
    <3>1. \A i \in 0 .. 0 : i = 0
      OBVIOUS
    <3>2. f = Body(f, 0)
      BY <3>1
    <3>3. QED BY <2>2, <2>3, <3>2
  <2>4. CASE m > 0
    <3>1. m - 1 \in Nat /\ m - 1 < m
      BY <2>2, <2>4
    <3>2. m - 1 \notin Missing
      <4> HIDE DEF Missing
      <4>1. QED BY <2>1, <2>2, <3>1
    <3>3. Whole(m - 1)
      BY <3>1, <3>2
    <3>4. PICK g : g = Body(g, m - 1)
      BY <3>3
    <3> DEFINE f == [i \in 0 .. m |-> IF i = m THEN __envln(g[m - 1], lines[m]) ELSE g[i]]
    <3>5. \A i \in 0 .. m - 1 : g[i] = IF i = 0 THEN c ELSE __envln(g[i - 1], lines[i])
      BY <3>4
    <3>6. f[m] = __envln(g[m - 1], lines[m]) /\ \A i \in 0 .. m - 1 : f[i] = g[i]
      BY <2>2
    <3>7. ASSUME NEW i \in 0 .. m PROVE f[i] = IF i = 0 THEN c ELSE __envln(f[i - 1], lines[i])
      <4>1. CASE i = m
        BY <2>2, <2>4, <3>1, <3>6, <4>1
      <4>2. CASE i # m /\ i # 0
        <5>1. i \in 0 .. m - 1 /\ i - 1 \in 0 .. m - 1
          BY <2>2, <4>2
        <5>2. QED BY <3>5, <3>6, <4>2, <5>1
      <4>3. CASE i # m /\ i = 0
        <5>1. i \in 0 .. m - 1
          BY <2>2, <4>3
        <5>2. QED BY <3>5, <3>6, <4>3, <5>1
      <4>4. QED BY <4>1, <4>2, <4>3
    <3>8. f = Body(f, m)
      <4>1. Body(f, m) = [i \in 0 .. m |-> f[i]]
        BY <3>7
      <4>2. f = [i \in 0 .. m |-> f[i]]
        OBVIOUS
      <4>3. QED BY <4>1, <4>2
    <3> HIDE DEF f, Body
    <3>9. Whole(m)
      BY <3>8
    <3>10. QED BY <2>2, <3>9
  <2>5. QED BY <2>2, <2>3, <2>4
<1>2. Whole(n)
  BY <1>1
<1> DEFINE P(f) == f = Body(f, n)
           d == CHOOSE f : P(f)
<1>3. ReadLines(c, lines) = d[n]
  BY DEF ReadLines
<1>4. \E f : P(f)
  BY <1>2
<1> HIDE DEF P
<1>5. P(d)
  BY <1>4
<1> HIDE DEF d
<1>6. d = Body(d, n)
  BY <1>5 DEF P
<1>7. \A i \in 0 .. n : d[i] = IF i = 0 THEN c ELSE __envln(d[i - 1], lines[i])
  BY <1>6
<1>8. d[0] = c
  BY <1>7
<1>9. ASSUME NEW i \in 1 .. n PROVE d[i] = __envln(d[i - 1], lines[i])
  <2>1. i \in 0 .. n /\ i # 0
    OBVIOUS
  <2>2. QED BY <1>7, <2>1
<1>10. QED BY <1>3, <1>8, <1>9 DEF Reads

LEMMA ReadFacts ==
    ASSUME NEW c, VarsOK(c, {}), MapOK(c), NEW lines \in Seq(EnvLines)
    PROVE  LET d == ReadLines(c, lines) IN VarsOK(d, {}) /\ MapOK(d)
<1> DEFINE n == Len(lines)
<1>1. n \in Nat /\ \A i \in 1 .. n : lines[i] \in EnvLines
  OBVIOUS
<1>2. PICK f : ReadLines(c, lines) = f[n] /\ Reads(f, c, lines)
  BY <1>1, ReadDone
<1>3. f[0] = c /\ \A i \in 1 .. n : f[i] = __envln(f[i - 1], lines[i])
  BY <1>2 DEF Reads
<1> DEFINE Good(k) == VarsOK(f[k], {}) /\ MapOK(f[k])
           Bad == {k \in 0 .. n : ~ Good(k)}
<1>4. Good(0)
  BY <1>3
<1>5. ASSUME NEW k \in 1 .. n, Good(k - 1) PROVE Good(k)
  BY <1>1, <1>3, <1>5, LineFacts
<1> HIDE DEF Good
<1>6. ASSUME Bad # {} PROVE FALSE
  <2>1. PICK k \in Bad : \A j \in Bad : k <= j
    <3>1. Bad \subseteq Nat
      OBVIOUS
    <3> HIDE DEF Bad
    <3>2. QED BY <1>6, <3>1, Least
  <2>2. k \in 1 .. n /\ k - 1 \in 0 .. n /\ k - 1 < k
    <3>1. k \in 0 .. n /\ ~ Good(k)
      BY <2>1
    <3>2. k # 0
      BY <1>4, <3>1
    <3>3. QED BY <1>1, <3>1, <3>2
  <2>3. Good(k - 1)
    BY <2>1, <2>2
  <2>4. QED BY <1>5, <2>1, <2>2, <2>3
<1>7. Good(n)
  BY <1>1, <1>6
<1>8. QED BY <1>2, <1>7 DEF Good

----------------------------------------------------------------------------
(* The inductive invariant. *)

EnvParts == {"array", "vars", "lazy", "tried", "done", "loading", "sysenv", "environ", "left", "map"}
EnvShape(e) == DOMAIN e = EnvParts /\ e = [x \in DOMAIN e |-> e[x]]

(* The DDs and the flags: the DD is read after the first use that finds    *)
(* the start-up done, and once.                                            *)
LoadOK(e) ==
    /\ e.left \in Seq(EnvLines) /\ e.sysenv.lines \in Seq(EnvLines) /\ e.environ.lines \in Seq(EnvLines)
    /\ {e.lazy, e.tried, e.done, e.loading} \subseteq BOOLEAN
    /\ e.loading => e.lazy /\ e.tried /\ ~ e.done
    /\ e.done => e.tried

(* What a call finds when it begins. *)
EnvInv ==
    /\ EnvShape(env) /\ LoadOK(env)
    /\ VarsOK(EnvCall({}), {}) /\ MapOK(EnvCall({}))
    /\ LookupIsTrue

LEMMA CallFields ==
    ASSUME NEW faults
    PROVE  LET c == EnvCall(faults)
           IN  /\ DOMAIN c = Used \cup EnvFields /\ c = [x \in DOMAIN c |-> c[x]]
               /\ c.array = env.array /\ c.vars = env.vars /\ c.map = env.map
               /\ c.held = ledger.held /\ c.twice = ledger.twice
BY DEF EnvCall, Used, EnvFields

LEMMA EnvCallOK ==
    ASSUME EnvInv, NEW faults
    PROVE  VarsOK(EnvCall(faults), {}) /\ MapOK(EnvCall(faults))
<1> DEFINE b == EnvCall({})
           c == EnvCall(faults)
<1>1. /\ DOMAIN c = Used \cup EnvFields /\ c = [x \in DOMAIN c |-> c[x]]
      /\ c.array = env.array /\ c.vars = env.vars /\ c.map = env.map
      /\ c.held = ledger.held /\ c.twice = ledger.twice
  BY CallFields
<1>2. /\ b.array = env.array /\ b.vars = env.vars /\ b.map = env.map
      /\ b.held = ledger.held /\ b.twice = ledger.twice
  BY CallFields
<1>3. VarsOK(b, {}) /\ MapOK(b)
  BY DEF EnvInv
<1> HIDE DEF b, c
<1>4. IsEnvCall(c)
  BY <1>1, <1>2, <1>3 DEF VarsOK, IsEnvCall, IsCall
<1>5. VarsOK(c, {}) /\ Pairs(c) = Pairs(b)
  BY <1>1, <1>2, <1>3, <1>4, SameVariables
<1>6. QED BY <1>1, <1>2, <1>3, <1>5 DEF MapOK, c

(* An action leaves the invariant for the next one. *)
LEMMA EnvEndOK ==
    ASSUME NEW c, NEW next, NEW r, EnvEnd(c, next, r), VarsOK(c, {}), MapOK(c),
           EnvShape(next), LoadOK(next), r.op = "getenv" => LookupIsTrue'
    PROVE  EnvInv'
<1> DEFINE b == EnvCall({})'
<1>1. /\ env' = [next EXCEPT !.array = c.array, !.vars = c.vars, !.map = c.map]
      /\ ledger' = [held |-> c.held, twice |-> c.twice] /\ result' = r
  BY DEF EnvEnd, End
<1>2. /\ EnvShape(env') /\ env'.array = c.array /\ env'.vars = c.vars /\ env'.map = c.map
      /\ \A x \in EnvParts \ {"array", "vars", "map"} : env'[x] = next[x]
  BY <1>1 DEF EnvShape, EnvParts
<1>3. LoadOK(env')
  BY <1>2 DEF LoadOK, EnvParts
<1>4. /\ DOMAIN b = Used \cup EnvFields /\ b = [x \in DOMAIN b |-> b[x]]
      /\ b.array = env'.array /\ b.vars = env'.vars /\ b.map = env'.map
      /\ b.held = ledger'.held /\ b.twice = ledger'.twice
  BY DEF EnvCall, Used, EnvFields
<1> HIDE DEF b
<1>5. /\ b.array = c.array /\ b.vars = c.vars /\ b.map = c.map /\ b.held = c.held /\ b.twice = c.twice
  BY <1>1, <1>2, <1>4
<1>6. IsEnvCall(b)
  BY <1>4, <1>5 DEF VarsOK, IsEnvCall, IsCall
<1>7. VarsOK(b, {}) /\ MapOK(b)
  BY <1>5, <1>6, SameVariables DEF MapOK
<1>8. LookupIsTrue'
  BY <1>1 DEF LookupIsTrue
<1>9. QED BY <1>2, <1>3, <1>7, <1>8 DEF EnvInv, b

(* The flags an action changes. *)
LEMMA FlagFacts ==
    ASSUME EnvShape(env), LoadOK(env)
    PROVE  /\ LET e == [env EXCEPT !.lazy = TRUE] IN ~ env.lazy => EnvShape(e) /\ LoadOK(e)
           /\ \A l \in Seq(EnvLines) :
                 LET e == [env EXCEPT !.tried = TRUE, !.loading = TRUE, !.left = l]
                 IN  env.lazy /\ ~ env.tried => EnvShape(e) /\ LoadOK(e)
           /\ \A l \in Seq(EnvLines) : LET e == [env EXCEPT !.left = l] IN EnvShape(e) /\ LoadOK(e)
           /\ LET e == [env EXCEPT !.done = TRUE, !.loading = FALSE]
              IN  env.loading => EnvShape(e) /\ LoadOK(e)
           /\ LET e == [env EXCEPT !.lazy = FALSE, !.tried = FALSE, !.done = FALSE]
              IN  ~ env.loading => EnvShape(e) /\ LoadOK(e)
<1>1. LET e == [env EXCEPT !.lazy = TRUE] IN ~ env.lazy => EnvShape(e) /\ LoadOK(e)
  BY DEF EnvShape, EnvParts, LoadOK
<1>2. ASSUME NEW l \in Seq(EnvLines), env.lazy, ~ env.tried
      PROVE  LET e == [env EXCEPT !.tried = TRUE, !.loading = TRUE, !.left = l]
             IN  EnvShape(e) /\ LoadOK(e)
  BY <1>2 DEF EnvShape, EnvParts, LoadOK
<1>3. ASSUME NEW l \in Seq(EnvLines)
      PROVE  LET e == [env EXCEPT !.left = l] IN EnvShape(e) /\ LoadOK(e)
  BY <1>3 DEF EnvShape, EnvParts, LoadOK
<1>4. LET e == [env EXCEPT !.done = TRUE, !.loading = FALSE]
      IN  env.loading => EnvShape(e) /\ LoadOK(e)
  BY DEF EnvShape, EnvParts, LoadOK
<1>5. LET e == [env EXCEPT !.lazy = FALSE, !.tried = FALSE, !.done = FALSE]
      IN  ~ env.loading => EnvShape(e) /\ LoadOK(e)
  BY DEF EnvShape, EnvParts, LoadOK
<1>6. QED BY <1>1, <1>2, <1>3, <1>4, <1>5

(* One lemma for each action. *)
LEMMA LoadSteps ==
    ASSUME EnvInv, __rtinit \/ __envlz \/ LoadLine \/ LoadDone
    PROVE  EnvInv'
<1>1. VarsOK(EnvCall({}), {}) /\ MapOK(EnvCall({})) /\ EnvShape(env) /\ LoadOK(env)
  BY DEF EnvInv
<1>2. \A l \in Seq(EnvLines) : l # <<>> => Head(l) \in EnvLines /\ Tail(l) \in Seq(EnvLines)
  OBVIOUS
<1>3. CASE __rtinit
  <2> DEFINE e == [env EXCEPT !.lazy = TRUE]
             r == [op |-> "started"]
  <2>1. EnvEnd(EnvCall({}), e, r) /\ ~ env.lazy /\ r.op # "getenv"
    BY <1>3 DEF __rtinit
  <2>2. EnvShape(e) /\ LoadOK(e)
    BY <1>1, <2>1, FlagFacts
  <2> HIDE DEF e, r
  <2>3. QED BY ONLY <1>1, <2>1, <2>2, EnvEndOK
<1>4. CASE __envlz
  <2> DEFINE l == IF env.sysenv.open THEN env.sysenv.lines ELSE env.environ.lines
             e == [env EXCEPT !.tried = TRUE, !.loading = TRUE, !.left = l]
             r == [op |-> "loads"]
  <2>1. EnvEnd(EnvCall({}), e, r) /\ env.lazy /\ ~ env.tried /\ r.op # "getenv"
    BY <1>4 DEF __envlz
  <2>2. l \in Seq(EnvLines)
    BY <1>1 DEF LoadOK
  <2> HIDE DEF l
  <2>3. EnvShape(e) /\ LoadOK(e)
    BY <1>1, <2>1, <2>2, FlagFacts
  <2> HIDE DEF e, r
  <2>4. QED BY ONLY <1>1, <2>1, <2>3, EnvEndOK
<1>5. CASE LoadLine
  <2> DEFINE e == [env EXCEPT !.left = Tail(env.left)]
             r == [op |-> "line"]
  <2>1. PICK faults \in OneFault(2) : EnvEnd(__envln(EnvCall(faults), Head(env.left)), e, r)
    BY <1>5 DEF LoadLine
  <2>2. Head(env.left) \in EnvLines /\ Tail(env.left) \in Seq(EnvLines) /\ r.op # "getenv"
    BY <1>1, <1>2, <1>5 DEF LoadLine, LoadOK
  <2>3. EnvShape(e) /\ LoadOK(e)
    BY <1>1, <2>2, FlagFacts
  <2> DEFINE c == __envln(EnvCall(faults), Head(env.left))
  <2>4. VarsOK(c, {}) /\ MapOK(c)
    <3>1. VarsOK(EnvCall(faults), {}) /\ MapOK(EnvCall(faults))
      BY EnvCallOK
    <3>2. QED BY <2>2, <3>1, LineFacts
  <2>5. EnvEnd(c, e, r)
    BY <2>1
  <2> HIDE DEF e, r, c
  <2>6. QED BY ONLY <2>2, <2>3, <2>4, <2>5, EnvEndOK
<1>6. CASE LoadDone
  <2> DEFINE e == [env EXCEPT !.done = TRUE, !.loading = FALSE]
             r == [op |-> "loaded"]
  <2>1. EnvEnd(EnvCall({}), e, r) /\ env.loading /\ r.op # "getenv"
    BY <1>6 DEF LoadDone
  <2>2. EnvShape(e) /\ LoadOK(e)
    BY <1>1, <2>1, FlagFacts
  <2> HIDE DEF e, r
  <2>3. QED BY ONLY <1>1, <2>1, <2>2, EnvEndOK
<1>7. QED BY <1>3, <1>4, <1>5, <1>6

LEMMA SetSteps ==
    ASSUME EnvInv, SetVariable \/ UnsetVariable \/ loadenv
    PROVE  EnvInv'
<1>1. EnvShape(env) /\ LoadOK(env)
  BY DEF EnvInv
<1>2. CASE SetVariable
  <2>1. PICK name \in EnvNames, value \in EnvValues \cup {NoEnvValue}, rewrite \in BOOLEAN, faults \in OneFault(2) :
           LET c == setenv(EnvCall(faults), name, value, rewrite)
           IN  EnvEnd(c, env, [op |-> "setenv", err |-> c.err, same |-> c.map = env.map])
    BY <1>2 DEF SetVariable
  <2> DEFINE c == setenv(EnvCall(faults), name, value, rewrite)
             r == [op |-> "setenv", err |-> c.err, same |-> c.map = env.map]
  <2>2. IsName(name) /\ IsValue(value)
    <3>1. IsValue(NoEnvValue)
      BY DEF NoEnvValue, IsValue
    <3>2. QED BY <3>1, EnvAssumption
  <2>3. VarsOK(EnvCall(faults), {}) /\ MapOK(EnvCall(faults))
    BY EnvCallOK
  <2>4. VarsOK(c, {}) /\ MapOK(c)
    BY <2>2, <2>3, SetenvFacts
  <2>5. EnvEnd(c, env, r) /\ r.op # "getenv"
    BY <2>1
  <2> HIDE DEF c, r
  <2>6. QED BY ONLY <1>1, <2>4, <2>5, EnvEndOK
<1>3. CASE UnsetVariable
  <2> DEFINE r == [op |-> "unsetenv"]
  <2>1. PICK name \in EnvNames : EnvEnd(unsetenv(EnvCall({}), name), env, r)
    BY <1>3 DEF UnsetVariable
  <2> DEFINE c == unsetenv(EnvCall({}), name)
  <2>2. IsName(name) /\ r.op # "getenv"
    BY EnvAssumption
  <2>3. VarsOK(EnvCall({}), {}) /\ MapOK(EnvCall({}))
    BY DEF EnvInv
  <2>4. VarsOK(c, {}) /\ MapOK(c)
    BY <2>2, <2>3, UnsetFacts
  <2>5. EnvEnd(c, env, r)
    BY <2>1
  <2> HIDE DEF c, r
  <2>6. QED BY ONLY <1>1, <2>2, <2>4, <2>5, EnvEndOK
<1>4. CASE loadenv
  <2> DEFINE r == [op |-> "loadenv"]
  <2>1. PICK dd \in EnvDds, faults \in OneFault(2) : EnvEnd(ReadLines(EnvCall(faults), dd.lines), env, r)
    BY <1>4 DEF loadenv
  <2> DEFINE c == ReadLines(EnvCall(faults), dd.lines)
  <2>2. dd.lines \in Seq(EnvLines) /\ r.op # "getenv"
    BY EnvAssumption
  <2>3. VarsOK(EnvCall(faults), {}) /\ MapOK(EnvCall(faults))
    BY EnvCallOK
  <2>4. VarsOK(c, {}) /\ MapOK(c)
    BY <2>2, <2>3, ReadFacts
  <2>5. EnvEnd(c, env, r)
    BY <2>1
  <2> HIDE DEF c, r
  <2>6. QED BY ONLY <1>1, <2>2, <2>4, <2>5, EnvEndOK
<1>5. QED BY <1>2, <1>3, <1>4

LEMMA GetStep == ASSUME EnvInv, getenv PROVE EnvInv'
<1> DEFINE c == EnvCall({})
<1>1. EnvShape(env) /\ LoadOK(env) /\ VarsOK(c, {}) /\ MapOK(c)
  BY DEF EnvInv
<1>2. PICK name \in EnvNames, nocase \in BOOLEAN :
         EnvEnd(c, env, [op |-> "getenv", name |-> name, nocase |-> nocase,
                         value |-> __findenv(c, name, nocase)])
  BY DEF getenv
<1> DEFINE value == __findenv(c, name, nocase)
           r == [op |-> "getenv", name |-> name, nocase |-> nocase, value |-> value]
           values == {v[2] : v \in {w \in c.map : SameName(w[1], name, nocase)}}
           S == c.array.slots
           f == FoundAt(c, name, nocase)
<1>3. ~ env.loading
  BY <1>1 DEF getenv, Usable, LoadOK
<1>4. c.map = env.map
  BY CallFields
<1> HIDE DEF c
<1>5. /\ Matches(c, name, nocase) = {i \in InUse(c) : SameName(c.vars[S[i]].name, name, nocase)}
      /\ \/ Matches(c, name, nocase) = {} /\ f = 0
         \/ Matches(c, name, nocase) # {} /\ f \in Matches(c, name, nocase)
      /\ Matches(c, name, nocase) \subseteq 1 .. c.array.count
  <2>1. ArrayOK(c.array)
    BY <1>1 DEF VarsOK
  <2>2. QED BY <2>1, MatchFacts
<1>6. \A w : w \in c.map <=> \E i \in InUse(c) : w = PairAt(c, i)
  BY <1>1 DEF MapOK, Pairs, PairAt
<1>7. \A i \in InUse(c) : PairAt(c, i)[1] = c.vars[S[i]].name /\ PairAt(c, i)[2] = c.vars[S[i]].value
  BY DEF PairAt
<1>8. CASE f = 0
  <2>1. Matches(c, name, nocase) = {} /\ value = NoEnvValue
    <3>1. 0 \notin 1 .. c.array.count
      BY <1>1 DEF VarsOK, ArrayOK
    <3>2. QED BY <1>5, <1>8, <3>1 DEF __findenv
  <2> HIDE DEF S, f, value
  <2>2. \A w \in c.map : ~ SameName(w[1], name, nocase)
    BY <1>5, <1>6, <1>7, <2>1
  <2>3. values = {}
    BY <2>2
  <2>4. IF values = {} THEN value = NoEnvValue ELSE value \in values
    BY <2>1, <2>3
  <2>5. QED BY <1>1, <1>2, <1>3, <1>4, <2>4, EnvEndOK DEF LookupIsTrue, EnvEnd, End, EnvShape, EnvParts, c, value
<1>9. CASE f # 0
  <2>1. f \in InUse(c) /\ SameName(c.vars[S[f]].name, name, nocase)
    BY <1>5, <1>9
  <2>2. value = c.vars[S[f]].value
    <3>1. f \in 1 .. c.array.count
      BY <2>1 DEF InUse
    <3>2. Items(c)[f] = S[f]
      BY <3>1 DEF Items
    <3> HIDE DEF S
    <3>3. QED BY <1>9, <3>2 DEF __findenv
  <2>3. PairAt(c, f) \in c.map
    BY <1>6, <2>1
  <2> HIDE DEF S, f, value
  <2>4. SameName(PairAt(c, f)[1], name, nocase) /\ PairAt(c, f)[2] = value
    BY <1>7, <2>1, <2>2
  <2>5. value \in values
    BY <2>3, <2>4
  <2>6. IF values = {} THEN value = NoEnvValue ELSE value \in values
    BY <2>5
  <2>7. QED BY <1>1, <1>2, <1>3, <1>4, <2>6, EnvEndOK DEF LookupIsTrue, EnvEnd, End, EnvShape, EnvParts, c, value
<1>10. QED BY <1>8, <1>9

----------------------------------------------------------------------------
(* The end of the program. *)

(* No variables. *)
LEMMA NoVariables ==
    ASSUME NEW c, IsEnvCall(c), c.vars = <<>>, c.held = {}, c.twice = FALSE, c.map = {},
           ArrayOK(c.array), c.array.block = NULL, c.array.count = 0
    PROVE  VarsOK(c, {}) /\ MapOK(c)
<1>1. InUse(c) = {} /\ Blocks(c) = {}
  BY DEF InUse, Blocks
<1>2. c.vars = [x \in {} |-> c.vars[x]]
  OBVIOUS
<1>3. Pairs(c) = {}
  BY <1>1 DEF Pairs
<1>4. VarsOK(c, {})
  BY <1>1, <1>2 DEF VarsOK
<1>5. QED BY <1>3, <1>4 DEF MapOK

LEMMA EndStep == ASSUME EnvInv, EnvProgramEnds PROVE EnvInv'
<1> DEFINE b == EnvCall({})
           S == b.array.slots
           n == b.array.count
           rs == Items(b)
           c == ReleaseAll(b, rs)
           m == [c EXCEPT !.map = {}]
           a == arrayfree(m)
           d == [a EXCEPT !.vars = <<>>]
           e == [env EXCEPT !.lazy = FALSE, !.tried = FALSE, !.done = FALSE]
           r == [op |-> "unloaded"]
<1>1. EnvEnd(d, e, r) /\ ~ env.loading /\ r.op # "getenv"
  BY DEF EnvProgramEnds, Idle
<1>2. EnvShape(env) /\ LoadOK(env) /\ VarsOK(b, {})
  BY DEF EnvInv
<1>3. EnvShape(e) /\ LoadOK(e)
  BY <1>1, <1>2, FlagFacts
<1> HIDE DEF b
<1>4. /\ NULL \notin b.held /\ IsCall(b) /\ ArrayOK(b.array) /\ n \in Nat
      /\ \A x \in Blocks(b) \cup {} : x # NULL /\ x # b.array.block /\ x \in b.held
      /\ \A i, j \in InUse(b) : S[i] = S[j] => i = j
  BY <1>2, BlockFacts
<1>5. Len(rs) = n /\ \A i \in 1 .. n : rs[i] = S[i]
  BY <1>4 DEF Items
<1>6. b.held = ({b.array.block} \ {NULL}) \cup Blocks(b) /\ IsEnvCall(b) /\ b.twice = FALSE
  BY <1>2 DEF VarsOK
<1>7. {rs[i] : i \in 1 .. n} \ {NULL} = Blocks(b)
  <2>1. ASSUME NEW x \in Blocks(b) PROVE x # NULL /\ \E i \in 1 .. n : x = rs[i]
    BY <1>5 DEF Blocks, InUse
  <2>2. ASSUME NEW i \in 1 .. n, rs[i] # NULL PROVE rs[i] \in Blocks(b)
    BY <1>5, <2>2 DEF Blocks, InUse
  <2> HIDE DEF rs, n
  <2>3. QED BY <2>1, <2>2
<1>8. /\ IsCall(c) /\ DOMAIN c = DOMAIN b /\ c.held = b.held \ {rs[i] : i \in 1 .. n}
      /\ \A x \in DOMAIN b \ {"held"} : c[x] = b[x]
  <2>1. \A i \in 1 .. n : rs[i] = NULL \/ rs[i] \in b.held
    <3>1. \A i \in 1 .. n : rs[i] # NULL => rs[i] \in Blocks(b)
      BY <1>7
    <3>2. QED BY <1>4, <3>1
  <2>2. \A i, j \in 1 .. n : rs[i] = rs[j] => i = j \/ rs[i] = NULL
    BY <1>4, <1>5 DEF InUse
  <2> HIDE DEF rs, n
  <2>3. QED BY <1>4, <1>5, <2>1, <2>2, ReleaseAllFacts
<1> HIDE DEF c, rs, n, S
<1>9. /\ IsCall(m) /\ DOMAIN m = DOMAIN b /\ m.held = {b.array.block} \ {NULL} /\ m.array = b.array
      /\ m.twice = FALSE /\ m.map = {}
  <2>1. c.held = {b.array.block} \ {NULL}
    BY <1>4, <1>6, <1>7, <1>8
  <2>2. DOMAIN m = DOMAIN c /\ m = [x \in DOMAIN m |-> m[x]] /\ m.map = {} /\ \A x \in DOMAIN c \ {"map"} : m[x] = c[x]
    BY <1>6, <1>8 DEF IsCall, IsEnvCall, EnvFields
  <2> HIDE DEF m
  <2>3. {"held", "array", "twice"} \subseteq DOMAIN c \ {"map"}
    BY <1>8 DEF IsCall, Used
  <2>4. m.held = c.held /\ m.array = c.array /\ m.twice = c.twice
    BY <2>2, <2>3
  <2>5. IsCall(m)
    BY <1>8, <2>2, <2>4 DEF IsCall
  <2>6. {"array", "twice"} \subseteq DOMAIN b \ {"held"}
    BY <1>8, <2>3
  <2>7. QED BY <1>6, <1>8, <2>1, <2>2, <2>4, <2>5, <2>6
<1> HIDE DEF m
<1>10. /\ IsCall(a) /\ DOMAIN a = DOMAIN b /\ a.held = {} /\ a.twice = FALSE /\ a.map = {}
       /\ ArrayOK(a.array) /\ a.array.block = NULL /\ a.array.count = 0
  <2>1. Holds(m)
    BY <1>9 DEF Holds
  <2>2. /\ IsCall(a) /\ DOMAIN a = DOMAIN m
        /\ \A x \in DOMAIN m \ {"held", "array", "err"} : a[x] = m[x]
        /\ a.held = m.held \ {m.array.block}
        /\ a.array = IF m.array.block = NULL THEN m.array ELSE NoArray
    BY <1>9, <2>1, FreeFacts
  <2>3. {"twice", "map"} \subseteq DOMAIN m \ {"held", "array", "err"}
    BY <1>6, <1>9 DEF IsCall, IsEnvCall, Used, EnvFields
  <2>4. a.twice = FALSE /\ a.map = {} /\ a.held = {}
    BY <1>9, <2>2, <2>3
  <2>5. ArrayOK(a.array) /\ a.array.block = NULL /\ a.array.count = 0
    BY <1>4, <1>9, <2>2, EmptyOK DEF ArrayOK
  <2>6. QED BY <1>9, <2>2, <2>4, <2>5
<1> HIDE DEF a
<1>11. /\ IsEnvCall(d) /\ d.vars = <<>> /\ d.held = {} /\ d.twice = FALSE /\ d.map = {} /\ d.array = a.array
  <2>1. DOMAIN d = DOMAIN a /\ d = [x \in DOMAIN d |-> d[x]] /\ d.vars = <<>> /\ \A x \in DOMAIN a \ {"vars"} : d[x] = a[x]
    BY <1>6, <1>10 DEF IsCall, IsEnvCall, EnvFields
  <2> HIDE DEF d
  <2>2. {"held", "twice", "map", "array"} \subseteq DOMAIN a \ {"vars"}
    BY <1>6, <1>10 DEF IsCall, IsEnvCall, Used, EnvFields
  <2>3. QED BY <1>6, <1>10, <2>1, <2>2 DEF IsCall, IsEnvCall
<1> HIDE DEF d
<1>12. VarsOK(d, {}) /\ MapOK(d)
  BY <1>10, <1>11, NoVariables
<1> HIDE DEF e, r
<1>13. QED BY ONLY <1>1, <1>3, <1>12, EnvEndOK

LEMMA SeeEnv == ASSUME EnvInv, UNCHANGED <<ledger, env>>, result' = result \/ result' = Seen PROVE EnvInv'
<1>1. /\ EnvShape(env) /\ LoadOK(env) /\ VarsOK(EnvCall({}), {}) /\ MapOK(EnvCall({})) /\ LookupIsTrue
  BY DEF EnvInv
<1>2. LookupIsTrue'
  BY <1>1 DEF LookupIsTrue, Seen
<1>3. EnvCall({})' = EnvCall({})
  BY DEF EnvCall
<1>4. VarsOK(EnvCall({})', {}) /\ MapOK(EnvCall({})')
  BY <1>1, <1>3
<1>5. EnvShape(env') /\ LoadOK(env')
  BY <1>1
<1>6. QED BY <1>2, <1>4, <1>5 DEF EnvInv

LEMMA EnvStart == ASSUME LedgerInit, EnvInit PROVE EnvInv
<1> DEFINE c == EnvCall({})
<1>1. PICK s \in EnvDds \cup {NoEnvDd}, e \in EnvDds \cup {NoEnvDd} :
         env = [array |-> NoArray, vars |-> <<>>, lazy |-> FALSE, tried |-> FALSE, done |-> FALSE,
                loading |-> FALSE, sysenv |-> s, environ |-> e, left |-> <<>>, map |-> {}]
  BY DEF EnvInit
<1>2. s.lines \in Seq(EnvLines) /\ e.lines \in Seq(EnvLines) /\ <<>> \in Seq(EnvLines)
  <2>1. <<>> \in Seq(EnvLines) /\ NoEnvDd.lines = <<>>
    BY DEF NoEnvDd
  <2>2. \A dd \in EnvDds : dd.lines \in Seq(EnvLines)
    BY EnvAssumption
  <2> HIDE DEF EnvLines
  <2>3. QED BY <2>1, <2>2
<1>3. EnvShape(env)
  BY <1>1 DEF EnvShape, EnvParts
<1>4. LoadOK(env)
  BY <1>1, <1>2 DEF LoadOK
<1>5. /\ env.array = NoArray /\ env.vars = <<>> /\ env.map = {}
      /\ ledger.held = {} /\ ledger.twice = FALSE /\ result = Seen
  BY <1>1 DEF LedgerInit
<1>6. /\ DOMAIN c = Used \cup EnvFields /\ c = [x \in DOMAIN c |-> c[x]]
      /\ c.array = NoArray /\ c.vars = <<>> /\ c.map = {} /\ c.held = {} /\ c.twice = FALSE
  BY <1>5, CallFields
<1> HIDE DEF c
<1>7. IsFiniteSet(c.held)
  BY <1>6, FS_EmptySet
<1>8. IsEnvCall(c)
  BY <1>6, <1>7 DEF IsEnvCall, IsCall
<1>9. VarsOK(c, {}) /\ MapOK(c)
  BY <1>6, <1>8, EmptyOK, NoVariables
<1>10. LookupIsTrue
  BY <1>5 DEF LookupIsTrue, Seen
<1>11. QED BY <1>3, <1>4, <1>9, <1>10 DEF EnvInv, c

(* EnvInv holds in every state of the environment, for any names, values,  *)
(* DDs, number of variables and number of requests refused.                *)
THEOREM EnvInvAlways == EnvSpec => []EnvInv
<1>1. LedgerInit /\ EnvInit => EnvInv
  BY EnvStart
<1>2. EnvInv /\ [EnvNext]_<<ledger, result, env>> => EnvInv'
  <2> SUFFICES ASSUME EnvInv, [EnvNext]_<<ledger, result, env>> PROVE EnvInv'
    OBVIOUS
  <2>1. CASE __rtinit \/ __envlz \/ LoadLine \/ LoadDone
    BY <2>1, LoadSteps
  <2>2. CASE SetVariable \/ UnsetVariable \/ loadenv
    BY <2>2, SetSteps
  <2>3. CASE getenv
    BY <2>3, GetStep
  <2>4. CASE EnvProgramEnds
    BY <2>4, EndStep
  <2>5. CASE See /\ UNCHANGED env
    BY <2>5, SeeEnv DEF See
  <2>6. CASE UNCHANGED <<ledger, result, env>>
    BY <2>6, SeeEnv
  <2>7. QED BY <2>1, <2>2, <2>3, <2>4, <2>5, <2>6 DEF EnvNext
<1>3. QED BY <1>1, <1>2, PTL DEF EnvSpec

(* A variable has the value it was given last, each name is in the array   *)
(* once, and a lookup finds the value, or one of a name that differs in    *)
(* case only when case does not count: whatever was refused.               *)
THEOREM EnvironmentIsTrueAlways == EnvSpec => []EnvironmentIsTrue
<1>1. EnvInv => EnvironmentIsTrue
  <2> SUFFICES ASSUME EnvInv PROVE EnvironmentIsTrue
    OBVIOUS
  <2> DEFINE c == EnvCall({})
             U == InUse(c)
             name(i) == c.vars[c.array.slots[i]].name
             used == {i \in DOMAIN Items(env) : Items(env)[i] # NULL}
             N == {v[1] : v \in env.map}
             f == [i \in U |-> name(i)]
  <2>1. VarsOK(c, {}) /\ MapOK(c) /\ LookupIsTrue
    BY DEF EnvInv
  <2>2. c.array = env.array /\ c.vars = env.vars /\ c.map = env.map
    BY CallFields
  <2> HIDE DEF c
  <2>3. c.array.count \in Nat /\ \A i, j \in U : name(i) = name(j) => i = j
    BY <2>1, BlockFacts DEF VarsOK
  <2>4. used = U /\ \A i \in U : Items(env)[i] = c.array.slots[i]
    BY <2>2 DEF Items, InUse
  <2>5. {<<env.vars[Items(env)[i]].name, env.vars[Items(env)[i]].value>> : i \in used} = env.map
    <3>1. \A i \in U : <<env.vars[Items(env)[i]].name, env.vars[Items(env)[i]].value>> = PairAt(c, i)
      BY <2>2, <2>4 DEF PairAt
    <3>2. env.map = {PairAt(c, i) : i \in U}
      BY <2>1, <2>2 DEF MapOK, Pairs, PairAt
    <3> HIDE DEF U, used
    <3>3. QED BY <2>4, <3>1, <3>2
  <2>6. N = {name(i) : i \in U}
    <3>1. env.map = {PairAt(c, i) : i \in U} /\ \A i \in U : PairAt(c, i)[1] = name(i)
      BY <2>1, <2>2 DEF MapOK, Pairs, PairAt
    <3> HIDE DEF U, name
    <3>2. QED BY <3>1
  <2>7. IsFiniteSet(U)
    <3>1. IsFiniteSet(1 .. c.array.count)
      BY <2>3, FS_Interval
    <3>2. U \subseteq 1 .. c.array.count
      BY DEF InUse
    <3> HIDE DEF U
    <3>3. QED BY <3>1, <3>2, FS_Subset
  <2> HIDE DEF U, name, N, used
  <2>8. f \in Surjection(U, N) /\ f \in Injection(U, N)
    <3>1. f \in [U -> N] /\ \A i \in U : f[i] = name(i)
      BY <2>6
    <3>2. \A y \in N : \E i \in U : f[i] = y
      BY <2>6, <3>1
    <3> HIDE DEF f
    <3>3. \A i, j \in U : f[i] = f[j] => i = j
      BY <2>3, <3>1
    <3>4. QED BY <3>1, <3>2, <3>3 DEF Surjection, Injection, IsInjective
  <2> HIDE DEF f
  <2>9. Cardinality(U) = Cardinality(N)
    BY <2>7, <2>8, FS_Surjection
  <2>10. QED BY <2>1, <2>4, <2>5, <2>9 DEF EnvironmentIsTrue, used, N
<1>2. QED BY <1>1, EnvInvAlways, PTL

(* What is held is the block of the array and those of the variables in    *)
(* it, whatever was refused, and nothing is given back twice.              *)
THEOREM EnvLosesNothing == EnvSpec => [](ledger.held = EnvOwns /\ ~ ledger.twice)
<1>1. EnvInv => ledger.held = EnvOwns /\ ~ ledger.twice
  <2> SUFFICES ASSUME EnvInv PROVE ledger.held = EnvOwns /\ ~ ledger.twice
    OBVIOUS
  <2> DEFINE c == EnvCall({})
             a == env.array
  <2>1. VarsOK(c, {})
    BY DEF EnvInv
  <2>2. c.array = a /\ c.held = ledger.held /\ c.twice = ledger.twice
    BY CallFields
  <2> HIDE DEF c
  <2>3. /\ ArrayOK(a) /\ ledger.held = ({a.block} \ {NULL}) \cup Blocks(c) /\ ~ ledger.twice
    BY <2>1, <2>2 DEF VarsOK
  <2> HIDE DEF a
  <2>4. /\ a.size \in Nat /\ a.count \in 0 .. a.size /\ DOMAIN a.slots = 1 .. a.size
        /\ \A i \in a.count + 1 .. a.size : a.slots[i] = NULL
    BY <2>3 DEF ArrayOK, Slots
  <2>5. \A i \in 1 .. a.size : a.slots[i] # NULL <=> i \in InUse(c)
    BY <2>2, <2>4 DEF InUse
  <2>6. InUse(c) \subseteq 1 .. a.size
    BY <2>2, <2>4 DEF InUse
  <2>7. Blocks(c) = {a.slots[i] : i \in DOMAIN a.slots} \ {NULL}
    BY <2>2, <2>4, <2>5, <2>6 DEF Blocks
  <2>8. EnvOwns = ({a.block} \ {NULL}) \cup Blocks(c)
    BY <2>7 DEF EnvOwns, a
  <2>9. QED BY <2>3, <2>8
<1>2. QED BY <1>1, EnvInvAlways, PTL

----------------------------------------------------------------------------
(* The VSAM handle.                                                        *)

CallParts == {"held", "twice", "n", "faults", "got", "recs", "vs", "rc", "ret", "errno", "keep"}
VsParts == {"at", "dcb", "type", "access", "mode", "flags", "rc", "rsn", "opt", "vsreset",
            "arg", "place", "hold", "last", "len", "r15", "fdbk"}
Shaped(f, parts) == DOMAIN f = parts /\ f = [x \in DOMAIN f |-> f[x]]

(* A cluster, and the handle on it: the record held for update is there,   *)
(* and the records of an ESDS follow one another.                          *)
In(recs) == {k \in Records : recs[k] > 0}
HandleOK(v, recs) ==
    /\ Shaped(v, VsParts)
    /\ v.place \in Nat /\ v.arg \in Records /\ v.last \in Records
    /\ v.hold \in {0} \cup Records /\ (v.hold # 0 => recs[v.hold] > 0)
    /\ v.type = "ESDS" => \E m \in Nat : In(recs) = 1 .. m
RecsOK(recs) == recs \in [Records -> Nat]
VsCallOK(c) == Shaped(c, CallParts) /\ RecsOK(c.recs) /\ HandleOK(c.vs, c.recs)

(* The RPL between calls. *)
RplOK(v) ==
    /\ v.vsreset = FALSE
    /\ "UPD" \in v.opt <=> v.mode = "UPD"
    /\ "DIR" \in v.opt => v.access = "DIR"
    /\ v.access = "DIR" => v.opt \cap {"DIR", "SKP"} # {}
    /\ "KGE" \notin v.opt

----------------------------------------------------------------------------
(* Keys. *)

LEMMA KeyFacts ==
    /\ LastKey \in Nat \ {0} /\ Records = 1 .. LastKey
    /\ \A s : s \subseteq Records /\ s # {} => FirstKey(s) \in s /\ \A j \in s : FirstKey(s) <= j
<1> DEFINE n == Cardinality(Records)
<1>1. n \in Nat /\ Records = 1 .. n /\ Records # {}
  BY VsamAssumption, FS_CardinalityType
<1>2. n # 0
  <2>1. n = 0 => 1 .. n = {}
    BY <1>1
  <2>2. QED BY <1>1, <2>1
<1> DEFINE P(k) == \A j \in Records : j <= k
<1>3. LastKey = n
  <2>1. LastKey = CHOOSE k \in Records : P(k)
    BY DEF LastKey
  <2>2. n \in Records /\ P(n)
    <3> HIDE DEF n
    <3>1. QED BY <1>1, <1>2
  <2> HIDE DEF P, n
  <2>3. LastKey \in Records /\ P(LastKey)
    BY <2>1, <2>2
  <2>4. LastKey <= n /\ n <= LastKey /\ LastKey \in Nat
    BY <1>1, <2>2, <2>3 DEF P
  <2>5. QED BY <1>1, <2>4
<1>4. ASSUME NEW s, s \subseteq Records, s # {}
      PROVE  FirstKey(s) \in s /\ \A j \in s : FirstKey(s) <= j
  <2> DEFINE Q(k) == \A j \in s : k <= j
  <2>1. FirstKey(s) = CHOOSE k \in s : Q(k)
    BY DEF FirstKey
  <2>2. s \subseteq Nat
    BY <1>1, <1>4
  <2>3. \E k \in s : Q(k)
    BY <1>4, <2>2, Least
  <2> HIDE DEF Q
  <2>4. FirstKey(s) \in s /\ Q(FirstKey(s))
    BY <2>1, <2>3
  <2>5. QED BY <2>4 DEF Q
<1> HIDE DEF n
<1>5. QED BY <1>1, <1>2, <1>3, <1>4

----------------------------------------------------------------------------
(* What an operator on a call leaves alone. *)
Kept(c, d) ==
    /\ \A x \in {"held", "twice", "ret", "errno", "keep"} : d[x] = c[x]
    /\ \A x \in {"at", "dcb", "type", "access", "mode", "arg", "len"} : d.vs[x] = c.vs[x]
OptKept(c, d) == d.vs.opt = c.vs.opt /\ d.vs.vsreset = c.vs.vsreset

(* A request that failed, through __vsxerr(). *)
Failed(c, d) ==
    /\ d.rc \in {8, 12} /\ d.recs = c.recs /\ d.vs.flags = c.vs.flags \cup {"ERROR"}
    /\ d.vs.rc = d.rc /\ d.vs.r15 = d.rc /\ d.vs.rsn = d.vs.fdbk
    /\ IF c.vs.vsreset /\ "WRITE" \in c.vs.flags
       THEN d.vs.opt = restore(c.vs).opt /\ d.vs.vsreset = FALSE
       ELSE OptKept(c, d)
(* One that was done. *)
Succeeded(c, d) ==
    d.rc = 0 /\ d.vs.flags = c.vs.flags /\ d.vs.r15 = 0 /\ d.vs.fdbk = 0 /\ OptKept(c, d)

LEMMA AskedFacts ==
    ASSUME NEW c, VsCallOK(c)
    PROVE  /\ VsCallOK(Asked(c)) /\ Asked(c).vs = c.vs /\ Asked(c).recs = c.recs /\ Asked(c).rc = c.rc
           /\ Kept(c, Asked(c))
BY DEF Asked, VsCallOK, Shaped, CallParts, Kept

LEMMA FailFacts ==
    ASSUME NEW c, VsCallOK(c), NEW r15 \in {8, 12}, NEW fdbk
    PROVE  LET d == VsFailed(c, r15, fdbk)
           IN  VsCallOK(d) /\ Kept(c, d) /\ Failed(c, d) /\ d.vs.fdbk = fdbk /\ d.rc = r15
<1> DEFINE v == c.vs
           a == [v EXCEPT !.r15 = r15, !.fdbk = fdbk, !.hold = 0]
           b == [a EXCEPT !.flags = @ \cup {"ERROR"}, !.rc = a.r15, !.rsn = a.fdbk]
           e == Reset(b)
           d == [c EXCEPT !.rc = r15, !.vs = e]
<1>1. HandleOK(v, c.recs) /\ Shaped(c, CallParts) /\ RecsOK(c.recs)
  BY DEF VsCallOK
<1> HIDE DEF v
<1>2. /\ Shaped(a, VsParts) /\ a.r15 = r15 /\ a.fdbk = fdbk /\ a.hold = 0
      /\ \A x \in VsParts \ {"r15", "fdbk", "hold"} : a[x] = v[x]
  BY <1>1 DEF HandleOK, Shaped, VsParts
<1> HIDE DEF a
<1>3. /\ Shaped(b, VsParts) /\ b.flags = v.flags \cup {"ERROR"} /\ b.rc = r15 /\ b.rsn = fdbk
      /\ \A x \in VsParts \ {"flags", "rc", "rsn"} : b[x] = a[x]
  BY <1>2 DEF Shaped, VsParts
<1> HIDE DEF b
<1>4. /\ Shaped(e, VsParts)
      /\ \A x \in VsParts \ {"opt", "vsreset"} : e[x] = b[x]
      /\ IF v.vsreset /\ "WRITE" \in v.flags THEN e.opt = restore(v).opt /\ e.vsreset = FALSE
         ELSE e.opt = v.opt /\ e.vsreset = v.vsreset
  <2>1. b.vsreset = v.vsreset /\ b.opt = v.opt /\ b.type = v.type /\ b.access = v.access
        /\ ("WRITE" \in b.flags <=> "WRITE" \in v.flags)
    BY <1>2, <1>3 DEF VsParts
  <2> DEFINE o == IF PUT_DIRECT(b) THEN (b.opt \ {"DIR", "SKP"}) \cup {"UPD"} ELSE b.opt \cup {"UPD"}
             w == [b EXCEPT !.opt = o, !.vsreset = FALSE]
  <2>2. restore(b) = w
    BY DEF restore
  <2>3. restore(v).opt = o
    BY <1>1, <2>1 DEF restore, PUT_DIRECT, HandleOK, Shaped, VsParts
  <2> HIDE DEF o
  <2>4. Shaped(w, VsParts) /\ w.opt = o /\ w.vsreset = FALSE /\ \A x \in VsParts \ {"opt", "vsreset"} : w[x] = b[x]
    BY <1>3 DEF Shaped, VsParts
  <2> HIDE DEF w
  <2>5. CASE b.vsreset /\ "WRITE" \in b.flags
    <3>1. e = w
      BY <2>2, <2>5 DEF Reset
    <3>2. QED BY <2>1, <2>3, <2>4, <2>5, <3>1
  <2>6. CASE ~ (b.vsreset /\ "WRITE" \in b.flags)
    <3>1. e = b
      BY <2>6 DEF Reset
    <3>2. QED BY <1>3, <2>1, <2>6, <3>1
  <2>7. QED BY <2>5, <2>6
<1>5. VsFailed(c, r15, fdbk) = d
  BY DEF VsFailed, __vsxerr, Noted, a, b, v
<1> HIDE DEF e
<1>6. Shaped(d, CallParts) /\ d.rc = r15 /\ d.vs = e /\ \A x \in CallParts \ {"rc", "vs"} : d[x] = c[x]
  BY <1>1 DEF Shaped, CallParts
<1> HIDE DEF d
<1>7. \A x \in VsParts \ {"r15", "fdbk", "hold", "flags", "rc", "rsn", "opt", "vsreset"} : e[x] = v[x]
  BY <1>2, <1>3, <1>4
<1>8. e.r15 = r15 /\ e.fdbk = fdbk /\ e.hold = 0 /\ e.rc = r15 /\ e.rsn = fdbk /\ e.flags = v.flags \cup {"ERROR"}
  BY <1>2, <1>3, <1>4 DEF VsParts
<1>9. HandleOK(e, c.recs)
  BY <1>1, <1>4, <1>7, <1>8 DEF HandleOK, VsParts
<1>10. VsCallOK(d) /\ Kept(c, d)
  BY <1>1, <1>6, <1>7, <1>9 DEF VsCallOK, Kept, v, CallParts, VsParts
<1>11. Failed(c, d)
  BY <1>4, <1>6, <1>8 DEF Failed, OptKept, v, CallParts
<1>12. QED BY <1>5, <1>6, <1>8, <1>10, <1>11

(* A field of the handle that a request changes. *)
LEMMA SetVs ==
    ASSUME NEW c, Shaped(c, CallParts), NEW v
    PROVE  LET d == [c EXCEPT !.vs = v]
           IN  Shaped(d, CallParts) /\ d.vs = v /\ \A x \in CallParts \ {"vs"} : d[x] = c[x]
BY DEF Shaped, CallParts

LEMMA PlaceFacts ==
    ASSUME NEW c, VsCallOK(c), NEW p \in Nat
    PROVE  LET d == [c EXCEPT !.vs.place = p]
           IN  /\ VsCallOK(d) /\ Kept(c, d) /\ d.recs = c.recs /\ d.rc = c.rc /\ d.vs.place = p
               /\ \A x \in VsParts \ {"place"} : d.vs[x] = c.vs[x]
<1> DEFINE v == [c.vs EXCEPT !.place = p]
           d == [c EXCEPT !.vs = v]
<1>1. HandleOK(c.vs, c.recs) /\ Shaped(c, CallParts) /\ RecsOK(c.recs)
  BY DEF VsCallOK
<1>2. Shaped(v, VsParts) /\ v.place = p /\ \A x \in VsParts \ {"place"} : v[x] = c.vs[x]
  BY <1>1 DEF HandleOK, Shaped, VsParts
<1>3. [c EXCEPT !.vs.place = p] = d
  BY <1>1 DEF Shaped, CallParts
<1> HIDE DEF v
<1>4. HandleOK(v, c.recs)
  BY <1>1, <1>2 DEF HandleOK, VsParts
<1>5. Shaped(d, CallParts) /\ d.vs = v /\ \A x \in CallParts \ {"vs"} : d[x] = c[x]
  BY <1>1, SetVs
<1> HIDE DEF d
<1>6. VsCallOK(d) /\ Kept(c, d) /\ d.recs = c.recs /\ d.rc = c.rc
  BY <1>1, <1>2, <1>4, <1>5 DEF VsCallOK, Kept, CallParts, VsParts
<1>7. QED BY <1>2, <1>3, <1>5, <1>6

LEMMA VsDoneFacts ==
    ASSUME NEW c, VsCallOK(c)
    PROVE  LET d == Done(c)
           IN  /\ VsCallOK(d) /\ Kept(c, d) /\ Succeeded(c, d) /\ d.recs = c.recs
               /\ \A x \in VsParts \ {"r15", "fdbk"} : d.vs[x] = c.vs[x]
<1> DEFINE v == [c.vs EXCEPT !.r15 = 0, !.fdbk = 0]
           d == [c EXCEPT !.rc = 0, !.vs = v]
<1>1. HandleOK(c.vs, c.recs) /\ Shaped(c, CallParts) /\ RecsOK(c.recs)
  BY DEF VsCallOK
<1>2. Shaped(v, VsParts) /\ v.r15 = 0 /\ v.fdbk = 0 /\ \A x \in VsParts \ {"r15", "fdbk"} : v[x] = c.vs[x]
  BY <1>1 DEF HandleOK, Shaped, VsParts
<1>3. Done(c) = d
  BY <1>1 DEF Done, Shaped, CallParts
<1> HIDE DEF v
<1>4. HandleOK(v, c.recs)
  BY <1>1, <1>2 DEF HandleOK, VsParts
<1>5. Shaped(d, CallParts) /\ d.vs = v /\ d.rc = 0 /\ \A x \in CallParts \ {"vs", "rc"} : d[x] = c[x]
  BY <1>1 DEF Shaped, CallParts
<1> HIDE DEF d
<1>6. VsCallOK(d) /\ Kept(c, d) /\ d.recs = c.recs /\ Succeeded(c, d)
  BY <1>1, <1>2, <1>4, <1>5 DEF VsCallOK, Kept, CallParts, VsParts, Succeeded, OptKept
<1>7. QED BY <1>2, <1>3, <1>5, <1>6

(* A record that was read. *)
LEMMA DeliveredFacts ==
    ASSUME NEW c, VsCallOK(c), NEW k \in Present(c)
    PROVE  LET d == Delivered(c, k)
           IN  VsCallOK(d) /\ Kept(c, d) /\ Succeeded(c, d) /\ d.recs = c.recs /\ d.vs.last = k /\ k \in Records
<1> DEFINE h == IF "UPD" \in c.vs.opt THEN k ELSE 0
           v == [c.vs EXCEPT !.place = k + 1, !.last = k, !.hold = h]
           e == [c EXCEPT !.vs = v]
<1>1. HandleOK(c.vs, c.recs) /\ Shaped(c, CallParts) /\ RecsOK(c.recs)
  BY DEF VsCallOK
<1>2. k \in Records /\ c.recs[k] > 0 /\ k + 1 \in Nat
  BY KeyFacts DEF Present
<1>3. /\ Shaped(v, VsParts) /\ v.place = k + 1 /\ v.last = k /\ v.hold = h
      /\ \A x \in VsParts \ {"place", "last", "hold"} : v[x] = c.vs[x]
  BY <1>1 DEF HandleOK, Shaped, VsParts
<1>4. Delivered(c, k) = Done(e)
  BY <1>1 DEF Delivered, Shaped, CallParts
<1> HIDE DEF v
<1>5. HandleOK(v, c.recs)
  BY <1>1, <1>2, <1>3 DEF HandleOK, VsParts
<1>6. Shaped(e, CallParts) /\ e.vs = v /\ \A x \in CallParts \ {"vs"} : e[x] = c[x]
  BY <1>1, SetVs
<1> HIDE DEF e
<1>7. VsCallOK(e) /\ Kept(c, e) /\ e.recs = c.recs
  BY <1>1, <1>3, <1>5, <1>6 DEF VsCallOK, Kept, CallParts, VsParts
<1> DEFINE d == Done(e)
<1>8. /\ VsCallOK(d) /\ Kept(e, d) /\ Succeeded(e, d) /\ d.recs = e.recs
      /\ \A x \in VsParts \ {"r15", "fdbk"} : d.vs[x] = e.vs[x]
  BY <1>7, VsDoneFacts
<1> HIDE DEF d
<1>9. d.vs.last = k
  BY <1>3, <1>6, <1>8 DEF VsParts
<1>10. Kept(c, d) /\ Succeeded(c, d)
  BY <1>3, <1>6, <1>7, <1>8 DEF Kept, Succeeded, OptKept, VsParts
<1>11. QED BY <1>2, <1>4, <1>7, <1>8, <1>9, <1>10 DEF d

(* The end of the file. *)
EndOfFile(c, d) ==
    /\ d.rc = 4 /\ d.recs = c.recs /\ d.vs.flags = c.vs.flags \cup {"EOF"}
    /\ d.vs.r15 = 8 /\ d.vs.fdbk = 4 /\ OptKept(c, d)

LEMMA EodadFacts ==
    ASSUME NEW c, VsCallOK(c)
    PROVE  LET d == EODAD(c) IN VsCallOK(d) /\ Kept(c, d) /\ EndOfFile(c, d)
<1> DEFINE a == [c.vs EXCEPT !.r15 = 8, !.fdbk = 4, !.hold = 0, !.place = After]
           v == [a EXCEPT !.flags = @ \cup {"EOF"}]
           d == [c EXCEPT !.rc = 4, !.vs = v]
<1>1. HandleOK(c.vs, c.recs) /\ Shaped(c, CallParts) /\ RecsOK(c.recs)
  BY DEF VsCallOK
<1>2. After \in Nat
  BY KeyFacts DEF After
<1>3. /\ Shaped(a, VsParts) /\ a.r15 = 8 /\ a.fdbk = 4 /\ a.hold = 0 /\ a.place = After
      /\ \A x \in VsParts \ {"r15", "fdbk", "hold", "place"} : a[x] = c.vs[x]
  BY <1>1 DEF HandleOK, Shaped, VsParts
<1> HIDE DEF a
<1>4. Shaped(v, VsParts) /\ v.flags = a.flags \cup {"EOF"} /\ \A x \in VsParts \ {"flags"} : v[x] = a[x]
  BY <1>3 DEF Shaped, VsParts
<1>5. EODAD(c) = d
  BY DEF EODAD, __vsxeof, a
<1> HIDE DEF v
<1>6. HandleOK(v, c.recs)
  BY <1>1, <1>2, <1>3, <1>4 DEF HandleOK, VsParts
<1>7. Shaped(d, CallParts) /\ d.vs = v /\ d.rc = 4 /\ \A x \in CallParts \ {"vs", "rc"} : d[x] = c[x]
  BY <1>1 DEF Shaped, CallParts
<1> HIDE DEF d
<1>8. VsCallOK(d) /\ Kept(c, d)
  BY <1>1, <1>3, <1>4, <1>6, <1>7 DEF VsCallOK, Kept, CallParts, VsParts
<1>9. EndOfFile(c, d)
  BY <1>3, <1>4, <1>7 DEF EndOfFile, OptKept, CallParts, VsParts
<1>10. QED BY <1>5, <1>8, <1>9

----------------------------------------------------------------------------
(* The requests. *)

(* e is c for every request, but for the position. *)
Like(c, e) ==
    VsCallOK(e) /\ Kept(c, e) /\ e.recs = c.recs /\ e.vs.flags = c.vs.flags /\ OptKept(c, e)

LEMMA LikeFacts ==
    ASSUME NEW c, VsCallOK(c), NEW e, Like(c, e), NEW d, Kept(e, d)
    PROVE  /\ Kept(c, d) /\ (Failed(e, d) => Failed(c, d)) /\ (Succeeded(e, d) => Succeeded(c, d))
           /\ (EndOfFile(e, d) => EndOfFile(c, d))
<1>1. Kept(c, d)
  BY DEF Like, Kept
<1>2. restore(e.vs).opt = restore(c.vs).opt
  <2>1. e.vs.type = c.vs.type /\ e.vs.access = c.vs.access /\ e.vs.opt = c.vs.opt
    BY DEF Like, Kept, OptKept
  <2>2. Shaped(e.vs, VsParts) /\ Shaped(c.vs, VsParts)
    BY DEF Like, VsCallOK, HandleOK
  <2>3. QED BY <2>1, <2>2 DEF restore, PUT_DIRECT, Shaped, VsParts
<1>3. Failed(e, d) => Failed(c, d)
  BY <1>2 DEF Like, Failed, OptKept
<1>4. QED BY <1>1, <1>3 DEF Like, Succeeded, EndOfFile, OptKept

LEMMA LikeAsked == ASSUME NEW c, VsCallOK(c) PROVE Like(c, Asked(c)) /\ Asked(c).vs = c.vs /\ Asked(c).recs = c.recs
BY AskedFacts DEF Like, OptKept

LEMMA LikePlaced ==
    ASSUME NEW c, VsCallOK(c), NEW p \in Nat
    PROVE  Like(c, [c EXCEPT !.vs.place = p]) /\ [c EXCEPT !.vs.place = p].recs = c.recs
<1> DEFINE d == [c EXCEPT !.vs.place = p]
<1>1. /\ VsCallOK(d) /\ Kept(c, d) /\ d.recs = c.recs
      /\ \A x \in VsParts \ {"place"} : d.vs[x] = c.vs[x]
  BY PlaceFacts
<1> HIDE DEF d
<1>2. Like(c, d) /\ d.recs = c.recs
  BY <1>1 DEF Like, OptKept, VsParts
<1>3. QED BY <1>2 DEF d

(* A request that fails after the position may have been lost. *)
LEMMA RefusedFacts ==
    ASSUME NEW c, VsCallOK(c), NEW e, Like(c, e), NEW r15 \in {8, 12}, NEW fdbk
    PROVE  LET d == VsFailed(e, r15, fdbk)
           IN  VsCallOK(d) /\ Kept(c, d) /\ Failed(c, d) /\ d.recs = c.recs /\ d.rc = r15 /\ d.vs.fdbk = fdbk
<1> DEFINE d == VsFailed(e, r15, fdbk)
<1>1. VsCallOK(e)
  BY DEF Like
<1>2. VsCallOK(d) /\ Kept(e, d) /\ Failed(e, d) /\ d.rc = r15 /\ d.vs.fdbk = fdbk
  BY <1>1, FailFacts
<1> HIDE DEF d
<1>3. Kept(c, d) /\ Failed(c, d)
  BY <1>2, LikeFacts
<1>4. QED BY <1>2, <1>3 DEF d, Failed

Direct(c) == c.vs.opt \cap {"DIR", "SKP"} # {}

(* Why a GET that was carried out failed. *)
GetError(c, fdbk) ==
    \/ c.vs.mode = "OUT" /\ fdbk = 68
    \/ Direct(c) /\ c.vs.arg \notin Present(c) /\ fdbk = 16
    \/ ~ Direct(c) /\ c.vs.place = Lost /\ fdbk = 88
    \/ ~ Direct(c) /\ c.vs.place = After /\ fdbk = 4
Got(c, d) ==
    \/ /\ Succeeded(c, d) /\ d.vs.last \in Present(c)
       /\ Direct(c) => d.vs.last = c.vs.arg
       /\ ~ Direct(c) => d.vs.last >= c.vs.place /\ \A k \in Present(c) : k >= c.vs.place => d.vs.last <= k
    \/ EndOfFile(c, d) /\ ~ Direct(c) /\ \A k \in Present(c) : k < c.vs.place
    \/ Failed(c, d) /\ (d.rc = 8 => GetError(c, d.vs.fdbk)) /\ (d.rc = 12 => d.vs.fdbk = 4)

LEMMA GetFacts ==
    ASSUME NEW c, VsCallOK(c)
    PROVE  LET d == GET(c) IN VsCallOK(d) /\ Kept(c, d) /\ d.recs = c.recs /\ Got(c, d)
<1> DEFINE a == Asked(c)
           d == GET(c)
<1>1. Like(c, a) /\ a.vs = c.vs /\ a.recs = c.recs /\ VsCallOK(a)
  BY LikeAsked DEF Like
<1>2. Present(a) = Present(c) /\ Next1(a) = Next1(c) /\ Present(c) \subseteq Records
  BY <1>1 DEF Present, Next1
<1> HIDE DEF a
<1>3. CASE Refused(c)
  <2>1. d = VsFailed(a, 12, 4)
    BY <1>3 DEF GET, SYNAD, a
  <2> HIDE DEF d
  <2>2. VsCallOK(d) /\ Kept(c, d) /\ Failed(c, d) /\ d.recs = c.recs /\ d.rc = 12 /\ d.vs.fdbk = 4
    BY <1>1, <2>1, RefusedFacts
  <2>3. QED BY <2>2 DEF Got, d
<1>4. CASE ~ Refused(c) /\ c.vs.mode = "OUT"
  <2>1. d = VsFailed(a, 8, 68)
    BY <1>1, <1>4 DEF GET, LERAD, a
  <2> HIDE DEF d
  <2>2. VsCallOK(d) /\ Kept(c, d) /\ Failed(c, d) /\ d.recs = c.recs /\ d.rc = 8 /\ d.vs.fdbk = 68
    BY <1>1, <2>1, RefusedFacts
  <2>3. QED BY <1>4, <2>2 DEF Got, GetError, d
<1>5. CASE ~ Refused(c) /\ c.vs.mode # "OUT" /\ Direct(c)
  <2>1. d = GetKeyed(a)
    BY <1>1, <1>5 DEF GET, Direct, a
  <2>2. CASE c.vs.arg \in Present(c)
    <3>1. d = Delivered(a, c.vs.arg)
      BY <1>1, <1>2, <2>1, <2>2 DEF GetKeyed
    <3> HIDE DEF d
    <3>2. VsCallOK(d) /\ Kept(a, d) /\ Succeeded(a, d) /\ d.recs = a.recs /\ d.vs.last = c.vs.arg
      BY <1>1, <1>2, <2>2, <3>1, DeliveredFacts
    <3>3. Kept(c, d) /\ Succeeded(c, d)
      BY <1>1, <3>2, LikeFacts
    <3>4. QED BY <1>1, <1>5, <2>2, <3>2, <3>3 DEF Got, d
  <2>3. CASE c.vs.arg \notin Present(c)
    <3> DEFINE e == [a EXCEPT !.vs.place = Lost]
    <3>1. d = VsFailed(e, 8, 16)
      BY <1>1, <1>2, <2>1, <2>3 DEF GetKeyed, LERAD
    <3>2. Like(a, e)
      <4>1. Lost \in Nat
        BY DEF Lost
      <4>2. QED BY <1>1, <4>1, LikePlaced
    <3> HIDE DEF d, e
    <3>3. VsCallOK(d) /\ Kept(a, d) /\ Failed(a, d) /\ d.recs = a.recs /\ d.rc = 8 /\ d.vs.fdbk = 16
      BY <1>1, <3>1, <3>2, RefusedFacts
    <3>4. Kept(c, d) /\ Failed(c, d)
      BY <1>1, <3>3, LikeFacts
    <3>5. QED BY <1>1, <1>5, <2>3, <3>3, <3>4 DEF Got, GetError, d
  <2>4. QED BY <2>2, <2>3
<1>6. CASE ~ Refused(c) /\ c.vs.mode # "OUT" /\ ~ Direct(c)
  <2>1. d = GetNext(a)
    BY <1>1, <1>6 DEF GET, Direct, a
  <2>2. c.vs.place \in Nat /\ Lost = 0 /\ After # 0 /\ \A k \in Records : k \in Nat
    BY KeyFacts DEF VsCallOK, HandleOK, Lost, After
  <2>3. CASE c.vs.place = Lost
    <3>1. d = VsFailed(a, 8, 88)
      BY <1>1, <2>1, <2>3 DEF GetNext, LERAD
    <3> HIDE DEF d
    <3>2. VsCallOK(d) /\ Kept(c, d) /\ Failed(c, d) /\ d.recs = c.recs /\ d.rc = 8 /\ d.vs.fdbk = 88
      BY <1>1, <3>1, RefusedFacts
    <3>3. QED BY <1>6, <2>3, <3>2 DEF Got, GetError, d
  <2>4. CASE c.vs.place = After
    <3>1. d = VsFailed(a, 8, 4)
      BY <1>1, <2>1, <2>2, <2>4 DEF GetNext, LERAD
    <3> HIDE DEF d
    <3>2. VsCallOK(d) /\ Kept(c, d) /\ Failed(c, d) /\ d.recs = c.recs /\ d.rc = 8 /\ d.vs.fdbk = 4
      BY <1>1, <3>1, RefusedFacts
    <3>3. QED BY <1>6, <2>4, <3>2 DEF Got, GetError, d
  <2>5. CASE c.vs.place \notin {Lost, After} /\ Next1(c) = {}
    <3>1. d = EODAD(a)
      BY <1>1, <1>2, <2>1, <2>5 DEF GetNext
    <3> HIDE DEF d
    <3>2. VsCallOK(d) /\ Kept(a, d) /\ EndOfFile(a, d)
      BY <1>1, <3>1, EodadFacts
    <3>3. Kept(c, d) /\ EndOfFile(c, d)
      BY <1>1, <3>2, LikeFacts
    <3>4. \A k \in Present(c) : k < c.vs.place
      BY <1>2, <2>2, <2>5 DEF Next1
    <3>5. QED BY <1>6, <3>2, <3>3, <3>4 DEF Got, EndOfFile, d
  <2>6. CASE c.vs.place \notin {Lost, After} /\ Next1(c) # {}
    <3> DEFINE k == FirstKey(Next1(c))
    <3>1. d = Delivered(a, k)
      BY <1>1, <1>2, <2>1, <2>6 DEF GetNext
    <3>2. Next1(c) \subseteq Present(c)
      BY DEF Next1
    <3>3. k \in Next1(c) /\ \A j \in Next1(c) : k <= j
      BY <1>2, <2>6, <3>2, KeyFacts
    <3> HIDE DEF d, k
    <3>4. VsCallOK(d) /\ Kept(a, d) /\ Succeeded(a, d) /\ d.recs = a.recs /\ d.vs.last = k
      BY <1>1, <1>2, <3>1, <3>2, <3>3, DeliveredFacts
    <3>5. Kept(c, d) /\ Succeeded(c, d)
      BY <1>1, <3>4, LikeFacts
    <3>6. k \in Present(c) /\ k >= c.vs.place /\ \A j \in Present(c) : j >= c.vs.place => k <= j
      BY <3>3 DEF Next1
    <3>7. QED BY <1>1, <1>6, <3>4, <3>5, <3>6 DEF Got, d
  <2>7. QED BY <2>3, <2>4, <2>5, <2>6
<1>7. QED BY <1>3, <1>4, <1>5, <1>6

(* What a POINT finds. *)
Pointing(c, d) ==
    \/ /\ Succeeded(c, d) /\ c.vs.mode # "OUT"
       /\ "KGE" \notin c.vs.opt => c.vs.arg \in Present(c) /\ d.vs.place = c.vs.arg
    \/ Failed(c, d) /\ d.vs.fdbk \in {8, 16, 68}

LEMMA PointFacts ==
    ASSUME NEW c, VsCallOK(c)
    PROVE  LET d == POINT(c) IN VsCallOK(d) /\ Kept(c, d) /\ d.recs = c.recs /\ Pointing(c, d)
<1> DEFINE a == Asked(c)
           b == [c EXCEPT !.vs.place = Lost]
           found == {k \in Present(c) : IF "KGE" \in c.vs.opt THEN k >= c.vs.arg ELSE k = c.vs.arg}
           e == [a EXCEPT !.vs.place = Lost]
           d == POINT(c)
<1>1. Like(c, a) /\ a.vs = c.vs /\ a.recs = c.recs /\ VsCallOK(a) /\ Present(a) = Present(c)
  BY LikeAsked DEF Like, Present
<1>2. Lost \in Nat /\ found \subseteq Records /\ \A k \in Records : k \in Nat
  BY KeyFacts DEF Lost, Present
<1>3. Like(c, b) /\ Like(a, e)
  BY <1>1, <1>2, LikePlaced
<1>4. Like(c, Asked(b))
  <2>1. Like(b, Asked(b)) /\ VsCallOK(b)
    BY <1>3, LikeAsked DEF Like
  <2>2. QED BY <1>3, <2>1 DEF Like, Kept, OptKept
<1>5. d = IF Refused(c) THEN VsFailed(Asked(b), 12, 8)
          ELSE IF c.vs.mode = "OUT" THEN VsFailed(a, 8, 68)
          ELSE IF found = {} THEN VsFailed(e, 8, 16)
          ELSE Done([a EXCEPT !.vs.place = FirstKey(found), !.vs.hold = 0])
  <2> HIDE DEF b
  <2>1. found = {k \in Present(a) : IF "KGE" \in a.vs.opt THEN k >= a.vs.arg ELSE k = a.vs.arg}
    BY <1>1
  <2> HIDE DEF found
  <2>2. QED BY <1>1, <2>1 DEF POINT, Pointed, LERAD, SYNAD, b, found
<1> HIDE DEF a, b, e, found, d
<1>6. CASE Refused(c)
  <2>1. d = VsFailed(Asked(b), 12, 8)
    BY <1>5, <1>6
  <2>2. VsCallOK(d) /\ Kept(c, d) /\ Failed(c, d) /\ d.recs = c.recs /\ d.vs.fdbk = 8
    BY <1>4, <2>1, RefusedFacts
  <2>3. QED BY <2>2 DEF Pointing, d
<1>7. CASE ~ Refused(c) /\ c.vs.mode = "OUT"
  <2>1. d = VsFailed(a, 8, 68)
    BY <1>5, <1>7
  <2>2. VsCallOK(d) /\ Kept(c, d) /\ Failed(c, d) /\ d.recs = c.recs /\ d.vs.fdbk = 68
    BY <1>1, <2>1, RefusedFacts
  <2>3. QED BY <2>2 DEF Pointing, d
<1>8. CASE ~ Refused(c) /\ c.vs.mode # "OUT" /\ found = {}
  <2>1. d = VsFailed(e, 8, 16)
    BY <1>5, <1>8
  <2>2. VsCallOK(d) /\ Kept(a, d) /\ Failed(a, d) /\ d.recs = a.recs /\ d.vs.fdbk = 16
    BY <1>1, <1>3, <2>1, RefusedFacts
  <2>3. Kept(c, d) /\ Failed(c, d)
    BY <1>1, <2>2, LikeFacts
  <2>4. QED BY <1>1, <2>2, <2>3 DEF Pointing, d
<1>9. CASE ~ Refused(c) /\ c.vs.mode # "OUT" /\ found # {}
  <2> DEFINE k == FirstKey(found)
             v == [a.vs EXCEPT !.place = k, !.hold = 0]
             g == [a EXCEPT !.vs = v]
  <2>1. k \in found /\ k \in Nat
    BY <1>2, <1>9, KeyFacts
  <2> HIDE DEF k
  <2>2. HandleOK(a.vs, a.recs) /\ Shaped(a, CallParts) /\ RecsOK(a.recs)
    BY <1>1 DEF VsCallOK
  <2>3. d = Done(g)
    <3>1. d = Done([a EXCEPT !.vs.place = k, !.vs.hold = 0])
      BY <1>5, <1>9 DEF k
    <3>2. [a EXCEPT !.vs.place = k, !.vs.hold = 0] = g
      BY <2>2 DEF Shaped, CallParts
    <3>3. QED BY <3>1, <3>2
  <2>4. Shaped(v, VsParts) /\ v.place = k /\ v.hold = 0 /\ \A x \in VsParts \ {"place", "hold"} : v[x] = a.vs[x]
    BY <2>2 DEF HandleOK, Shaped, VsParts
  <2> HIDE DEF v
  <2>5. HandleOK(v, a.recs)
    BY <2>1, <2>2, <2>4 DEF HandleOK, VsParts
  <2>6. Shaped(g, CallParts) /\ g.vs = v /\ \A x \in CallParts \ {"vs"} : g[x] = a[x]
    BY <2>2, SetVs
  <2> HIDE DEF g
  <2>7. Like(a, g)
    BY <2>2, <2>4, <2>5, <2>6 DEF Like, VsCallOK, Kept, OptKept, CallParts, VsParts
  <2>8. /\ VsCallOK(d) /\ Kept(g, d) /\ Succeeded(g, d) /\ d.recs = g.recs
        /\ \A x \in VsParts \ {"r15", "fdbk"} : d.vs[x] = g.vs[x]
    BY <2>3, <2>7, VsDoneFacts DEF Like
  <2>9. Kept(a, d) /\ Succeeded(a, d)
    BY <1>1, <2>7, <2>8, LikeFacts
  <2>10. Kept(c, d) /\ Succeeded(c, d)
    BY <1>1, <2>9, LikeFacts
  <2>11. d.vs.place = k
    BY <2>4, <2>6, <2>8 DEF VsParts
  <2>12. "KGE" \notin c.vs.opt => c.vs.arg \in Present(c) /\ k = c.vs.arg
    BY <2>1 DEF found
  <2>13. QED BY <1>1, <1>9, <2>6, <2>8, <2>10, <2>11, <2>12 DEF Pointing, d, CallParts
<1>10. QED BY <1>6, <1>7, <1>8, <1>9

(* A record that was written. *)
LEMMA StoredFacts ==
    ASSUME NEW c, VsCallOK(c), NEW k \in Records, NEW p \in Nat, c.vs.len \in Nat \ {0},
           c.vs.type = "ESDS" => \E m \in Nat : In(c.recs) \cup {k} = 1 .. m
    PROVE  LET d == Stored(c, k, p)
           IN  VsCallOK(d) /\ Kept(c, d) /\ Succeeded(c, d) /\ d.recs = [c.recs EXCEPT ![k] = c.vs.len]
<1> DEFINE v == [c.vs EXCEPT !.last = k, !.place = p, !.hold = 0]
           r == [c.recs EXCEPT ![k] = c.vs.len]
           e == [c EXCEPT !.recs = r, !.vs = v]
           d == Done(e)
<1>1. HandleOK(c.vs, c.recs) /\ Shaped(c, CallParts) /\ RecsOK(c.recs)
  BY DEF VsCallOK
<1>2. Stored(c, k, p) = d
  BY <1>1 DEF Stored, Shaped, CallParts
<1>3. /\ Shaped(v, VsParts) /\ v.last = k /\ v.place = p /\ v.hold = 0
      /\ \A x \in VsParts \ {"last", "place", "hold"} : v[x] = c.vs[x]
  BY <1>1 DEF HandleOK, Shaped, VsParts
<1>4. RecsOK(r) /\ In(r) = In(c.recs) \cup {k}
  BY <1>1 DEF RecsOK, In
<1> HIDE DEF v, r
<1>5. HandleOK(v, r)
  BY <1>1, <1>3, <1>4 DEF HandleOK, VsParts
<1>6. Shaped(e, CallParts) /\ e.vs = v /\ e.recs = r /\ \A x \in CallParts \ {"vs", "recs"} : e[x] = c[x]
  BY <1>1 DEF Shaped, CallParts
<1> HIDE DEF e
<1>7. VsCallOK(e) /\ Kept(c, e)
  BY <1>1, <1>3, <1>4, <1>5, <1>6 DEF VsCallOK, Kept, CallParts, VsParts
<1>8. VsCallOK(d) /\ Kept(e, d) /\ Succeeded(e, d) /\ d.recs = e.recs
  BY <1>7, VsDoneFacts
<1> HIDE DEF d
<1>9. Kept(c, d) /\ Succeeded(c, d)
  BY <1>3, <1>6, <1>7, <1>8 DEF Kept, Succeeded, OptKept, VsParts
<1>10. QED BY <1>2, <1>6, <1>8, <1>9 DEF r

(* An insertion stores a record where there was none; an update stores the *)
(* one that was read; a request that fails stores none.                    *)
Inserting(c, d) ==
    \/ Succeeded(c, d) /\ \A j \in Records : c.recs[j] > 0 => d.recs[j] = c.recs[j]
    \/ Failed(c, d)
Putt(c, d) ==
    /\ Succeeded(c, d) \/ Failed(c, d)
    /\ "UPD" \notin c.vs.opt => \A j \in Records : c.recs[j] > 0 => d.recs[j] = c.recs[j]

LEMMA InsertFacts ==
    ASSUME NEW c, VsCallOK(c), NEW k \in Records, c.vs.len \in Nat \ {0}
    PROVE  LET d == Insert(c, k) IN VsCallOK(d) /\ Kept(c, d) /\ Inserting(c, d)
<1> DEFINE d == Insert(c, k)
           n == Cardinality(Present(c))
<1>1. HandleOK(c.vs, c.recs) /\ RecsOK(c.recs) /\ Present(c) = In(c.recs) /\ \A j \in Records : c.recs[j] \in Nat
  BY DEF VsCallOK, Present, In, RecsOK
<1>2. LastKey \in Nat \ {0} /\ Records = 1 .. LastKey /\ c.vs.place \in Nat /\ Like(c, c)
  BY KeyFacts DEF VsCallOK, HandleOK, Like, Kept, OptKept
<1>3. ASSUME NEW fdbk, d = VsFailed(c, 8, fdbk) PROVE VsCallOK(d) /\ Kept(c, d) /\ Inserting(c, d)
  <2> HIDE DEF d
  <2>1. VsCallOK(d) /\ Kept(c, d) /\ Failed(c, d)
    BY <1>2, <1>3, RefusedFacts
  <2>2. QED BY <2>1 DEF Inserting
<1>4. ASSUME NEW j \in Records, NEW p \in Nat, d = Stored(c, j, p), ~ (c.recs[j] > 0),
             c.vs.type = "ESDS" => \E m \in Nat : In(c.recs) \cup {j} = 1 .. m
      PROVE  VsCallOK(d) /\ Kept(c, d) /\ Inserting(c, d)
  <2> HIDE DEF d
  <2>1. VsCallOK(d) /\ Kept(c, d) /\ Succeeded(c, d) /\ d.recs = [c.recs EXCEPT ![j] = c.vs.len]
    BY <1>4, StoredFacts
  <2>2. \A i \in Records : c.recs[i] > 0 => d.recs[i] = c.recs[i]
    BY <1>1, <1>4, <2>1 DEF RecsOK
  <2>3. QED BY <2>1, <2>2 DEF Inserting
<1>5. CASE c.vs.type = "ESDS"
  <2>1. PICK m \in Nat : Present(c) = 1 .. m
    BY <1>1, <1>5 DEF HandleOK
  <2>2. n = m
    BY <2>1, FS_Interval
  <2>3. m <= LastKey
    <3>1. Present(c) \subseteq 1 .. LastKey
      BY <1>2 DEF Present
    <3>2. m = 0 \/ m \in 1 .. m
      BY <2>1
    <3>3. QED BY <1>2, <2>1, <3>1, <3>2
  <2>4. d = IF n = LastKey THEN VsFailed(c, 8, 28) ELSE Stored(c, n + 1, c.vs.place)
    BY <1>5 DEF Insert, LERAD
  <2> HIDE DEF d, n
  <2>5. CASE n = LastKey
    <3>1. d = VsFailed(c, 8, 28)
      BY <2>4, <2>5
    <3>2. QED BY <1>3, <3>1 DEF d
  <2>6. CASE n # LastKey
    <3>1. d = Stored(c, m + 1, c.vs.place)
      BY <2>2, <2>4, <2>6
    <3>2. m + 1 \in Records /\ m + 1 \notin 1 .. m /\ (1 .. m) \cup {m + 1} = 1 .. m + 1 /\ m + 1 \in Nat
      BY <1>2, <2>2, <2>3, <2>6
    <3>3. ~ (c.recs[m + 1] > 0) /\ In(c.recs) \cup {m + 1} = 1 .. m + 1
      BY <1>1, <2>1, <3>2 DEF In
    <3>4. QED BY <1>2, <1>4, <3>1, <3>2, <3>3 DEF d
  <2>7. QED BY <2>5, <2>6
<1>6. CASE c.vs.type # "ESDS" /\ "DIR" \in c.vs.opt
  <2> DEFINE p == IF c.keep THEN c.vs.place ELSE Lost
  <2>1. d = IF c.recs[k] > 0 THEN VsFailed(c, 8, 8) ELSE Stored(c, k, p)
    BY <1>6 DEF Insert, LERAD
  <2>2. p \in Nat
    BY <1>2 DEF Lost
  <2> HIDE DEF d, p
  <2>3. QED BY <1>3, <1>4, <1>6, <2>1, <2>2 DEF d
<1>7. CASE c.vs.type # "ESDS" /\ "DIR" \notin c.vs.opt
  <2>1. d = IF c.vs.type = "RRDS" /\ c.vs.place \notin Records THEN VsFailed(c, 8, 28)
            ELSE IF c.vs.type = "RRDS" /\ c.recs[c.vs.place] > 0 THEN VsFailed(c, 8, 8)
            ELSE IF c.vs.type = "RRDS" THEN Stored(c, c.vs.place, c.vs.place + 1)
            ELSE IF c.recs[k] > 0 \/ k < c.vs.place THEN VsFailed(c, 8, 12) ELSE Stored(c, k, k + 1)
    BY <1>7 DEF Insert, LERAD
  <2> HIDE DEF d
  <2>2. CASE c.vs.type = "RRDS"
    <3>1. CASE c.vs.place \notin Records
      BY <1>3, <2>1, <2>2, <3>1 DEF d
    <3>2. CASE c.vs.place \in Records /\ c.recs[c.vs.place] > 0
      BY <1>3, <2>1, <2>2, <3>2 DEF d
    <3>3. CASE c.vs.place \in Records /\ ~ (c.recs[c.vs.place] > 0)
      <4>1. d = Stored(c, c.vs.place, c.vs.place + 1) /\ c.vs.place + 1 \in Nat
        BY <1>2, <2>1, <2>2, <3>3
      <4>2. QED BY <1>4, <1>7, <3>3, <4>1 DEF d
    <3>4. QED BY <3>1, <3>2, <3>3
  <2>3. CASE c.vs.type # "RRDS"
    <3>1. CASE c.recs[k] > 0 \/ k < c.vs.place
      BY <1>3, <2>1, <2>3, <3>1 DEF d
    <3>2. CASE ~ (c.recs[k] > 0 \/ k < c.vs.place)
      <4>1. d = Stored(c, k, k + 1) /\ k + 1 \in Nat
        BY <1>2, <2>1, <2>3, <3>2
      <4>2. QED BY <1>4, <1>7, <3>2, <4>1 DEF d
    <3>3. QED BY <3>1, <3>2
  <2>4. QED BY <2>2, <2>3
<1>8. QED BY <1>5, <1>6, <1>7

LEMMA PutFacts ==
    ASSUME NEW c, VsCallOK(c), NEW k \in Records, c.vs.len \in Nat \ {0}
    PROVE  LET d == PUT(c, k) IN VsCallOK(d) /\ Kept(c, d) /\ Putt(c, d)
<1> DEFINE a == Asked(c)
           d == PUT(c, k)
<1>1. Like(c, a) /\ a.vs = c.vs /\ a.recs = c.recs /\ VsCallOK(a)
  BY LikeAsked DEF Like
<1>2. d = IF Refused(c) THEN VsFailed(a, 12, 16)
          ELSE IF c.vs.mode = "IN" THEN VsFailed(a, 8, 68)
          ELSE IF "UPD" \notin c.vs.opt THEN Insert(a, k)
          ELSE IF c.vs.hold = 0 THEN VsFailed(a, 8, 92)
          ELSE IF c.vs.type = "KSDS" /\ k # c.vs.hold THEN VsFailed(a, 8, 96)
          ELSE Stored(a, c.vs.hold, c.vs.place)
  BY <1>1 DEF PUT, LERAD, SYNAD
<1> HIDE DEF a, d
<1>3. ASSUME NEW r15 \in {8, 12}, NEW fdbk, d = VsFailed(a, r15, fdbk) PROVE VsCallOK(d) /\ Kept(c, d) /\ Putt(c, d)
  <2>1. VsCallOK(d) /\ Kept(c, d) /\ Failed(c, d) /\ d.recs = c.recs
    BY <1>1, <1>3, RefusedFacts
  <2>2. QED BY <2>1 DEF Putt
<1>4. CASE "UPD" \notin c.vs.opt /\ d = Insert(a, k)
  <2>1. VsCallOK(d) /\ Kept(a, d) /\ Inserting(a, d)
    BY <1>1, <1>4, InsertFacts
  <2>2. VsCallOK(d) /\ Kept(c, d) /\ (Succeeded(a, d) => Succeeded(c, d)) /\ (Failed(a, d) => Failed(c, d))
    BY <1>1, <2>1, LikeFacts
  <2>3. QED BY <1>1, <2>1, <2>2 DEF Inserting, Putt, Failed, d
<1>5. CASE "UPD" \in c.vs.opt /\ c.vs.hold # 0 /\ d = Stored(a, c.vs.hold, c.vs.place)
  <2>1. HandleOK(c.vs, c.recs) /\ c.vs.hold \in Records /\ c.vs.place \in Nat /\ c.recs[c.vs.hold] > 0
    BY <1>5 DEF VsCallOK, HandleOK
  <2> DEFINE h == c.vs.hold
  <2>2. In(a.recs) \cup {h} = In(a.recs)
    BY <1>1, <2>1 DEF In
  <2>3. /\ a.vs.type = "ESDS" => \E m \in Nat : In(a.recs) \cup {h} = 1 .. m
        /\ a.vs.len \in Nat \ {0} /\ h \in Records /\ c.vs.place \in Nat /\ d = Stored(a, h, c.vs.place)
    BY <1>1, <1>5, <2>1, <2>2 DEF HandleOK
  <2> HIDE DEF h
  <2>4. VsCallOK(d) /\ Kept(a, d) /\ Succeeded(a, d)
    BY <1>1, <2>3, StoredFacts
  <2>5. Kept(c, d) /\ Succeeded(c, d)
    BY <1>1, <2>4, LikeFacts
  <2>6. QED BY <1>5, <2>4, <2>5 DEF Putt, d
<1>6. QED BY <1>2, <1>3, <1>4, <1>5 DEF d

LEMMA EraseFacts ==
    ASSUME NEW c, VsCallOK(c)
    PROVE  LET d == ERASE(c) IN VsCallOK(d) /\ Kept(c, d) /\ (Succeeded(c, d) \/ Failed(c, d))
<1> DEFINE a == Asked(c)
           v == [a.vs EXCEPT !.hold = 0]
           r == [a.recs EXCEPT ![c.vs.hold] = 0]
           e == [a EXCEPT !.recs = r, !.vs = v]
           d == ERASE(c)
<1>1. Like(c, a) /\ a.vs = c.vs /\ a.recs = c.recs /\ VsCallOK(a)
  BY LikeAsked DEF Like
<1>2. HandleOK(a.vs, a.recs) /\ Shaped(a, CallParts) /\ RecsOK(a.recs)
  BY <1>1 DEF VsCallOK
<1>3. d = IF Refused(c) THEN VsFailed(a, 12, 16)
          ELSE IF c.vs.mode = "IN" \/ c.vs.type = "ESDS" THEN VsFailed(a, 8, 68)
          ELSE IF c.vs.hold = 0 THEN VsFailed(a, 8, 92)
          ELSE Done(e)
  <2>1. [a EXCEPT !.recs[c.vs.hold] = 0, !.vs.hold = 0] = e
    BY <1>2 DEF Shaped, CallParts
  <2>2. QED BY <1>1, <2>1 DEF ERASE, LERAD, SYNAD
<1> HIDE DEF a, d
<1>4. ASSUME NEW r15 \in {8, 12}, NEW fdbk, d = VsFailed(a, r15, fdbk) PROVE VsCallOK(d) /\ Kept(c, d) /\ Failed(c, d)
  BY <1>1, <1>4, RefusedFacts
<1>5. CASE c.vs.type # "ESDS" /\ c.vs.hold # 0 /\ d = Done(e)
  <2>1. Shaped(v, VsParts) /\ v.hold = 0 /\ \A x \in VsParts \ {"hold"} : v[x] = a.vs[x]
    BY <1>2 DEF HandleOK, Shaped, VsParts
  <2>2. RecsOK(r)
    BY <1>2 DEF RecsOK
  <2> HIDE DEF v, r
  <2>3. HandleOK(v, r)
    BY <1>1, <1>2, <1>5, <2>1 DEF HandleOK, VsParts
  <2>4. Shaped(e, CallParts) /\ e.vs = v /\ e.recs = r /\ \A x \in CallParts \ {"vs", "recs"} : e[x] = a[x]
    BY <1>2 DEF Shaped, CallParts
  <2> HIDE DEF e
  <2>5. VsCallOK(e) /\ Kept(a, e)
    BY <2>1, <2>2, <2>3, <2>4 DEF VsCallOK, Kept, CallParts, VsParts
  <2>6. VsCallOK(d) /\ Kept(e, d) /\ Succeeded(e, d)
    BY <1>5, <2>5, VsDoneFacts
  <2>7. Kept(a, d) /\ Succeeded(a, d)
    BY <2>1, <2>4, <2>5, <2>6 DEF Kept, Succeeded, OptKept, VsParts
  <2>8. Kept(c, d) /\ Succeeded(c, d)
    BY <1>1, <2>7, LikeFacts
  <2>9. QED BY <2>6, <2>8 DEF d
<1>6. QED BY <1>3, <1>4, <1>5 DEF d

----------------------------------------------------------------------------
(* The functions. *)

LEMMA ModifyFacts ==
    ASSUME NEW c, VsCallOK(c), NEW len, NEW key \in Records \cup {0}
    PROVE  LET d == __vsmdfy(c, len, key)
           IN  /\ VsCallOK(d) /\ d.vs.len = len /\ d.vs.arg = IF key = 0 THEN c.vs.arg ELSE key
               /\ \A x \in VsParts \ {"len", "arg"} : d.vs[x] = c.vs[x]
               /\ \A x \in CallParts \ {"vs"} : d[x] = c[x]
<1> DEFINE g == IF key = 0 THEN c.vs.arg ELSE key
           v == [c.vs EXCEPT !.len = len, !.arg = g]
           d == [c EXCEPT !.vs = v]
<1>1. HandleOK(c.vs, c.recs) /\ Shaped(c, CallParts) /\ RecsOK(c.recs)
  BY DEF VsCallOK
<1>2. g \in Records
  BY <1>1 DEF HandleOK
<1>3. __vsmdfy(c, len, key) = d
  BY <1>1 DEF __vsmdfy, HandleOK, Shaped, CallParts, VsParts
<1> HIDE DEF g
<1>4. Shaped(v, VsParts) /\ v.len = len /\ v.arg = g /\ \A x \in VsParts \ {"len", "arg"} : v[x] = c.vs[x]
  BY <1>1 DEF HandleOK, Shaped, VsParts
<1> HIDE DEF v
<1>5. HandleOK(v, c.recs)
  BY <1>1, <1>2, <1>4 DEF HandleOK, VsParts
<1>6. Shaped(d, CallParts) /\ d.vs = v /\ \A x \in CallParts \ {"vs"} : d[x] = c[x]
  BY <1>1, SetVs
<1> HIDE DEF d
<1>7. VsCallOK(d)
  BY <1>1, <1>5, <1>6 DEF VsCallOK, CallParts
<1>8. QED BY <1>3, <1>4, <1>6, <1>7 DEF g

(* The options of a request. *)
WithOptions(c, b, o) == [c EXCEPT !.vs.vsreset = b, !.vs.opt = o]
WithFlags(c, f) == [c EXCEPT !.vs.flags = f]

LEMMA OptionFacts ==
    ASSUME NEW c, VsCallOK(c), NEW b, NEW o
    PROVE  LET d == WithOptions(c, b, o)
           IN  /\ VsCallOK(d) /\ d.vs.vsreset = b /\ d.vs.opt = o
               /\ \A x \in VsParts \ {"vsreset", "opt"} : d.vs[x] = c.vs[x]
               /\ \A x \in CallParts \ {"vs"} : d[x] = c[x]
<1> DEFINE v == [c.vs EXCEPT !.vsreset = b, !.opt = o]
           d == [c EXCEPT !.vs = v]
<1>1. HandleOK(c.vs, c.recs) /\ Shaped(c, CallParts) /\ RecsOK(c.recs)
  BY DEF VsCallOK
<1>2. WithOptions(c, b, o) = d
  BY <1>1 DEF WithOptions, Shaped, CallParts
<1>3. Shaped(v, VsParts) /\ v.vsreset = b /\ v.opt = o /\ \A x \in VsParts \ {"vsreset", "opt"} : v[x] = c.vs[x]
  BY <1>1 DEF HandleOK, Shaped, VsParts
<1> HIDE DEF v
<1>4. HandleOK(v, c.recs)
  BY <1>1, <1>3 DEF HandleOK, VsParts
<1>5. Shaped(d, CallParts) /\ d.vs = v /\ \A x \in CallParts \ {"vs"} : d[x] = c[x]
  BY <1>1, SetVs
<1> HIDE DEF d
<1>6. VsCallOK(d)
  BY <1>1, <1>4, <1>5 DEF VsCallOK, CallParts
<1>7. QED BY <1>2, <1>3, <1>5, <1>6

LEMMA VsFlagFacts ==
    ASSUME NEW c, VsCallOK(c), NEW f
    PROVE  LET d == WithFlags(c, f)
           IN  /\ VsCallOK(d) /\ d.vs.flags = f
               /\ \A x \in VsParts \ {"flags"} : d.vs[x] = c.vs[x]
               /\ \A x \in CallParts \ {"vs"} : d[x] = c[x]
<1> DEFINE v == [c.vs EXCEPT !.flags = f]
           d == [c EXCEPT !.vs = v]
<1>1. HandleOK(c.vs, c.recs) /\ Shaped(c, CallParts) /\ RecsOK(c.recs)
  BY DEF VsCallOK
<1>2. WithFlags(c, f) = d
  BY <1>1 DEF WithFlags, Shaped, CallParts
<1>3. Shaped(v, VsParts) /\ v.flags = f /\ \A x \in VsParts \ {"flags"} : v[x] = c.vs[x]
  BY <1>1 DEF HandleOK, Shaped, VsParts
<1> HIDE DEF v
<1>4. HandleOK(v, c.recs)
  BY <1>1, <1>3 DEF HandleOK, VsParts
<1>5. Shaped(d, CallParts) /\ d.vs = v /\ \A x \in CallParts \ {"vs"} : d[x] = c[x]
  BY <1>1, SetVs
<1> HIDE DEF d
<1>6. VsCallOK(d)
  BY <1>1, <1>4, <1>5 DEF VsCallOK, CallParts
<1>7. QED BY <1>2, <1>3, <1>5, <1>6

(* What every call on an open handle leaves alone. *)
Handed(c, d) ==
    /\ \A x \in {"held", "twice"} : d[x] = c[x]
    /\ \A x \in {"at", "dcb", "type", "access", "mode"} : d.vs[x] = c.vs[x]

(* A call that only asks for one request. *)
Requested(c, d) ==
    /\ VsCallOK(d) /\ Handed(c, d) /\ RplOK(d.vs) /\ d.ret = c.ret
    /\ \/ d.rc = 0 /\ d.vs.flags = c.vs.flags
       \/ /\ d.rc \in {8, 12} /\ d.recs = c.recs /\ d.vs.flags = c.vs.flags \cup {"ERROR"}
          /\ d.vs.rc = d.rc /\ d.vs.r15 = d.rc /\ d.vs.rsn = d.vs.fdbk

(* c is the call with its argument, d what the request makes of it. *)
LEMMA RequestFacts ==
    ASSUME NEW c, VsCallOK(c), RplOK(c.vs),
           NEW e, VsCallOK(e), Handed(c, e), e.vs.opt = c.vs.opt, e.vs.vsreset = FALSE,
           e.ret = c.ret, e.recs = c.recs, e.vs.flags = c.vs.flags,
           NEW d, VsCallOK(d), Kept(e, d), Succeeded(e, d) \/ Failed(e, d)
    PROVE  Requested(c, d)
<1>1. Handed(c, d) /\ d.ret = c.ret
  BY DEF Handed, Kept
<1>2. d.vs.opt = c.vs.opt /\ d.vs.vsreset = FALSE
  BY DEF Succeeded, Failed, OptKept
<1>3. RplOK(d.vs)
  BY <1>1, <1>2 DEF RplOK, Handed
<1>4. QED BY <1>1, <1>3 DEF Requested, Succeeded, Failed

LEMMA SteqFacts ==
    ASSUME NEW c, VsCallOK(c), RplOK(c.vs), NEW key \in Records
    PROVE  LET d == __vssteq(c, key)
           IN  /\ Requested(c, d) /\ d.recs = c.recs /\ d.vs.arg = key /\ d.vs.opt = c.vs.opt
               /\ \/ d.rc = 0 /\ key \in Present(c) /\ d.vs.place = key /\ c.vs.mode # "OUT"
                  \/ d.rc # 0 /\ d.vs.fdbk \in {8, 16, 68}
<1> DEFINE m == __vsmdfy(c, 0, key)
           no == FALSE
           o == m.vs.opt \ {"KGE"}
           e == WithOptions(m, no, o)
           d == POINT(e)
<1>1. /\ VsCallOK(m) /\ m.vs.arg = key
      /\ \A x \in VsParts \ {"len", "arg"} : m.vs[x] = c.vs[x]
      /\ \A x \in CallParts \ {"vs"} : m[x] = c[x]
  <2>1. key # 0
    BY KeyFacts
  <2>2. QED BY <2>1, ModifyFacts
<1>2. __vssteq(c, key) = d
  <2>1. [m EXCEPT !.vs.vsreset = FALSE, !.vs.opt = @ \ {"KGE"}] = e
    BY <1>1 DEF WithOptions, VsCallOK, HandleOK, Shaped, CallParts, VsParts
  <2>2. QED BY <2>1 DEF __vssteq
<1>3. o = c.vs.opt
  <2>1. m.vs.opt = c.vs.opt /\ "KGE" \notin c.vs.opt
    BY <1>1 DEF RplOK, VsParts
  <2>2. QED BY <2>1
<1> HIDE DEF m, no, o
<1>4. /\ VsCallOK(e) /\ e.vs.vsreset = no /\ e.vs.opt = o
      /\ \A x \in VsParts \ {"vsreset", "opt"} : e.vs[x] = m.vs[x]
      /\ \A x \in CallParts \ {"vs"} : e[x] = m[x]
  BY <1>1, OptionFacts
<1> HIDE DEF e
<1>5. VsCallOK(d) /\ Kept(e, d) /\ d.recs = e.recs /\ Pointing(e, d)
  BY <1>4, PointFacts
<1> HIDE DEF d
<1>6. /\ Handed(c, e) /\ e.ret = c.ret /\ e.recs = c.recs /\ e.vs.flags = c.vs.flags
      /\ e.vs.arg = key /\ e.vs.vsreset = FALSE
  BY <1>1, <1>4 DEF Handed, VsParts, CallParts, no
<1>7. Requested(c, d)
  BY <1>3, <1>4, <1>5, <1>6, RequestFacts DEF Pointing
<1>8. d.vs.arg = key /\ d.vs.opt = c.vs.opt /\ d.recs = c.recs
  BY <1>3, <1>4, <1>5, <1>6 DEF Kept, Pointing, Succeeded, Failed, OptKept
<1>9. Present(e) = Present(c) /\ e.vs.mode = c.vs.mode /\ "KGE" \notin e.vs.opt
  BY <1>3, <1>4, <1>6 DEF Present, Handed, RplOK
<1>10. \/ d.rc = 0 /\ key \in Present(c) /\ d.vs.place = key /\ c.vs.mode # "OUT"
       \/ d.rc # 0 /\ d.vs.fdbk \in {8, 16, 68}
  BY <1>5, <1>6, <1>9 DEF Pointing, Succeeded, Failed
<1>11. QED BY <1>2, <1>7, <1>8, <1>10

LEMMA StgeFacts ==
    ASSUME NEW c, VsCallOK(c), RplOK(c.vs), NEW key \in Records
    PROVE  LET d == __vsstge(c, key) IN Requested(c, d) /\ d.recs = c.recs
<1> DEFINE m == __vsmdfy(c, 0, key)
           no == FALSE
           o == m.vs.opt \cup {"KGE"}
           e == WithOptions(m, no, o)
           g == POINT(e)
           r == g.vs.vsreset
           p == g.vs.opt \ {"KGE"}
           d == WithOptions(g, r, p)
<1>1. /\ VsCallOK(m)
      /\ \A x \in VsParts \ {"len", "arg"} : m.vs[x] = c.vs[x]
      /\ \A x \in CallParts \ {"vs"} : m[x] = c[x]
  BY ModifyFacts
<1>2. e = [m EXCEPT !.vs.vsreset = FALSE, !.vs.opt = @ \cup {"KGE"}]
  BY <1>1 DEF WithOptions, VsCallOK, HandleOK, Shaped, CallParts, VsParts
<1>3. o \ {"KGE"} = c.vs.opt
  <2>1. m.vs.opt = c.vs.opt /\ "KGE" \notin c.vs.opt
    BY <1>1 DEF RplOK, VsParts
  <2>2. QED BY <2>1
<1>4. __vsstge(c, key) = StartGe(g)
  BY <1>2 DEF __vsstge
<1> HIDE DEF m, no, o
<1>5. /\ VsCallOK(e) /\ e.vs.vsreset = no /\ e.vs.opt = o
      /\ \A x \in VsParts \ {"vsreset", "opt"} : e.vs[x] = m.vs[x]
      /\ \A x \in CallParts \ {"vs"} : e[x] = m[x]
  BY <1>1, OptionFacts
<1> HIDE DEF e
<1>6. VsCallOK(g) /\ Kept(e, g) /\ g.recs = e.recs /\ Pointing(e, g)
  BY <1>5, PointFacts
<1> HIDE DEF g
<1>7. StartGe(g) = d
  <2> DEFINE v == g.vs
  <2>1. Shaped(g, CallParts) /\ Shaped(v, VsParts) /\ r = v.vsreset /\ p = v.opt \ {"KGE"}
    BY <1>6 DEF VsCallOK, HandleOK
  <2>2. StartGe(g) = [g EXCEPT !.vs = [v EXCEPT !.opt = p]]
    BY <2>1 DEF StartGe, Shaped, CallParts
  <2>3. d = [g EXCEPT !.vs = [v EXCEPT !.vsreset = r, !.opt = p]]
    BY <2>1 DEF WithOptions, Shaped, CallParts
  <2> HIDE DEF v
  <2>4. [v EXCEPT !.opt = p] = [v EXCEPT !.vsreset = v.vsreset, !.opt = p]
    BY <2>1 DEF Shaped, VsParts
  <2>5. QED BY <2>1, <2>2, <2>3, <2>4
<1>8. g.vs.opt = o /\ g.vs.vsreset = FALSE
  BY <1>5, <1>6 DEF Pointing, Succeeded, Failed, OptKept, no
<1>9. p = c.vs.opt /\ r = FALSE
  BY <1>3, <1>8
<1> HIDE DEF p, r
<1>10. /\ VsCallOK(d) /\ d.vs.vsreset = r /\ d.vs.opt = p
       /\ \A x \in VsParts \ {"vsreset", "opt"} : d.vs[x] = g.vs[x]
       /\ \A x \in CallParts \ {"vs"} : d[x] = g[x]
  BY <1>6, OptionFacts
<1> HIDE DEF d
<1>11. /\ e.ret = c.ret /\ e.recs = c.recs /\ e.vs.flags = c.vs.flags /\ Handed(c, e) /\ e.vs.vsreset = FALSE
  BY <1>1, <1>5 DEF Handed, VsParts, CallParts, no
<1>12. Handed(c, d) /\ d.ret = c.ret /\ d.recs = c.recs
  BY <1>6, <1>10, <1>11 DEF Handed, Kept, VsParts, CallParts
<1>13. RplOK(d.vs)
  BY <1>9, <1>10, <1>12 DEF RplOK, Handed
<1>14. d.rc = g.rc /\ d.vs.flags = g.vs.flags /\ d.vs.rc = g.vs.rc /\ d.vs.r15 = g.vs.r15
       /\ d.vs.rsn = g.vs.rsn /\ d.vs.fdbk = g.vs.fdbk
  BY <1>10 DEF CallParts, VsParts
<1>15. \/ d.rc = 0 /\ d.vs.flags = c.vs.flags
       \/ /\ d.rc \in {8, 12} /\ d.recs = c.recs /\ d.vs.flags = c.vs.flags \cup {"ERROR"}
          /\ d.vs.rc = d.rc /\ d.vs.r15 = d.rc /\ d.vs.rsn = d.vs.fdbk
  BY <1>6, <1>11, <1>12, <1>14 DEF Pointing, Succeeded, Failed
<1>16. QED BY <1>4, <1>7, <1>10, <1>12, <1>13, <1>15 DEF Requested

LEMMA UpdateFacts ==
    ASSUME NEW c, VsCallOK(c), RplOK(c.vs), NEW key \in Records, NEW len \in Nat \ {0}
    PROVE  Requested(c, __vsupdt(c, len, key))
<1> DEFINE m == __vsmdfy(c, len, 0)
           d == PUT(m, key)
<1>1. /\ VsCallOK(m) /\ m.vs.len = len
      /\ \A x \in VsParts \ {"len", "arg"} : m.vs[x] = c.vs[x]
      /\ \A x \in CallParts \ {"vs"} : m[x] = c[x]
  BY ModifyFacts
<1>2. __vsupdt(c, len, key) = d
  BY DEF __vsupdt
<1> HIDE DEF m
<1>3. VsCallOK(d) /\ Kept(m, d) /\ Putt(m, d)
  BY <1>1, PutFacts
<1> HIDE DEF d
<1>4. /\ Handed(c, m) /\ m.ret = c.ret /\ m.recs = c.recs /\ m.vs.flags = c.vs.flags
      /\ m.vs.opt = c.vs.opt /\ m.vs.vsreset = FALSE
  BY <1>1 DEF Handed, VsParts, CallParts, RplOK
<1>5. Requested(c, d)
  BY <1>1, <1>3, <1>4, RequestFacts DEF Putt
<1>6. QED BY <1>2, <1>5

LEMMA DeleteFacts ==
    ASSUME NEW c, VsCallOK(c), RplOK(c.vs)
    PROVE  Requested(c, __vsdel(c))
<1> DEFINE m == __vsmdfy(c, 0, 0)
           d == ERASE(m)
<1>1. /\ VsCallOK(m)
      /\ \A x \in VsParts \ {"len", "arg"} : m.vs[x] = c.vs[x]
      /\ \A x \in CallParts \ {"vs"} : m[x] = c[x]
  BY ModifyFacts
<1>2. __vsdel(c) = d
  BY DEF __vsdel
<1> HIDE DEF m
<1>3. VsCallOK(d) /\ Kept(m, d) /\ (Succeeded(m, d) \/ Failed(m, d))
  BY <1>1, EraseFacts
<1> HIDE DEF d
<1>4. /\ Handed(c, m) /\ m.ret = c.ret /\ m.recs = c.recs /\ m.vs.flags = c.vs.flags
      /\ m.vs.opt = c.vs.opt /\ m.vs.vsreset = FALSE
  BY <1>1 DEF Handed, VsParts, CallParts, RplOK
<1>5. Requested(c, d)
  BY <1>1, <1>3, <1>4, RequestFacts
<1>6. QED BY <1>2, <1>5

(* What a call on an open handle answers, and how it leaves the handle. *)
Answered(c, d) ==
    /\ VsCallOK(d) /\ Handed(c, d) /\ RplOK(d.vs)
    /\ "ERROR" \in d.vs.flags <=> (d.ret = -2 \/ (d.ret = 0 /\ d.rc > 4)) \/ "ERROR" \in c.vs.flags
    /\ "EOF" \in d.vs.flags <=> d.ret = -1 \/ "EOF" \in c.vs.flags
    /\ "OPEN" \in d.vs.flags <=> "OPEN" \in c.vs.flags
    /\ d.rc # 0 => d.recs = c.recs

LEMMA RequestedAnswers ==
    ASSUME NEW c, NEW d, Requested(c, d), c.ret = 0
    PROVE  Answered(c, d)
<1>1. CASE d.rc = 0 /\ d.vs.flags = c.vs.flags
  BY <1>1 DEF Requested, Answered
<1>2. CASE d.rc \in {8, 12} /\ d.recs = c.recs /\ d.vs.flags = c.vs.flags \cup {"ERROR"}
  BY <1>2 DEF Requested, Answered
<1>3. QED BY <1>1, <1>2 DEF Requested

(* For the insertion the RPL is not one of an update, and then again is. *)
LEMMA InsertOptions ==
    ASSUME NEW v, Shaped(v, VsParts), RplOK(v), v.mode = "UPD",
           NEW w, Shaped(w, VsParts), w.type = v.type, w.access = v.access, w.mode = v.mode,
           PUT_DIRECT(v) => w.opt = (v.opt \ {"UPD", "SKP"}) \cup {"DIR"},
           ~ PUT_DIRECT(v) => w.opt = v.opt \ {"UPD"},
           NEW u, u.opt = restore(w).opt, u.vsreset = FALSE, u.mode = v.mode, u.access = v.access
    PROVE  RplOK(u) /\ "UPD" \notin w.opt
<1>1. PUT_DIRECT(w) <=> PUT_DIRECT(v)
  BY DEF PUT_DIRECT
<1>2. u.opt = IF PUT_DIRECT(v) THEN (w.opt \ {"DIR", "SKP"}) \cup {"UPD"} ELSE w.opt \cup {"UPD"}
  BY <1>1 DEF restore, Shaped, VsParts
<1>3. CASE PUT_DIRECT(v)
  BY <1>2, <1>3 DEF RplOK, PUT_DIRECT
<1>4. CASE ~ PUT_DIRECT(v)
  BY <1>2, <1>4 DEF RplOK
<1>5. QED BY <1>3, <1>4

LEMMA WriteFacts ==
    ASSUME NEW c, VsCallOK(c), RplOK(c.vs), c.ret = 0, NEW key \in Records, NEW len \in Nat \ {0}
    PROVE  LET d == __vswrit(c, len, key)
           IN  Answered(c, d) /\ d.ret = 0 /\ \A j \in Records : c.recs[j] > 0 => d.recs[j] = c.recs[j]
<1> DEFINE m == __vsmdfy(c, len, key)
           fl == m.vs.flags \cup {"WRITE"}
           f == WithFlags(m, fl)
           yes == TRUE
           o == IF PUT_DIRECT(f.vs) THEN (f.vs.opt \ {"UPD", "SKP"}) \cup {"DIR"} ELSE f.vs.opt \ {"UPD"}
           e == IF f.vs.mode # "UPD" THEN f ELSE WithOptions(f, yes, o)
           g == PUT(e, key)
           d == Written(g)
<1>1. /\ VsCallOK(m) /\ m.vs.len = len
      /\ \A x \in VsParts \ {"len", "arg"} : m.vs[x] = c.vs[x]
      /\ \A x \in CallParts \ {"vs"} : m[x] = c[x]
  BY ModifyFacts
<1>2. __vswrit(c, len, key) = d
  <2>1. __vswrit(c, len, key) = Written(PUT([m EXCEPT !.vs = ForInsert(AsWriter(@))], key))
    BY DEF __vswrit, Putting
  <2> HIDE DEF m
  <2> DEFINE v == [m.vs EXCEPT !.flags = fl]
  <2>2. f = [m EXCEPT !.vs = v] /\ f.vs = v /\ Shaped(m, CallParts) /\ Shaped(v, VsParts)
    <3>1. Shaped(m, CallParts) /\ Shaped(m.vs, VsParts)
      BY <1>1 DEF VsCallOK, HandleOK
    <3>2. Shaped(v, VsParts)
      BY <3>1 DEF Shaped, VsParts
    <3>3. f = [m EXCEPT !.vs = v]
      BY <3>1 DEF WithFlags, Shaped, CallParts
    <3> HIDE DEF v, f
    <3>4. f.vs = v
      BY <3>1, <3>3 DEF Shaped, CallParts
    <3>5. QED BY <3>1, <3>2, <3>3, <3>4
  <2>3. [m EXCEPT !.vs = ForInsert(AsWriter(@))] = [m EXCEPT !.vs = ForInsert(v)]
    BY DEF AsWriter, fl
  <2> HIDE DEF v, f
  <2>4. ForInsert(v) = IF v.mode # "UPD" THEN v ELSE [v EXCEPT !.opt = o, !.vsreset = TRUE]
    BY <2>2 DEF ForInsert
  <2> HIDE DEF o
  <2>5. [m EXCEPT !.vs = ForInsert(v)] = e
    <3>1. CASE v.mode # "UPD"
      BY <2>2, <2>4, <3>1
    <3>2. CASE v.mode = "UPD"
      <4>1. [v EXCEPT !.opt = o, !.vsreset = TRUE] = [v EXCEPT !.vsreset = yes, !.opt = o]
        BY <2>2 DEF Shaped, VsParts
      <4>2. WithOptions(f, yes, o) = [f EXCEPT !.vs = [v EXCEPT !.vsreset = yes, !.opt = o]]
        <5>1. Shaped(f, CallParts)
          BY <2>2, SetVs
        <5>2. QED BY <2>2, <5>1 DEF WithOptions, Shaped, CallParts
      <4> DEFINE w == [v EXCEPT !.vsreset = yes, !.opt = o]
      <4> HIDE DEF w
      <4>3. [f EXCEPT !.vs = w] = [m EXCEPT !.vs = w]
        BY <2>2 DEF Shaped, CallParts
      <4>4. QED BY <2>2, <2>4, <3>2, <4>1, <4>2, <4>3 DEF w
    <3>3. QED BY <3>1, <3>2
  <2>6. QED BY <2>1, <2>3, <2>5
<1> HIDE DEF m, fl
<1>3. /\ VsCallOK(f) /\ f.vs.flags = fl
      /\ \A x \in VsParts \ {"flags"} : f.vs[x] = m.vs[x]
      /\ \A x \in CallParts \ {"vs"} : f[x] = m[x]
  BY <1>1, VsFlagFacts
<1>4. /\ Handed(c, f) /\ f.ret = 0 /\ f.recs = c.recs /\ f.vs.opt = c.vs.opt /\ f.vs.vsreset = FALSE
      /\ f.vs.flags = c.vs.flags \cup {"WRITE"} /\ f.vs.len = len /\ RplOK(f.vs)
  <2>1. /\ m.vs.opt = c.vs.opt /\ m.vs.vsreset = c.vs.vsreset /\ m.vs.flags = c.vs.flags
        /\ m.vs.mode = c.vs.mode /\ m.vs.access = c.vs.access /\ m.ret = c.ret /\ m.recs = c.recs
    BY <1>1 DEF VsParts, CallParts
  <2>2. /\ f.vs.opt = m.vs.opt /\ f.vs.vsreset = m.vs.vsreset /\ f.vs.len = m.vs.len /\ f.vs.flags = fl
        /\ f.vs.mode = m.vs.mode /\ f.vs.access = m.vs.access
    BY <1>3 DEF VsParts
  <2>3. f.ret = m.ret /\ f.recs = m.recs
    BY <1>3 DEF CallParts
  <2>4. Handed(c, f)
    BY <1>1, <1>3 DEF Handed, VsParts, CallParts
  <2>5. RplOK(f.vs)
    BY <2>1, <2>2 DEF RplOK
  <2>6. f.vs.len = len /\ f.vs.vsreset = FALSE
    BY <1>1, <2>1, <2>2 DEF RplOK
  <2>7. QED BY <2>1, <2>2, <2>3, <2>4, <2>5, <2>6 DEF fl
<1> HIDE DEF f
<1>5. CASE c.vs.mode # "UPD"
  <2>1. e = f /\ "UPD" \notin c.vs.opt
    BY <1>4, <1>5 DEF Handed, RplOK
  <2> HIDE DEF e
  <2>2. VsCallOK(g) /\ Kept(e, g) /\ Putt(e, g)
    BY <1>3, <1>4, <2>1, PutFacts
  <2> HIDE DEF g
  <2>3. Handed(c, g) /\ g.ret = 0 /\ g.vs.opt = c.vs.opt /\ g.vs.vsreset = FALSE
    BY <1>4, <2>1, <2>2 DEF Handed, Kept, Putt, Succeeded, Failed, OptKept
  <2>4. d = g
    BY <1>5, <2>3 DEF Written, Handed
  <2> HIDE DEF d
  <2>5. RplOK(d.vs)
    BY <2>3, <2>4 DEF RplOK, Handed
  <2>6. \A j \in Records : c.recs[j] > 0 => d.recs[j] = c.recs[j]
    BY <1>4, <2>1, <2>2, <2>4 DEF Putt
  <2>7. Answered(c, d)
    <3>1. CASE Succeeded(e, g)
      BY <1>4, <2>1, <2>2, <2>3, <2>4, <2>5, <3>1 DEF Succeeded, Answered
    <3>2. CASE Failed(e, g)
      BY <1>4, <2>1, <2>2, <2>3, <2>4, <2>5, <3>2 DEF Failed, Answered
    <3>3. QED BY <2>2, <3>1, <3>2 DEF Putt
  <2>8. QED BY <1>2, <2>3, <2>4, <2>6, <2>7
<1>6. CASE c.vs.mode = "UPD"
  <2>1. e = WithOptions(f, yes, o)
    BY <1>4, <1>6 DEF Handed
  <2>2. o = IF PUT_DIRECT(f.vs) THEN (f.vs.opt \ {"UPD", "SKP"}) \cup {"DIR"} ELSE f.vs.opt \ {"UPD"}
    OBVIOUS
  <2>3. yes = TRUE
    OBVIOUS
  <2> HIDE DEF e, o, yes
  <2>4. /\ VsCallOK(e) /\ e.vs.vsreset = yes /\ e.vs.opt = o
        /\ \A x \in VsParts \ {"vsreset", "opt"} : e.vs[x] = f.vs[x]
        /\ \A x \in CallParts \ {"vs"} : e[x] = f[x]
    BY <1>3, <2>1, OptionFacts
  <2>5. /\ Handed(c, e) /\ e.ret = 0 /\ e.recs = c.recs /\ e.vs.vsreset = TRUE /\ e.vs.opt = o
        /\ e.vs.flags = c.vs.flags \cup {"WRITE"} /\ e.vs.len = len
    BY <1>4, <2>3, <2>4 DEF Handed, VsParts, CallParts
  <2>6. VsCallOK(g) /\ Kept(e, g) /\ Putt(e, g)
    BY <2>4, <2>5, PutFacts
  <2> HIDE DEF g
  <2>7. Handed(c, g) /\ g.ret = 0
    BY <2>5, <2>6 DEF Handed, Kept
  <2>8. Shaped(e.vs, VsParts) /\ Shaped(f.vs, VsParts) /\ Shaped(g.vs, VsParts) /\ Shaped(g, CallParts)
    BY <1>3, <2>4, <2>6 DEF VsCallOK, HandleOK
  <2>9. /\ e.vs.type = f.vs.type /\ e.vs.access = f.vs.access /\ e.vs.mode = f.vs.mode /\ f.vs.mode = "UPD"
        /\ f.vs.access = c.vs.access
    BY <1>4, <1>6, <2>5 DEF Handed
  <2>10. ASSUME NEW u, u.opt = restore(e.vs).opt, u.vsreset = FALSE, u.mode = f.vs.mode, u.access = f.vs.access
         PROVE  RplOK(u) /\ "UPD" \notin o
    <3>1. /\ PUT_DIRECT(f.vs) => e.vs.opt = (f.vs.opt \ {"UPD", "SKP"}) \cup {"DIR"}
          /\ ~ PUT_DIRECT(f.vs) => e.vs.opt = f.vs.opt \ {"UPD"}
      BY <2>2, <2>5
    <3>2. RplOK(f.vs) /\ e.vs.opt = o
      BY <1>4, <2>5
    <3>3. RplOK(u) /\ "UPD" \notin e.vs.opt
      BY <2>8, <2>9, <2>10, <3>1, <3>2, InsertOptions
    <3>4. QED BY <3>2, <3>3
  <2>11. CASE Succeeded(e, g)
    <3> DEFINE no == FALSE
               q == restore(g.vs).opt
    <3>1. g.vs.vsreset = TRUE /\ g.vs.opt = e.vs.opt
      BY <2>5, <2>11 DEF Succeeded, OptKept
    <3>2. d = WithOptions(g, no, q)
      <4> DEFINE v == g.vs
                 r == IF PUT_DIRECT(v) THEN (v.opt \ {"DIR", "SKP"}) \cup {"UPD"} ELSE v.opt \cup {"UPD"}
      <4>1. d = [g EXCEPT !.vs = restore(v)]
        <5>1. d = [g EXCEPT !.vs = restore(@)]
          BY <1>6, <2>7, <3>1 DEF Written, Handed
        <5>2. QED BY <2>8, <5>1 DEF Shaped, CallParts
      <4> HIDE DEF d
      <4>2. restore(v) = [v EXCEPT !.opt = r, !.vsreset = FALSE]
        BY DEF restore
      <4> HIDE DEF r
      <4>3. Shaped(v, VsParts)
        BY <2>8
      <4> HIDE DEF v
      <4>6. restore(v).opt = r
        BY <4>2, <4>3 DEF Shaped, VsParts
      <4>7. [v EXCEPT !.opt = r, !.vsreset = no] = [v EXCEPT !.vsreset = no, !.opt = r]
        <5> HIDE DEF no
        <5>1. QED BY <4>3 DEF Shaped, VsParts
      <4>4. WithOptions(g, FALSE, r) = [g EXCEPT !.vs = [v EXCEPT !.vsreset = FALSE, !.opt = r]]
        BY <2>8 DEF WithOptions, Shaped, CallParts, v
      <4>5. QED BY <4>1, <4>2, <4>4, <4>6, <4>7 DEF v
    <3>3. q = restore(e.vs).opt
      <4>1. g.vs.type = e.vs.type /\ g.vs.access = e.vs.access
        BY <2>6 DEF Kept
      <4>2. QED BY <2>8, <3>1, <4>1 DEF restore, PUT_DIRECT, Shaped, VsParts
    <3>4. no = FALSE
      OBVIOUS
    <3> HIDE DEF d, q, no
    <3>5. /\ VsCallOK(d) /\ d.vs.vsreset = no /\ d.vs.opt = q
          /\ \A x \in VsParts \ {"vsreset", "opt"} : d.vs[x] = g.vs[x]
          /\ \A x \in CallParts \ {"vs"} : d[x] = g[x]
      BY <2>6, <3>2, OptionFacts
    <3>6. Handed(c, d) /\ d.ret = 0 /\ d.rc = 0 /\ d.vs.flags = c.vs.flags \cup {"WRITE"} /\ d.recs = g.recs
      BY <2>5, <2>7, <2>11, <3>5 DEF Handed, Succeeded, VsParts, CallParts
    <3>7. RplOK(d.vs) /\ "UPD" \notin o
      <4>1. d.vs.mode = f.vs.mode /\ d.vs.access = f.vs.access
        BY <1>4, <3>6 DEF Handed
      <4>2. QED BY <2>10, <3>3, <3>4, <3>5, <4>1
    <3>8. Answered(c, d)
      BY <3>5, <3>6, <3>7 DEF Answered
    <3>9. \A j \in Records : c.recs[j] > 0 => d.recs[j] = c.recs[j]
      BY <2>5, <2>6, <3>6, <3>7 DEF Putt
    <3>10. QED BY <1>2, <3>6, <3>8, <3>9
  <2>12. CASE Failed(e, g)
    <3>1. g.vs.opt = restore(e.vs).opt /\ g.vs.vsreset = FALSE
      BY <2>5, <2>12 DEF Failed
    <3>2. d = g
      BY <3>1 DEF Written
    <3> HIDE DEF d
    <3>3. RplOK(d.vs)
      <4>1. d.vs.mode = f.vs.mode /\ d.vs.access = f.vs.access
        BY <1>4, <2>7, <3>2 DEF Handed
      <4>2. QED BY <2>10, <3>1, <3>2, <4>1
    <3>4. g.vs.flags = c.vs.flags \cup {"WRITE", "ERROR"} /\ g.rc \in {8, 12} /\ g.recs = c.recs
      BY <2>5, <2>12 DEF Failed
    <3>5. Answered(c, d)
      BY <2>6, <2>7, <3>2, <3>3, <3>4 DEF Answered
    <3>6. QED BY <1>2, <2>7, <3>2, <3>4, <3>5
  <2>13. QED BY <2>6, <2>11, <2>12 DEF Putt
<1>7. QED BY <1>5, <1>6

(* The answer of a read keeps the indicators there were. *)
LEMMA AnswerFacts ==
    ASSUME NEW c, VsCallOK(c), NEW had
    PROVE  LET d == VsAnswered(c, had)
           IN  /\ VsCallOK(d) /\ d.ret = ReadResult(c) /\ d.vs.flags = c.vs.flags \cup had
               /\ \A x \in VsParts \ {"flags"} : d.vs[x] = c.vs[x]
               /\ \A x \in CallParts \ {"vs", "ret"} : d[x] = c[x]
<1> DEFINE f == c.vs.flags \cup had
           r == ReadResult(c)
           e == WithFlags(c, f)
           d == [e EXCEPT !.ret = r]
<1>1. Shaped(c, CallParts)
  BY DEF VsCallOK
<1>2. VsAnswered(c, had) = d
  BY <1>1 DEF VsAnswered, WithFlags, Shaped, CallParts
<1> HIDE DEF f, r
<1>3. /\ VsCallOK(e) /\ e.vs.flags = f
      /\ \A x \in VsParts \ {"flags"} : e.vs[x] = c.vs[x]
      /\ \A x \in CallParts \ {"vs"} : e[x] = c[x]
  BY VsFlagFacts
<1> HIDE DEF e
<1>4. Shaped(d, CallParts) /\ d.ret = r /\ \A x \in CallParts \ {"ret"} : d[x] = e[x]
  BY <1>3 DEF VsCallOK, Shaped, CallParts
<1> HIDE DEF d
<1>5. VsCallOK(d) /\ d.vs = e.vs
  BY <1>3, <1>4 DEF VsCallOK, CallParts
<1>6. QED BY <1>2, <1>3, <1>4, <1>5 DEF f, r, CallParts

LEMMA EndedFacts ==
    ASSUME NEW c, VsCallOK(c)
    PROVE  LET d == Ended(c)
           IN  /\ VsCallOK(d)
               /\ d.vs.flags = IF "ERROR" \in c.vs.flags /\ c.vs.rsn = 4
                               THEN (c.vs.flags \ {"ERROR"}) \cup {"EOF"} ELSE c.vs.flags
               /\ \A x \in VsParts \ {"flags"} : d.vs[x] = c.vs[x]
               /\ \A x \in CallParts \ {"vs"} : d[x] = c[x]
<1> DEFINE f == (c.vs.flags \ {"ERROR"}) \cup {"EOF"}
<1>1. CASE "ERROR" \in c.vs.flags /\ c.vs.rsn = 4
  <2>1. Ended(c) = WithFlags(c, f)
    <3>1. Ended(c) = [c EXCEPT !.vs.flags = (@ \ {"ERROR"}) \cup {"EOF"}]
      BY <1>1 DEF Ended
    <3>2. Shaped(c, CallParts) /\ Shaped(c.vs, VsParts)
      BY DEF VsCallOK, HandleOK
    <3>3. QED BY <3>1, <3>2 DEF WithFlags, Shaped, CallParts, VsParts
  <2> HIDE DEF f
  <2>2. LET d == WithFlags(c, f)
        IN  /\ VsCallOK(d) /\ d.vs.flags = f
            /\ \A x \in VsParts \ {"flags"} : d.vs[x] = c.vs[x]
            /\ \A x \in CallParts \ {"vs"} : d[x] = c[x]
    BY VsFlagFacts
  <2>3. QED BY <1>1, <2>1, <2>2 DEF f
<1>2. CASE ~ ("ERROR" \in c.vs.flags /\ c.vs.rsn = 4)
  <2>1. Ended(c) = c
    BY <1>2 DEF Ended
  <2>2. QED BY <1>2, <2>1
<1>3. QED BY <1>1, <1>2

(* The indicators a read keeps. *)
Lasting == {"EOF", "ERROR", "OPEN"}

(* A record was read, the end was met, or an error. *)
ReadOne(c, d) ==
    /\ d.ret > 0 /\ d.rc = 0 /\ d.vs.r15 = 0 /\ d.vs.fdbk = 0
    /\ d.vs.flags \cap Lasting = c.vs.flags \cap Lasting
    /\ \E k \in Present(c) :
          /\ d.ret = c.recs[k]
          /\ Direct(c) => k = c.vs.arg
          /\ ~ Direct(c) => k >= c.vs.place /\ \A j \in Present(c) : j >= c.vs.place => k <= j
ReadEnd(c, d) ==
    /\ d.ret = -1 /\ d.vs.fdbk = 4 /\ d.vs.r15 \in {8, 12}
    /\ d.vs.flags \cap Lasting = (c.vs.flags \cap Lasting) \cup {"EOF"}
    /\ d.vs.r15 = 8 => ~ Direct(c) /\ \A k \in Present(c) : k < c.vs.place
ReadError(c, d) ==
    /\ d.ret = -2 /\ d.vs.fdbk # 4 /\ d.vs.r15 \in {8, 12}
    /\ d.vs.rc = d.vs.r15 /\ d.vs.rsn = d.vs.fdbk
    /\ d.vs.flags \cap Lasting = (c.vs.flags \cap Lasting) \cup {"ERROR"}
ReadOK(c, d) ==
    /\ VsCallOK(d) /\ Handed(c, d) /\ RplOK(d.vs) /\ d.recs = c.recs
    /\ ReadOne(c, d) \/ ReadEnd(c, d) \/ ReadError(c, d)

LEMMA ReadNextFacts ==
    ASSUME NEW c, VsCallOK(c), RplOK(c.vs)
    PROVE  ReadOK(c, ReadNext(c))
<1> DEFINE had == c.vs.flags \cap Sticky
           fl == c.vs.flags \ ({"WRITE"} \cup Sticky)
           e == WithFlags(c, fl)
           g == GET(e)
           h == Ended(g)
           d == VsAnswered(h, had)
<1>1. ReadNext(c) = d
  <2>1. Shaped(c, CallParts) /\ Shaped(c.vs, VsParts)
    BY DEF VsCallOK, HandleOK
  <2>2. [c EXCEPT !.vs.flags = @ \ ({"WRITE"} \cup Sticky)] = e
    BY <2>1 DEF WithFlags, Shaped, CallParts, VsParts
  <2>3. QED BY <2>2 DEF ReadNext, Gotten
<1>2. /\ VsCallOK(e) /\ e.vs.flags = fl
      /\ \A x \in VsParts \ {"flags"} : e.vs[x] = c.vs[x]
      /\ \A x \in CallParts \ {"vs"} : e[x] = c[x]
  <2> HIDE DEF fl
  <2>1. QED BY VsFlagFacts
<1> HIDE DEF e
<1>3. VsCallOK(g) /\ Kept(e, g) /\ g.recs = e.recs /\ Got(e, g)
  BY <1>2, GetFacts
<1> HIDE DEF g
<1>4. /\ VsCallOK(h)
      /\ h.vs.flags = IF "ERROR" \in g.vs.flags /\ g.vs.rsn = 4
                      THEN (g.vs.flags \ {"ERROR"}) \cup {"EOF"} ELSE g.vs.flags
      /\ \A x \in VsParts \ {"flags"} : h.vs[x] = g.vs[x]
      /\ \A x \in CallParts \ {"vs"} : h[x] = g[x]
  BY <1>3, EndedFacts
<1> HIDE DEF h
<1>5. /\ VsCallOK(d) /\ d.ret = ReadResult(h) /\ d.vs.flags = h.vs.flags \cup had
      /\ \A x \in VsParts \ {"flags"} : d.vs[x] = h.vs[x]
      /\ \A x \in CallParts \ {"vs", "ret"} : d[x] = h[x]
  <2> HIDE DEF had
  <2>1. QED BY <1>4, AnswerFacts
<1> HIDE DEF d
<1>6. Handed(c, d) /\ d.recs = c.recs /\ d.rc = g.rc
  BY <1>2, <1>3, <1>4, <1>5 DEF Handed, Kept, VsParts, CallParts
<1>7. d.vs.opt = c.vs.opt /\ d.vs.vsreset = FALSE
  <2>1. e.vs.opt = c.vs.opt /\ e.vs.vsreset = FALSE
    BY <1>2 DEF VsParts, RplOK
  <2>2. g.vs.opt = e.vs.opt /\ g.vs.vsreset = e.vs.vsreset
    BY <1>3, <2>1 DEF Got, Succeeded, EndOfFile, Failed, OptKept
  <2>3. QED BY <1>4, <1>5, <2>1, <2>2 DEF VsParts
<1>8. RplOK(d.vs)
  BY <1>6, <1>7 DEF RplOK, Handed
<1>9. d.vs.r15 = g.vs.r15 /\ d.vs.fdbk = g.vs.fdbk /\ d.vs.rc = g.vs.rc /\ d.vs.rsn = g.vs.rsn /\ h.vs.last = g.vs.last
  BY <1>4, <1>5 DEF VsParts
<1>10. /\ Direct(e) <=> Direct(c)
       /\ Present(e) = Present(c) /\ e.recs = c.recs /\ h.recs = c.recs
       /\ e.vs.arg = c.vs.arg /\ e.vs.place = c.vs.place /\ e.vs.mode = c.vs.mode
  BY <1>2, <1>3, <1>4 DEF Direct, Present, VsParts, CallParts
<1>11. "ERROR" \notin e.vs.flags /\ "EOF" \notin e.vs.flags
  BY <1>2 DEF Sticky
<1>12. c.recs \in [Records -> Nat]
  BY DEF VsCallOK, RecsOK
<1> HIDE DEF fl
<1>13. CASE Succeeded(e, g)
  <2>1. g.vs.flags = e.vs.flags /\ h.vs.flags = g.vs.flags /\ g.rc = 0 /\ g.vs.r15 = 0 /\ g.vs.fdbk = 0
    BY <1>4, <1>11, <1>13 DEF Succeeded
  <2>2. /\ g.vs.last \in Present(c)
        /\ Direct(c) => g.vs.last = c.vs.arg
        /\ ~ Direct(c) => g.vs.last >= c.vs.place /\ \A j \in Present(c) : j >= c.vs.place => g.vs.last <= j
    BY <1>3, <1>10, <1>13 DEF Got, Succeeded, EndOfFile, Failed
  <2>3. d.ret = c.recs[g.vs.last] /\ d.ret > 0
    BY <1>5, <1>9, <1>10, <1>11, <1>12, <2>1, <2>2 DEF ReadResult, Present
  <2>4. d.vs.flags \cap Lasting = c.vs.flags \cap Lasting
    BY <1>2, <1>5, <1>11, <2>1 DEF Sticky, Lasting, fl
  <2>5. ReadOne(c, d)
    BY <1>6, <1>9, <2>1, <2>2, <2>3, <2>4 DEF ReadOne
  <2>6. QED BY <1>1, <1>5, <1>6, <1>8, <2>5 DEF ReadOK
<1>14. CASE EndOfFile(e, g)
  <2>1. g.vs.flags = e.vs.flags \cup {"EOF"} /\ h.vs.flags = g.vs.flags /\ g.vs.r15 = 8 /\ g.vs.fdbk = 4
    BY <1>4, <1>11, <1>14 DEF EndOfFile
  <2>2. ~ Direct(c) /\ \A k \in Present(c) : k < c.vs.place
    BY <1>3, <1>10, <1>14 DEF Got, Succeeded, EndOfFile, Failed
  <2>3. d.ret = -1
    BY <1>2, <1>5, <1>11, <2>1 DEF ReadResult
  <2>4. d.vs.flags \cap Lasting = (c.vs.flags \cap Lasting) \cup {"EOF"}
    BY <1>2, <1>5, <1>11, <2>1 DEF Sticky, Lasting, fl
  <2>5. ReadEnd(c, d)
    BY <1>9, <2>1, <2>2, <2>3, <2>4 DEF ReadEnd
  <2>6. QED BY <1>1, <1>5, <1>6, <1>8, <2>5 DEF ReadOK
<1>15. CASE Failed(e, g) /\ g.vs.fdbk = 4
  <2>1. g.vs.flags = e.vs.flags \cup {"ERROR"} /\ g.vs.rsn = 4 /\ g.vs.r15 = g.rc /\ g.rc \in {8, 12}
    BY <1>15 DEF Failed
  <2>2. h.vs.flags = e.vs.flags \cup {"EOF"}
    BY <1>4, <1>11, <2>1
  <2>3. g.rc = 8 => ~ Direct(c) /\ c.vs.place = After
    BY <1>3, <1>10, <1>15, <2>1 DEF Got, Succeeded, EndOfFile, GetError
  <2>4. \A k \in Present(c) : k < After
    BY KeyFacts DEF Present, After
  <2>5. d.ret = -1
    BY <1>2, <1>5, <1>11, <2>2 DEF ReadResult
  <2>6. d.vs.flags \cap Lasting = (c.vs.flags \cap Lasting) \cup {"EOF"}
    BY <1>2, <1>5, <1>11, <2>2 DEF Sticky, Lasting, fl
  <2>7. ReadEnd(c, d)
    BY <1>9, <1>15, <2>1, <2>3, <2>4, <2>5, <2>6 DEF ReadEnd
  <2>8. QED BY <1>1, <1>5, <1>6, <1>8, <2>7 DEF ReadOK
<1>16. CASE Failed(e, g) /\ g.vs.fdbk # 4
  <2>1. g.vs.flags = e.vs.flags \cup {"ERROR"} /\ g.vs.rsn = g.vs.fdbk /\ g.vs.r15 = g.rc /\ g.rc \in {8, 12} /\ g.vs.rc = g.rc
    BY <1>16 DEF Failed
  <2>2. h.vs.flags = e.vs.flags \cup {"ERROR"}
    BY <1>4, <1>11, <1>16, <2>1
  <2>3. d.ret = -2
    BY <1>2, <1>5, <1>11, <2>2 DEF ReadResult
  <2>4. d.vs.flags \cap Lasting = (c.vs.flags \cap Lasting) \cup {"ERROR"}
    BY <1>2, <1>5, <1>11, <2>2 DEF Sticky, Lasting, fl
  <2>5. ReadError(c, d)
    BY <1>9, <1>16, <2>1, <2>3, <2>4 DEF ReadError
  <2>6. QED BY <1>1, <1>5, <1>6, <1>8, <2>5 DEF ReadOK
<1>17. QED BY <1>3, <1>13, <1>14, <1>15, <1>16 DEF Got

(* The answer of a read is of its own request. *)
Own(c, d, key) ==
    /\ d.recs = c.recs
    /\ d.ret > 0 <=> d.vs.r15 = 0
    /\ d.ret = -2 => d.vs.rc = d.vs.r15 /\ d.vs.rsn = d.vs.fdbk
    /\ d.ret = -1 <=> d.vs.fdbk = 4
    /\ (d.ret > 0 /\ key # 0) => d.ret = c.recs[key]
    /\ (d.ret = -1 /\ d.vs.r15 = 8) => \A k \in Records : k >= c.vs.place => c.recs[k] = 0

(* From the answer of a sequential read: e is c with its position. *)
LEMMA ReadAnswers ==
    ASSUME NEW c, VsCallOK(c), NEW e, Handed(c, e), e.recs = c.recs, VsCallOK(e),
           e.vs.flags \cap Lasting = c.vs.flags \cap Lasting, NEW d, ReadOK(e, d)
    PROVE  /\ Answered(c, d)
           /\ d.ret > 0 <=> d.vs.r15 = 0
           /\ d.ret = -2 => d.vs.rc = d.vs.r15 /\ d.vs.rsn = d.vs.fdbk
           /\ d.ret = -1 <=> d.vs.fdbk = 4
<1>1. VsCallOK(d) /\ Handed(c, d) /\ RplOK(d.vs) /\ d.recs = c.recs
  BY DEF ReadOK, Handed
<1>2. CASE ReadOne(e, d)
  <2>1. d.vs.flags \cap Lasting = c.vs.flags \cap Lasting
    BY <1>2 DEF ReadOne
  <2>2. d.ret \in Nat /\ d.ret > 0 /\ d.rc = 0 /\ d.vs.r15 = 0 /\ d.vs.fdbk = 0
    BY <1>2 DEF ReadOne, Present, VsCallOK, RecsOK
  <2>3. Answered(c, d)
    BY <1>1, <2>1, <2>2 DEF Answered, Lasting
  <2>4. QED BY <2>2, <2>3
<1>3. CASE ReadEnd(e, d)
  <2>1. d.vs.flags \cap Lasting = (c.vs.flags \cap Lasting) \cup {"EOF"} /\ d.ret = -1
    BY <1>3 DEF ReadEnd
  <2>2. Answered(c, d)
    BY <1>1, <2>1 DEF Answered, Lasting
  <2>3. QED BY <1>3, <2>2 DEF ReadEnd
<1>4. CASE ReadError(e, d)
  <2>1. d.vs.flags \cap Lasting = (c.vs.flags \cap Lasting) \cup {"ERROR"} /\ d.ret = -2
    BY <1>4 DEF ReadError
  <2>2. Answered(c, d)
    BY <1>1, <2>1 DEF Answered, Lasting
  <2>3. QED BY <1>4, <2>2 DEF ReadError
<1>5. QED BY <1>2, <1>3, <1>4 DEF ReadOK

LEMMA VsReadFacts ==
    ASSUME NEW c, VsCallOK(c), RplOK(c.vs), c.ret = 0, NEW key \in Records \cup {0}
    PROVE  LET d == __vsread(c, key) IN Answered(c, d) /\ Own(c, d, key)
<1> DEFINE d == __vsread(c, key)
<1>1. 0 \notin Records /\ \A k \in Records : k \in Nat /\ c.recs[k] \in Nat
  BY KeyFacts DEF VsCallOK, RecsOK
<1>2. CASE key = 0
  <2> DEFINE m == __vsmdfy(c, 0, 0)
  <2>1. /\ VsCallOK(m) /\ m.vs.arg = c.vs.arg
        /\ \A x \in VsParts \ {"len", "arg"} : m.vs[x] = c.vs[x]
        /\ \A x \in CallParts \ {"vs"} : m[x] = c[x]
    BY ModifyFacts
  <2>2. d = ReadNext(m)
    BY <1>2 DEF __vsread
  <2> HIDE DEF m, d
  <2>3. Handed(c, m) /\ m.recs = c.recs /\ m.vs.flags = c.vs.flags /\ m.vs.place = c.vs.place /\ RplOK(m.vs)
    BY <2>1 DEF Handed, VsParts, CallParts, RplOK
  <2>4. ReadOK(m, d)
    BY <2>1, <2>2, <2>3, ReadNextFacts
  <2>5. /\ Answered(c, d)
        /\ d.ret > 0 <=> d.vs.r15 = 0
        /\ d.ret = -2 => d.vs.rc = d.vs.r15 /\ d.vs.rsn = d.vs.fdbk
        /\ d.ret = -1 <=> d.vs.fdbk = 4
    BY <2>1, <2>3, <2>4, ReadAnswers
  <2>6. ASSUME d.ret = -1, d.vs.r15 = 8, NEW k \in Records, k >= c.vs.place PROVE c.recs[k] = 0
    <3>1. \A j \in Present(m) : j < m.vs.place
      BY <2>4, <2>6 DEF ReadOK, ReadOne, ReadEnd, ReadError
    <3>2. c.vs.place \in Nat /\ k \in Nat /\ c.recs[k] \in Nat
      BY <1>1 DEF VsCallOK, HandleOK
    <3>3. k \notin Present(m)
      BY <2>3, <2>6, <3>1, <3>2
    <3>4. QED BY <2>3, <3>2, <3>3 DEF Present
  <2>7. d.recs = c.recs
    BY <2>3, <2>4 DEF ReadOK
  <2>8. QED BY <1>2, <2>5, <2>6, <2>7 DEF Own, d
<1>3. CASE key \in Records
  <2> DEFINE s == __vssteq(c, key)
  <2>1. /\ Requested(c, s) /\ s.recs = c.recs /\ s.vs.arg = key /\ s.vs.opt = c.vs.opt
        /\ \/ s.rc = 0 /\ key \in Present(c) /\ s.vs.place = key /\ c.vs.mode # "OUT"
           \/ s.rc # 0 /\ s.vs.fdbk \in {8, 16, 68}
    BY <1>3, SteqFacts
  <2>2. d = IF s.rc # 0 THEN [s EXCEPT !.ret = -2] ELSE ReadNext(s)
    BY <1>1, <1>3 DEF __vsread, Keyed
  <2> HIDE DEF s, d
  <2>3. VsCallOK(s) /\ Handed(c, s) /\ RplOK(s.vs)
    BY <2>1 DEF Requested
  <2>4. CASE s.rc = 0
    <3>1. d = ReadNext(s) /\ key \in Present(c) /\ s.vs.place = key /\ s.vs.flags = c.vs.flags
      BY <2>1, <2>2, <2>4 DEF Requested
    <3>2. ReadOK(s, d)
      BY <2>3, <3>1, ReadNextFacts
    <3>3. /\ Answered(c, d)
          /\ d.ret > 0 <=> d.vs.r15 = 0
          /\ d.ret = -2 => d.vs.rc = d.vs.r15 /\ d.vs.rsn = d.vs.fdbk
          /\ d.ret = -1 <=> d.vs.fdbk = 4
      BY <2>1, <2>3, <3>1, <3>2, ReadAnswers
    <3>4. key \in Present(s) /\ key \in Nat /\ Present(s) \subseteq Nat
      BY <1>1, <2>1, <3>1 DEF Present
    <3>5. ASSUME d.ret > 0 PROVE d.ret = c.recs[key]
      <4>1. PICK k \in Present(s) : /\ d.ret = s.recs[k]
                                    /\ Direct(s) => k = s.vs.arg
                                    /\ ~ Direct(s) => k >= s.vs.place /\ \A j \in Present(s) : j >= s.vs.place => k <= j
        BY <3>2, <3>5 DEF ReadOK, ReadOne, ReadEnd, ReadError
      <4>2. ~ Direct(s) => k >= key /\ k <= key
        BY <3>1, <3>4, <4>1
      <4>3. k = key
        BY <2>1, <3>4, <4>1, <4>2
      <4>4. QED BY <2>1, <4>1, <4>3
    <3>6. ~ (d.ret = -1 /\ d.vs.r15 = 8)
      BY <3>1, <3>2, <3>4 DEF ReadOK, ReadOne, ReadEnd, ReadError
    <3>7. d.recs = c.recs
      BY <2>1, <3>2 DEF ReadOK
    <3>8. QED BY <3>3, <3>5, <3>6, <3>7 DEF Own, d
  <2>5. CASE s.rc # 0
    <3>1. /\ s.rc \in {8, 12} /\ s.recs = c.recs /\ s.vs.flags = c.vs.flags \cup {"ERROR"}
          /\ s.vs.rc = s.rc /\ s.vs.r15 = s.rc /\ s.vs.rsn = s.vs.fdbk /\ s.vs.fdbk \in {8, 16, 68}
      BY <2>1, <2>5 DEF Requested
    <3> DEFINE two == -2
    <3>2. d = [s EXCEPT !.ret = two] /\ two = -2
      BY <2>2, <2>5
    <3> HIDE DEF two
    <3>3. Shaped(d, CallParts) /\ d.ret = two /\ \A x \in CallParts \ {"ret"} : d[x] = s[x]
      BY <2>3, <3>2 DEF VsCallOK, Shaped, CallParts
    <3>4. d.vs = s.vs /\ d.recs = s.recs /\ d.rc = s.rc /\ d.held = s.held /\ d.twice = s.twice /\ d.ret = -2
      BY <3>2, <3>3 DEF CallParts
    <3>5. VsCallOK(d) /\ Handed(c, d) /\ RplOK(d.vs)
      BY <2>3, <3>3, <3>4 DEF VsCallOK, Handed
    <3>6. Answered(c, d)
      BY <3>1, <3>4, <3>5 DEF Answered
    <3>7. Own(c, d, key)
      BY <3>1, <3>4 DEF Own
    <3>8. QED BY <3>6, <3>7 DEF d
  <2>6. QED BY <2>4, <2>5
<1>4. QED BY <1>2, <1>3

----------------------------------------------------------------------------
(* Opening and closing. *)

LEMMA VsObtainFacts ==
    ASSUME NEW c, Shaped(c, CallParts), IsFiniteSet(c.held), NEW kind, kind # "NULL"
    PROVE  LET d == Obtain(c, kind)
           IN  /\ Shaped(d, CallParts)
               /\ \A x \in CallParts \ {"n", "got", "held"} : d[x] = c[x]
               /\ \/ d.got = NULL /\ d.held = c.held
                  \/ /\ OfKind(kind, d.got) /\ d.got # NULL /\ d.got \notin c.held
                     /\ d.held = c.held \cup {d.got}
<1> DEFINE a == Asked(c)
           r == <<kind, Number(c, kind)>>
           h == c.held \cup {r}
           d == Obtain(c, kind)
<1>1. Shaped(a, CallParts) /\ \A x \in CallParts \ {"n"} : a[x] = c[x]
  BY DEF Asked, Shaped, CallParts
<1>2. d = IF Refused(c) THEN [a EXCEPT !.got = NULL] ELSE [a EXCEPT !.got = r, !.held = h]
  <2>1. a.held = c.held
    BY <1>1 DEF CallParts
  <2>2. [a EXCEPT !.got = r, !.held = @ \cup {r}] = [a EXCEPT !.got = r, !.held = h]
    BY <1>1, <2>1 DEF Shaped, CallParts
  <2>3. QED BY <2>2 DEF Obtain
<1>3. Number(c, kind) \in 1 .. Cardinality(c.held) + 1 /\ <<kind, Number(c, kind)>> \notin c.held
  BY NumberFacts DEF Number
<1>4. OfKind(kind, r) /\ r \notin c.held /\ r # NULL
  <2>1. Number(c, kind) \in Nat
    BY <1>3, FS_CardinalityType
  <2>2. OfKind(kind, r)
    BY <2>1 DEF OfKind
  <2>3. OfKind("NULL", NULL)
    BY DEF OfKind, NULL
  <2>4. QED BY <1>3, <2>2, <2>3, KindFacts
<1> HIDE DEF a, r, d
<1>5. CASE Refused(c)
  <2>1. d = [a EXCEPT !.got = NULL]
    BY <1>2, <1>5
  <2>2. Shaped(d, CallParts) /\ d.got = NULL /\ \A x \in CallParts \ {"got"} : d[x] = a[x]
    BY <1>1, <2>1 DEF Shaped, CallParts
  <2>3. QED BY <1>1, <2>2 DEF CallParts, d
<1>6. CASE ~ Refused(c)
  <2>1. d = [a EXCEPT !.got = r, !.held = h]
    BY <1>2, <1>6
  <2> HIDE DEF h
  <2>2. Shaped(d, CallParts) /\ d.got = r /\ d.held = h /\ \A x \in CallParts \ {"got", "held"} : d[x] = a[x]
    BY <1>1, <2>1 DEF Shaped, CallParts
  <2>3. QED BY <1>1, <1>4, <2>2 DEF CallParts, d, h
<1>7. QED BY <1>5, <1>6

LEMMA VsReleaseFacts ==
    ASSUME NEW c, Shaped(c, CallParts), NEW r, r = NULL \/ r \in c.held
    PROVE  LET d == Release(c, r)
           IN  /\ Shaped(d, CallParts) /\ d.held = IF r = NULL THEN c.held ELSE c.held \ {r}
               /\ \A x \in CallParts \ {"held"} : d[x] = c[x]
<1>1. CASE r = NULL
  BY <1>1 DEF Release
<1>2. CASE r # NULL
  <2> DEFINE h == c.held \ {r}
             d == [c EXCEPT !.held = h]
  <2>1. Release(c, r) = d
    BY <1>2 DEF Release, Shaped, CallParts
  <2> HIDE DEF h
  <2>2. Shaped(d, CallParts) /\ d.held = h /\ \A x \in CallParts \ {"held"} : d[x] = c[x]
    BY DEF Shaped, CallParts
  <2> HIDE DEF d
  <2>3. QED BY <1>2, <2>1, <2>2 DEF h
<1>3. QED BY <1>1, <1>2

VsLetGo(c, r, d) ==
    /\ Shaped(d, CallParts)
    /\ d.held = IF r = NULL THEN c.held ELSE c.held \ {r}
    /\ \A x \in CallParts \ {"held"} : d[x] = c[x]

LEMMA VsLetGoFacts ==
    ASSUME NEW c, Shaped(c, CallParts), NEW r, r = NULL \/ r \in c.held
    PROVE  VsLetGo(c, r, Release(c, r))
BY VsReleaseFacts DEF VsLetGo

(* What a handle holds. *)
Own1(v) == IF "OPEN" \in v.flags THEN {v.at, v.dcb} ELSE {v.at}
VsFreed(d) == Shaped(d, CallParts) /\ d.vs = VsNoHandle /\ d.held = {} /\ d.twice = FALSE

LEMMA CloseFacts ==
    ASSUME NEW c, Shaped(c, CallParts), Shaped(c.vs, VsParts), c.held = Own1(c.vs), NULL \notin c.held,
           c.vs.at # c.vs.dcb, c.twice = FALSE
    PROVE  /\ VsFreed(__vsclos(c))
           /\ \A e : VsFreed(Quit(c, e)) /\ Quit(c, e).errno = e
<1> DEFINE r == IF "OPEN" \in c.vs.flags THEN c.vs.dcb ELSE NULL
           a == Release(c, r)
           none == VsNoHandle
           b == [a EXCEPT !.vs = none]
           d == Release(b, c.vs.at)
<1>1. c.vs # VsNoHandle
  <2>1. DOMAIN VsNoHandle = {"at"} /\ "dcb" \in DOMAIN c.vs
    BY DEF VsNoHandle, Shaped, VsParts
  <2>2. QED BY <2>1
<1>2. __vsclos(c) = d
  BY <1>1 DEF __vsclos
<1>3. r = NULL \/ r \in c.held
  BY DEF Own1
<1>4. r # NULL <=> "OPEN" \in c.vs.flags
  BY DEF Own1
<1> HIDE DEF r
<1>5. /\ Shaped(a, CallParts) /\ a.held = IF r = NULL THEN c.held ELSE c.held \ {r}
      /\ \A x \in CallParts \ {"held"} : a[x] = c[x]
  BY <1>3, VsReleaseFacts
<1>6. a.held = {c.vs.at} /\ a.twice = FALSE
  <2>1. a.twice = FALSE
    BY <1>5 DEF CallParts
  <2>2. CASE "OPEN" \in c.vs.flags
    BY <1>4, <1>5, <2>1, <2>2 DEF r, Own1
  <2>3. CASE "OPEN" \notin c.vs.flags
    BY <1>4, <1>5, <2>1, <2>3 DEF Own1
  <2>4. QED BY <2>2, <2>3
<1> HIDE DEF a, none
<1>7. Shaped(b, CallParts) /\ b.vs = none /\ \A x \in CallParts \ {"vs"} : b[x] = a[x]
  BY <1>5, SetVs
<1> HIDE DEF b
<1>8. b.held = {c.vs.at} /\ b.twice = FALSE /\ c.vs.at # NULL
  BY <1>6, <1>7 DEF CallParts, Own1
<1>9. /\ Shaped(d, CallParts) /\ d.held = b.held \ {c.vs.at}
      /\ \A x \in CallParts \ {"held"} : d[x] = b[x]
  <2> DEFINE at == c.vs.at
  <2>1. at # NULL /\ at \in b.held
    BY <1>8
  <2> HIDE DEF at
  <2>2. /\ Shaped(Release(b, at), CallParts) /\ Release(b, at).held = IF at = NULL THEN b.held ELSE b.held \ {at}
        /\ \A x \in CallParts \ {"held"} : Release(b, at)[x] = b[x]
    BY <1>7, <2>1, VsReleaseFacts
  <2>3. QED BY <2>1, <2>2 DEF at
<1> HIDE DEF d
<1>10. VsFreed(d)
  BY <1>7, <1>8, <1>9 DEF VsFreed, CallParts, none
<1>11. ASSUME NEW e PROVE VsFreed(Quit(c, e)) /\ Quit(c, e).errno = e
  <2> DEFINE q == [d EXCEPT !.errno = e]
  <2>1. Quit(c, e) = q
    BY <1>2 DEF Quit
  <2>2. Shaped(q, CallParts) /\ q.errno = e /\ \A x \in CallParts \ {"errno"} : q[x] = d[x]
    BY <1>9 DEF Shaped, CallParts
  <2> HIDE DEF q
  <2>3. QED BY <1>10, <2>1, <2>2 DEF VsFreed, CallParts
<1>12. QED BY <1>2, <1>10, <1>11

Held(d) ==
    /\ VsCallOK(d) /\ RplOK(d.vs) /\ "OPEN" \in d.vs.flags /\ d.twice = FALSE
    /\ d.held = {d.vs.at, d.vs.dcb} /\ d.vs.at # d.vs.dcb /\ NULL \notin d.held
Starting(c) ==
    Shaped(c, CallParts) /\ RecsOK(c.recs) /\ c.vs = VsNoHandle /\ c.held = {} /\ c.twice = FALSE
Opens(c, o, d) ==
    \/ VsFreed(d) /\ d.errno # "none"
    \/ Held(d) /\ d.errno = c.errno /\ d.vs.type = o.type /\ (d.recs = c.recs \/ In(d.recs) = {})

(* A handle that is being opened; its ACB comes last. *)
Fresh(v) ==
    /\ Shaped(v, VsParts) /\ v.flags = {} /\ v.place = 1 /\ v.arg = 1 /\ v.last = 1 /\ v.hold = 0
    /\ v.dcb = NULL /\ RplOK(v)

LEMMA BuiltFacts ==
    ASSUME NEW c, NEW o
    PROVE  LET v == Built(c, o) IN Fresh(v) /\ v.at = c.got /\ v.type = o.type
<1> DEFINE v == Built(c, o)
           p == OptionsOf(o) \cup (IF o.type = "ESDS" THEN {"ADR"} ELSE {})
<1>1. /\ Shaped(v, VsParts) /\ v.flags = {} /\ v.place = 1 /\ v.arg = 1 /\ v.last = 1 /\ v.hold = 0
      /\ v.dcb = NULL /\ v.at = c.got /\ v.type = o.type /\ v.access = o.access /\ v.mode = o.mode
      /\ v.opt = p /\ v.vsreset = FALSE
  BY DEF Built, Shaped, VsParts
<1>2. /\ "UPD" \in p <=> o.mode = "UPD"
      /\ "DIR" \in p <=> o.access = "DIR"
      /\ "KGE" \notin p
  BY DEF OptionsOf
<1> HIDE DEF v, p
<1>3. RplOK(v)
  BY <1>1, <1>2 DEF RplOK
<1>4. QED BY <1>1, <1>3 DEF Fresh, v

LEMMA PrepFacts ==
    ASSUME NEW c, Shaped(c, CallParts), Fresh(c.vs), NEW o
    PROVE  LET d == prep(c, o)
           IN  /\ Shaped(d, CallParts) /\ Fresh(d.vs) /\ d.vs.at = c.vs.at /\ d.vs.type = c.vs.type
               /\ \A x \in CallParts \ {"vs"} : d[x] = c[x]
<1>1. CASE o.x /\ "SKP" \in o.options
  <2> DEFINE p == (c.vs.opt \ {"DIR"}) \cup {"SKP"}
             v == [c.vs EXCEPT !.opt = p]
             d == [c EXCEPT !.vs = v]
  <2>1. prep(c, o) = d
    <3>1. prep(c, o) = [c EXCEPT !.vs.opt = (@ \ {"DIR"}) \cup {"SKP"}]
      BY <1>1 DEF prep
    <3>2. QED BY <3>1 DEF Fresh, Shaped, CallParts, VsParts
  <2>2. Shaped(c.vs, VsParts)
    BY DEF Fresh
  <2>3. "DIR" \notin p /\ "SKP" \in p /\ ("UPD" \in p <=> "UPD" \in c.vs.opt) /\ ("KGE" \in p <=> "KGE" \in c.vs.opt)
    OBVIOUS
  <2> HIDE DEF p
  <2>4. Shaped(v, VsParts) /\ v.opt = p /\ \A x \in VsParts \ {"opt"} : v[x] = c.vs[x]
    BY <2>2 DEF Shaped, VsParts
  <2> HIDE DEF v
  <2>5. Fresh(v) /\ v.at = c.vs.at /\ v.type = c.vs.type
    BY <2>3, <2>4 DEF Fresh, RplOK, VsParts
  <2>6. Shaped(d, CallParts) /\ d.vs = v /\ \A x \in CallParts \ {"vs"} : d[x] = c[x]
    BY SetVs
  <2>7. QED BY <2>1, <2>5, <2>6
<1>2. CASE ~ (o.x /\ "SKP" \in o.options)
  <2>1. prep(c, o) = c
    BY <1>2 DEF prep
  <2>2. QED BY <2>1
<1>3. QED BY <1>1, <1>2

(* OPEN was asked for: c.got is the ACB, if it could be had. *)
LEMMA OpenedFacts ==
    ASSUME NEW c, Shaped(c, CallParts), RecsOK(c.recs), Fresh(c.vs), c.twice = FALSE, c.vs.at # NULL,
           c.got # c.vs.at,
           c.got = NULL => c.held = {c.vs.at}, c.got # NULL => c.held = {c.vs.at, c.got},
           NEW o, c.vs.type = o.type,
           VsOpens(o) /\ o.type = "ESDS" => \E m \in Nat : In(c.recs) = 1 .. m
    PROVE  Opens(c, o, VsOpened(c, o))
<1>1. CASE c.got = NULL \/ ~ VsOpens(o)
  <2> DEFINE a == Release(c, c.got)
  <2>1. VsOpened(c, o) = Quit(a, "EVSOPEN")
    BY <1>1 DEF VsOpened
  <2>2. /\ Shaped(a, CallParts) /\ a.held = IF c.got = NULL THEN c.held ELSE c.held \ {c.got}
        /\ \A x \in CallParts \ {"held"} : a[x] = c[x]
    <3>1. PICK r : r = c.got
      OBVIOUS
    <3>2. r = NULL \/ r \in c.held
      BY <3>1
    <3>3. VsLetGo(c, r, Release(c, r))
      BY <3>2, VsLetGoFacts
    <3>4. VsLetGo(c, c.got, a)
      BY <3>1, <3>3
    <3>5. QED BY <3>4 DEF VsLetGo
  <2> HIDE DEF a
  <2>3. a.held = {c.vs.at} /\ a.vs = c.vs /\ a.twice = FALSE
    BY <2>2 DEF CallParts
  <2>4. a.held = Own1(a.vs) /\ NULL \notin a.held /\ a.vs.at # a.vs.dcb /\ Shaped(a.vs, VsParts)
    BY <2>3 DEF Own1, Fresh
  <2>5. VsFreed(Quit(a, "EVSOPEN")) /\ Quit(a, "EVSOPEN").errno = "EVSOPEN"
    <3>1. PICK b : b = a
      OBVIOUS
    <3>2. /\ Shaped(b, CallParts) /\ Shaped(b.vs, VsParts) /\ b.held = Own1(b.vs) /\ NULL \notin b.held
          /\ b.vs.at # b.vs.dcb /\ b.twice = FALSE
      BY <2>2, <2>3, <2>4, <3>1
    <3>3. \A e : VsFreed(Quit(b, e)) /\ Quit(b, e).errno = e
      BY <3>2, CloseFacts
    <3>4. QED BY <3>1, <3>3
  <2>6. QED BY <2>1, <2>5 DEF Opens
<1>2. CASE c.got # NULL /\ VsOpens(o)
  <2> DEFINE f == c.vs.flags \cup {"OPEN"}
             v == [c.vs EXCEPT !.dcb = c.got, !.flags = f]
             e == [c EXCEPT !.vs = v]
             d == Emptied(e, o)
  <2>1. VsOpened(c, o) = d
    <3>1. VsOpened(c, o) = Emptied([c EXCEPT !.vs.dcb = c.got, !.vs.flags = @ \cup {"OPEN"}], o)
      BY <1>2 DEF VsOpened
    <3>2. [c EXCEPT !.vs.dcb = c.got, !.vs.flags = @ \cup {"OPEN"}] = e
      BY DEF Fresh, Shaped, CallParts, VsParts
    <3>3. QED BY <3>1, <3>2
  <2>2. Shaped(c.vs, VsParts) /\ "OPEN" \in f
    BY DEF Fresh
  <2> HIDE DEF f
  <2>3. Shaped(v, VsParts) /\ v.dcb = c.got /\ v.flags = f /\ \A x \in VsParts \ {"dcb", "flags"} : v[x] = c.vs[x]
    BY <2>2 DEF Shaped, VsParts
  <2> HIDE DEF v
  <2>4. /\ RplOK(v) /\ v.type = o.type /\ v.at = c.vs.at /\ v.place = 1 /\ v.arg = 1 /\ v.last = 1 /\ v.hold = 0
    BY <2>3 DEF Fresh, RplOK, VsParts
  <2>5. Shaped(e, CallParts) /\ e.vs = v /\ \A x \in CallParts \ {"vs"} : e[x] = c[x]
    BY SetVs
  <2> HIDE DEF e
  <2>6. 1 \in Records /\ 1 \in Nat
    BY KeyFacts
  <2>7. /\ Shaped(d, CallParts) /\ RecsOK(d.recs) /\ (d.recs = c.recs \/ In(d.recs) = {})
        /\ \A x \in CallParts \ {"recs"} : d[x] = e[x]
    <3>1. CASE o.x /\ "RST" \in o.options
      <4> DEFINE w == VsEmpty
                 g == [e EXCEPT !.recs = w]
      <4>1. d = g
        BY <3>1 DEF Emptied
      <4>2. RecsOK(w) /\ In(w) = {}
        BY DEF RecsOK, In, VsEmpty
      <4> HIDE DEF w
      <4>3. Shaped(g, CallParts) /\ g.recs = w /\ \A x \in CallParts \ {"recs"} : g[x] = e[x]
        BY <2>5 DEF Shaped, CallParts
      <4>4. QED BY <4>1, <4>2, <4>3
    <3>2. CASE ~ (o.x /\ "RST" \in o.options)
      <4>1. d = e
        BY <3>2 DEF Emptied
      <4>2. e.recs = c.recs
        BY <2>5 DEF CallParts
      <4>3. QED BY <2>5, <4>1, <4>2
    <3>3. QED BY <3>1, <3>2
  <2> HIDE DEF d
  <2>8. d.vs = v /\ d.held = c.held /\ d.twice = FALSE /\ d.errno = c.errno
    BY <2>5, <2>7 DEF CallParts
  <2>9. v.type = "ESDS" => \E m \in Nat : In(d.recs) = 1 .. m
    <3>1. 0 \in Nat /\ 1 .. 0 = {}
      OBVIOUS
    <3>2. CASE In(d.recs) = {}
      BY <3>1, <3>2
    <3>3. CASE d.recs = c.recs
      BY <1>2, <2>4, <3>3
    <3>4. QED BY <2>7, <3>2, <3>3
  <2>10. HandleOK(v, d.recs)
    BY <2>3, <2>4, <2>6, <2>9 DEF HandleOK
  <2>11. Held(d)
    <3>1. VsCallOK(d)
      <4>1. Shaped(d, CallParts) /\ RecsOK(d.recs) /\ d.vs = v
        BY <2>7, <2>8
      <4>2. HandleOK(d.vs, d.recs)
        BY <2>10, <4>1
      <4>3. QED BY <4>1, <4>2 DEF VsCallOK
    <3>2. d.held = {v.at, v.dcb} /\ v.at # v.dcb /\ NULL \notin d.held
      BY <1>2, <2>3, <2>4, <2>8
    <3>3. QED BY <2>2, <2>3, <2>4, <2>8, <3>1, <3>2 DEF Held
  <2>12. QED BY <2>1, <2>4, <2>7, <2>8, <2>11 DEF Opens
<1>3. QED BY <1>1, <1>2

LEMMA ErrnoFacts ==
    ASSUME NEW c, VsFreed(c), NEW e
    PROVE  VsFreed([c EXCEPT !.errno = e]) /\ [c EXCEPT !.errno = e].errno = e
<1> DEFINE d == [c EXCEPT !.errno = e]
<1>1. Shaped(d, CallParts) /\ d.errno = e /\ \A x \in CallParts \ {"errno"} : d[x] = c[x]
  BY DEF VsFreed, Shaped, CallParts
<1> HIDE DEF d
<1>2. VsFreed(d)
  BY <1>1 DEF VsFreed, CallParts
<1>3. QED BY <1>1, <1>2 DEF d

LEMMA OpnFacts ==
    ASSUME NEW c, Starting(c), NEW o,
           VsOpens(o) /\ o.type = "ESDS" => \E m \in Nat : In(c.recs) = 1 .. m
    PROVE  Opens(c, o, __vsopn(c, o))
<1> DEFINE a == Obtain(c, "vsfile")
           v == Built(a, o)
           b == [a EXCEPT !.vs = v]
           p == prep(b, o)
           g == Obtain(p, "acb")
<1>1. VsFreed(c) /\ Shaped(c, CallParts) /\ IsFiniteSet(c.held)
  BY FS_EmptySet DEF Starting, VsFreed
<1>2. __vsopn(c, o) = IF VsRefusal(o) # "none" THEN [c EXCEPT !.errno = VsRefusal(o)]
                      ELSE IF a.got = NULL THEN [a EXCEPT !.errno = "ENOMEM"]
                      ELSE IF BadArgument(o) # "none" THEN Quit(b, BadArgument(o))
                      ELSE VsOpened(g, o)
  BY DEF __vsopn, VsAllocated, WithHandle
<1>3. /\ Shaped(a, CallParts)
      /\ \A x \in CallParts \ {"n", "got", "held"} : a[x] = c[x]
      /\ \/ a.got = NULL /\ a.held = c.held
         \/ /\ OfKind("vsfile", a.got) /\ a.got # NULL /\ a.got \notin c.held
            /\ a.held = c.held \cup {a.got}
  BY <1>1, VsObtainFacts
<1> HIDE DEF a
<1>4. a.twice = FALSE /\ a.recs = c.recs /\ a.vs = c.vs /\ a.errno = c.errno /\ RecsOK(a.recs)
  BY <1>3 DEF CallParts, Starting
<1>5. CASE VsRefusal(o) # "none"
  <2> DEFINE e == VsRefusal(o)
             d == [c EXCEPT !.errno = e]
  <2>1. __vsopn(c, o) = d /\ e # "none"
    BY <1>2, <1>5
  <2> HIDE DEF e
  <2>2. VsFreed(d) /\ d.errno = e
    BY <1>1, ErrnoFacts
  <2>3. QED BY <2>1, <2>2 DEF Opens
<1>6. CASE VsRefusal(o) = "none" /\ a.got = NULL
  <2> DEFINE e == "ENOMEM"
             d == [a EXCEPT !.errno = e]
  <2>1. __vsopn(c, o) = d /\ e # "none"
    BY <1>2, <1>6
  <2> HIDE DEF e
  <2>2. VsFreed(a)
    BY <1>3, <1>4, <1>6 DEF Starting, VsFreed
  <2>3. VsFreed(d) /\ d.errno = e
    BY <2>2, ErrnoFacts
  <2>4. QED BY <2>1, <2>3 DEF Opens
<1>7. ASSUME a.got # NULL
      PROVE  /\ Shaped(b, CallParts) /\ Fresh(b.vs) /\ b.vs.at = a.got /\ b.vs.type = o.type
             /\ \A x \in CallParts \ {"vs"} : b[x] = a[x]
             /\ b.held = {a.got} /\ b.twice = FALSE /\ OfKind("vsfile", a.got)
  <2>1. Fresh(v) /\ v.at = a.got /\ v.type = o.type
    BY BuiltFacts
  <2> HIDE DEF v
  <2>2. Shaped(b, CallParts) /\ b.vs = v /\ \A x \in CallParts \ {"vs"} : b[x] = a[x]
    BY <1>3, SetVs
  <2> HIDE DEF b
  <2>3. a.held = {a.got} /\ OfKind("vsfile", a.got)
    BY <1>3, <1>7 DEF Starting
  <2>4. QED BY <1>4, <2>1, <2>2, <2>3 DEF CallParts
<1> HIDE DEF b
<1>8. CASE VsRefusal(o) = "none" /\ a.got # NULL /\ BadArgument(o) # "none"
  <2> DEFINE e == BadArgument(o)
             d == Quit(b, e)
  <2>1. __vsopn(c, o) = d /\ e # "none"
    BY <1>2, <1>8
  <2> HIDE DEF e
  <2>2. b.held = Own1(b.vs) /\ NULL \notin b.held /\ b.vs.at # b.vs.dcb /\ Shaped(b.vs, VsParts)
    BY <1>7, <1>8 DEF Own1, Fresh
  <2>3. Shaped(b, CallParts) /\ b.twice = FALSE
    BY <1>7, <1>8
  <2>4. VsFreed(d) /\ d.errno = e
    BY <2>2, <2>3, CloseFacts
  <2>5. QED BY <2>1, <2>4 DEF Opens
<1>9. CASE VsRefusal(o) = "none" /\ a.got # NULL /\ BadArgument(o) = "none"
  <2>1. /\ Shaped(p, CallParts) /\ Fresh(p.vs) /\ p.vs.at = b.vs.at /\ p.vs.type = b.vs.type
        /\ \A x \in CallParts \ {"vs"} : p[x] = b[x]
    BY <1>7, <1>9, PrepFacts
  <2> HIDE DEF p
  <2>2. /\ p.held = {a.got} /\ p.twice = FALSE /\ p.recs = c.recs /\ p.errno = c.errno /\ p.vs.at = a.got
        /\ p.vs.type = o.type /\ OfKind("vsfile", a.got)
    BY <1>4, <1>7, <1>9, <2>1 DEF CallParts
  <2>3. IsFiniteSet(p.held)
    BY <2>2, FS_Singleton
  <2>4. /\ Shaped(g, CallParts)
        /\ \A x \in CallParts \ {"n", "got", "held"} : g[x] = p[x]
        /\ \/ g.got = NULL /\ g.held = p.held
           \/ /\ OfKind("acb", g.got) /\ g.got # NULL /\ g.got \notin p.held
              /\ g.held = p.held \cup {g.got}
    BY <2>1, <2>3, VsObtainFacts
  <2> HIDE DEF g
  <2>5. g.vs = p.vs /\ g.recs = c.recs /\ g.twice = FALSE /\ g.errno = c.errno
    BY <2>2, <2>4 DEF CallParts
  <2>6. /\ g.got # g.vs.at /\ g.vs.at # NULL
        /\ g.got = NULL => g.held = {g.vs.at}
        /\ g.got # NULL => g.held = {g.vs.at, g.got}
    BY <1>9, <2>2, <2>4, <2>5
  <2>7. RecsOK(g.recs) /\ Fresh(g.vs) /\ g.vs.type = o.type
    BY <1>4, <2>1, <2>2, <2>5
  <2>8. VsOpens(o) /\ o.type = "ESDS" => \E m \in Nat : In(g.recs) = 1 .. m
    BY <2>5
  <2>9. Opens(g, o, VsOpened(g, o))
    BY <2>4, <2>5, <2>6, <2>7, <2>8, OpenedFacts
  <2>10. QED BY <1>2, <1>9, <2>5, <2>9 DEF Opens
<1>10. QED BY <1>5, <1>6, <1>8, <1>9

(* The type of an open that leaves it to the cluster. *)
LEMMA TypedFacts ==
    ASSUME NEW c, Held(c), NEW o, o.kind = "ESDS" => \E m \in Nat : In(c.recs) = 1 .. m
    PROVE  LET d == settype(__vsinfo(c, o), o) IN VsFreed(d) \/ Held(d)
<1> DEFINE a == Asked(c)
           r == IF Refused(c) THEN -1 ELSE 0
           b == [a EXCEPT !.rc = r]
           d == settype(b, o)
<1>1. VsCallOK(c) /\ Shaped(c, CallParts) /\ Shaped(c.vs, VsParts) /\ RecsOK(c.recs)
  BY DEF Held, VsCallOK, HandleOK
<1>2. __vsinfo(c, o) = b
  BY DEF __vsinfo
<1>3. Shaped(a, CallParts) /\ \A x \in CallParts \ {"n"} : a[x] = c[x]
  BY <1>1 DEF Asked, Shaped, CallParts
<1> HIDE DEF a, r
<1>4. Shaped(b, CallParts) /\ b.rc = r /\ \A x \in CallParts \ {"rc"} : b[x] = a[x]
  BY <1>3 DEF Shaped, CallParts
<1> HIDE DEF b
<1>5. b.vs = c.vs /\ b.recs = c.recs /\ b.held = c.held /\ b.twice = c.twice
  BY <1>3, <1>4 DEF CallParts
<1>6. \A e : VsFreed(Quit(b, e))
  <2>1. b.held = Own1(b.vs) /\ NULL \notin b.held /\ b.vs.at # b.vs.dcb /\ b.twice = FALSE /\ Shaped(b.vs, VsParts)
    BY <1>1, <1>5 DEF Held, Own1
  <2>2. QED BY <1>4, <2>1, CloseFacts
<1>7. CASE b.rc # 0 \/ (o.kind = "ESDS" /\ "SKP" \in o.options)
  <2>1. d = Quit(b, "EVSOPEN") \/ d = Quit(b, "EVSACCESS")
    BY <1>7 DEF settype
  <2>2. QED BY <1>2, <1>6, <2>1
<1>8. CASE ~ (b.rc # 0 \/ (o.kind = "ESDS" /\ "SKP" \in o.options))
  <2> DEFINE p == IF o.kind = "ESDS" THEN c.vs.opt \cup {"ADR"} ELSE c.vs.opt
             k == o.kind
             v == [c.vs EXCEPT !.type = k, !.opt = p]
             e == [b EXCEPT !.vs = v]
  <2>1. d = e
    <3>1. d = [b EXCEPT !.vs.type = o.kind, !.vs.opt = IF o.kind = "ESDS" THEN @ \cup {"ADR"} ELSE @]
      BY <1>8 DEF settype
    <3> HIDE DEF d
    <3>2. [b EXCEPT !.vs.type = o.kind, !.vs.opt = IF o.kind = "ESDS" THEN @ \cup {"ADR"} ELSE @] = e
      BY <1>1, <1>4, <1>5 DEF Shaped, CallParts, VsParts
    <3>3. QED BY <3>1, <3>2
  <2>2. \A x \in {"UPD", "DIR", "SKP", "KGE"} : x \in p <=> x \in c.vs.opt
    OBVIOUS
  <2>3. k = "ESDS" => \E m \in Nat : In(c.recs) = 1 .. m
    OBVIOUS
  <2> HIDE DEF p, k
  <2>4. Shaped(v, VsParts) /\ v.type = k /\ v.opt = p /\ \A x \in VsParts \ {"type", "opt"} : v[x] = c.vs[x]
    BY <1>1 DEF Shaped, VsParts
  <2> HIDE DEF v
  <2>5. Shaped(e, CallParts) /\ e.vs = v /\ \A x \in CallParts \ {"vs"} : e[x] = b[x]
    BY <1>4 DEF Shaped, CallParts
  <2> HIDE DEF e
  <2>6. e.recs = c.recs /\ e.held = c.held /\ e.twice = c.twice
    BY <1>5, <2>5 DEF CallParts
  <2>7. HandleOK(v, c.recs)
    <3>1. HandleOK(c.vs, c.recs)
      BY <1>1 DEF VsCallOK
    <3>2. QED BY <2>3, <2>4, <3>1 DEF HandleOK, VsParts
  <2>8. RplOK(v)
    <3>1. RplOK(c.vs)
      BY DEF Held
    <3>2. v.mode = c.vs.mode /\ v.access = c.vs.access /\ v.vsreset = c.vs.vsreset
      BY <2>4 DEF VsParts
    <3>3. QED BY <2>2, <2>4, <3>1, <3>2 DEF RplOK
  <2>9. VsCallOK(e)
    BY <1>1, <2>5, <2>6, <2>7 DEF VsCallOK
  <2>10. v.at = c.vs.at /\ v.dcb = c.vs.dcb /\ v.flags = c.vs.flags
    BY <2>4 DEF VsParts
  <2>11. Held(e)
    BY <2>5, <2>6, <2>8, <2>9, <2>10 DEF Held
  <2>12. QED BY <1>2, <2>1, <2>11
<1>9. QED BY <1>7, <1>8

LEMMA OpenFacts ==
    ASSUME NEW c, Starting(c), NEW o \in VsamOpens,
           o.kind = "ESDS" => \E m \in Nat : In(c.recs) = 1 .. m
    PROVE  LET d == vsopen(c, o) IN VsFreed(d) \/ Held(d)
<1> DEFINE d == vsopen(c, o)
<1>1. VsFreed(c)
  BY DEF Starting, VsFreed
<1>2. CASE ~ o.x
  <2>1. VsOpens(o) /\ o.type = "ESDS" => \E m \in Nat : In(c.recs) = 1 .. m
    BY <1>2 DEF VsOpens
  <2>2. Opens(c, o, __vsopn(c, o))
    BY <2>1, OpnFacts
  <2>3. QED BY <1>2, <2>2 DEF vsopen, Opens
<1>3. CASE o.x
  <2> DEFINE t == IF o.any THEN "KSDS" ELSE o.type
             q == [o EXCEPT !.type = t]
             a == __vsopn(c, q)
  <2>1. /\ o = [type |-> o.type, access |-> o.access, mode |-> o.mode, kind |-> o.kind,
                options |-> o.options, x |-> o.x, any |-> o.any, password |-> o.password]
    BY VsamAssumption
  <2>2. \/ \E e : d = [c EXCEPT !.errno = e]
        \/ d = Typed(a, o)
    <3>1. q = [o EXCEPT !.type = IF o.any THEN "KSDS" ELSE @]
      BY <2>1
    <3>2. d = __vsopenx(c, o)
      BY <1>3 DEF vsopen
    <3> HIDE DEF d, q
    <3>3. QED BY <3>1, <3>2 DEF __vsopenx
  <2>3. q.type = t /\ q.kind = o.kind /\ (q.any <=> o.any) /\ (o.any => t = "KSDS")
    <3> HIDE DEF t
    <3>1. q.type = t /\ q.kind = o.kind /\ q.any = o.any
      BY <2>1
    <3>2. QED BY <3>1 DEF t
  <2> HIDE DEF q, t, d
  <2>4. VsOpens(q) /\ q.type = "ESDS" => \E m \in Nat : In(c.recs) = 1 .. m
    BY <2>3 DEF VsOpens
  <2>5. Opens(c, q, a)
    BY <2>4, OpnFacts
  <2> HIDE DEF a
  <2>6. ASSUME Held(a), d = Typed(a, o) PROVE VsFreed(d) \/ Held(d)
    <3>1. d = a \/ d = settype(__vsinfo(a, o), o)
      BY <2>6 DEF Typed
    <3>2. VsFreed(a) \/ a.recs = c.recs \/ In(a.recs) = {}
      BY <2>5 DEF Opens
    <3>3. ~ VsFreed(a)
      <4>1. DOMAIN VsNoHandle = {"at"} /\ "dcb" \in DOMAIN a.vs
        BY <2>6 DEF VsNoHandle, Held, VsCallOK, HandleOK, Shaped, VsParts
      <4>2. a.vs # VsNoHandle
        BY <4>1
      <4>3. QED BY <4>2 DEF VsFreed
    <3>4. o.kind = "ESDS" => \E m \in Nat : In(a.recs) = 1 .. m
      <4>1. 0 \in Nat /\ 1 .. 0 = {}
        OBVIOUS
      <4>2. CASE In(a.recs) = {}
        BY <4>1, <4>2
      <4>3. CASE a.recs = c.recs
        BY <4>3
      <4>4. QED BY <3>2, <3>3, <4>2, <4>3
    <3>5. LET g == settype(__vsinfo(a, o), o) IN VsFreed(g) \/ Held(g)
      BY <2>6, <3>4, TypedFacts
    <3>6. QED BY <2>6, <3>1, <3>5
  <2>7. ASSUME VsFreed(a), a.errno # "none", d = Typed(a, o) PROVE VsFreed(d)
    <3>1. d = a
      BY <2>7 DEF Typed
    <3>2. QED BY <2>7, <3>1
  <2>8. ASSUME NEW e, d = [c EXCEPT !.errno = e] PROVE VsFreed(d)
    <3>1. VsFreed([c EXCEPT !.errno = e])
      BY <1>1, ErrnoFacts
    <3>2. QED BY <2>8, <3>1
  <2>9. QED BY <2>2, <2>5, <2>6, <2>7, <2>8 DEF Opens, d
<1>4. QED BY <1>2, <1>3

----------------------------------------------------------------------------
(* The calls of a program. *)

(* What the handle and the ledger say together. *)
Sound ==
    /\ RecsOK(vsam.recs)
    /\ ~ VsClosed => /\ HandleOK(vsam.vs, vsam.recs) /\ RplOK(vsam.vs) /\ "OPEN" \in vsam.vs.flags
                     /\ vsam.vs.at # vsam.vs.dcb /\ NULL \notin {vsam.vs.at, vsam.vs.dcb}
    /\ ledger.held = VsamOwns /\ ledger.twice = FALSE

(* The inductive invariant. *)
VsInv == Sound /\ FlagsAreHistory /\ AnswerIsOwn /\ NothingReplaced

LEMMA HeldIsOpen == ASSUME NEW c, Held(c) PROVE c.vs # VsNoHandle
<1>1. DOMAIN VsNoHandle = {"at"} /\ "dcb" \in DOMAIN c.vs
  BY DEF VsNoHandle, Held, VsCallOK, HandleOK, Shaped, VsParts
<1>2. QED BY <1>1

LEMMA SettledFacts ==
    ASSUME NEW v, NEW recs, HandleOK(v, recs)
    PROVE  LET w == Settled(v)
           IN  /\ HandleOK(w, recs)
               /\ \A x \in {"at", "dcb", "type", "access", "mode", "flags", "opt", "vsreset"} : w[x] = v[x]
<1> DEFINE g == IF v.opt \cap {"DIR", "SKP"} = {} THEN 1 ELSE v.arg
           w == [v EXCEPT !.last = 1, !.len = 0, !.r15 = 0, !.fdbk = 0, !.rc = 0, !.rsn = 0, !.arg = g]
<1>1. v # VsNoHandle /\ Shaped(v, VsParts)
  <2>1. DOMAIN VsNoHandle = {"at"} /\ "dcb" \in DOMAIN v
    BY DEF VsNoHandle, HandleOK, Shaped, VsParts
  <2>2. QED BY <2>1 DEF HandleOK
<1>2. Settled(v) = w
  BY <1>1 DEF Settled, Shaped, VsParts
<1>3. 1 \in Records /\ g \in Records
  BY KeyFacts DEF HandleOK
<1> HIDE DEF g
<1>4. /\ Shaped(w, VsParts) /\ w.last = 1 /\ w.arg = g
      /\ \A x \in VsParts \ {"last", "len", "r15", "fdbk", "rc", "rsn", "arg"} : w[x] = v[x]
  BY <1>1 DEF Shaped, VsParts
<1> HIDE DEF w
<1>5. HandleOK(w, recs)
  BY <1>3, <1>4 DEF HandleOK, VsParts
<1>6. QED BY <1>2, <1>4, <1>5 DEF VsParts

LEMMA FinishHeld ==
    ASSUME NEW c, Held(c), NEW name, NEW key, VsFinish(c, name, key)
    PROVE  /\ Sound' /\ vsam'.recs = c.recs /\ vsam'.vs.flags = c.vs.flags /\ ~ VsClosed'
           /\ result'.op = name /\ result'.rc = c.rc /\ result'.ret = c.ret /\ result'.with = key
           /\ result'.fb.r15 = c.vs.r15 /\ result'.fb.fdbk = c.vs.fdbk
           /\ result'.fb.rc = c.vs.rc /\ result'.fb.rsn = c.vs.rsn
           /\ result'.recs = vsam.recs /\ result'.flags = Flags(vsam.vs) /\ result'.place = Place(vsam.vs)
<1> DEFINE w == Settled(c.vs)
<1>1. c.vs # VsNoHandle /\ HandleOK(c.vs, c.recs) /\ RecsOK(c.recs)
  BY HeldIsOpen DEF Held, VsCallOK
<1>2. /\ HandleOK(w, c.recs)
      /\ \A x \in {"at", "dcb", "type", "access", "mode", "flags", "opt", "vsreset"} : w[x] = c.vs[x]
  BY <1>1, SettledFacts
<1> HIDE DEF w
<1>3. vsam'.recs = c.recs /\ vsam'.vs = w /\ ledger'.held = c.held /\ ledger'.twice = c.twice
  BY <1>1 DEF VsFinish, End, w
<1>4. w # VsNoHandle
  <2>1. DOMAIN VsNoHandle = {"at"} /\ "dcb" \in DOMAIN w
    BY <1>2 DEF VsNoHandle, HandleOK, Shaped, VsParts
  <2>2. QED BY <2>1
<1>5. RplOK(w)
  BY <1>2 DEF Held, RplOK
<1>6. /\ RecsOK(vsam'.recs) /\ vsam'.vs # VsNoHandle /\ HandleOK(vsam'.vs, vsam'.recs) /\ RplOK(vsam'.vs)
      /\ "OPEN" \in vsam'.vs.flags /\ vsam'.vs.at # vsam'.vs.dcb /\ NULL \notin {vsam'.vs.at, vsam'.vs.dcb}
      /\ ledger'.held = {vsam'.vs.at, vsam'.vs.dcb} /\ ledger'.twice = FALSE
  BY <1>1, <1>2, <1>3, <1>4, <1>5 DEF Held
<1>7. Sound' /\ ~ VsClosed'
  BY <1>6 DEF Sound, VsClosed, VsamOwns
<1>8. result' = [op |-> name, rc |-> c.rc, ret |-> c.ret, errno |-> c.errno, fb |-> Feedback(c.vs), with |-> key,
                 recs |-> vsam.recs, flags |-> Flags(vsam.vs), place |-> Place(vsam.vs)]
  BY DEF VsFinish, End
<1>9. Feedback(c.vs) = [r15 |-> c.vs.r15, fdbk |-> c.vs.fdbk, rc |-> c.vs.rc, rsn |-> c.vs.rsn]
  BY <1>1 DEF Feedback
<1>10. QED BY <1>2, <1>3, <1>7, <1>8, <1>9

LEMMA FinishFreed ==
    ASSUME NEW c, VsFreed(c), NEW name, NEW key, VsFinish(c, name, key)
    PROVE  Sound' /\ result'.op = name
<1>1. vsam'.recs = VsEmpty /\ vsam'.vs = VsNoHandle /\ ledger'.held = {} /\ ledger'.twice = FALSE /\ result'.op = name
  BY DEF VsFinish, End, VsFreed, Settled
<1>2. RecsOK(VsEmpty)
  BY DEF RecsOK, VsEmpty
<1>3. QED BY <1>1, <1>2 DEF Sound, VsClosed, VsamOwns

(* A call begins on the handle as it is. *)
LEMMA CallingFacts ==
    ASSUME Sound, ~ VsClosed, NEW n, NEW keep
    PROVE  LET c == Calling(n, keep)
           IN  Held(c) /\ c.ret = 0 /\ c.vs = vsam.vs /\ c.recs = vsam.recs
<1> DEFINE c == Calling(n, keep)
<1>1. /\ Shaped(c, CallParts) /\ c.ret = 0 /\ c.vs = vsam.vs /\ c.recs = vsam.recs
      /\ c.held = ledger.held /\ c.twice = ledger.twice
  BY DEF Calling, Shaped, CallParts
<1> HIDE DEF c
<1>2. Held(c)
  BY <1>1 DEF Sound, Held, VsCallOK, VsamOwns
<1>3. QED BY <1>1, <1>2 DEF c

LEMMA AnsweredHeld ==
    ASSUME NEW c, Held(c), NEW d, Answered(c, d)
    PROVE  Held(d)
BY DEF Held, Answered, Handed

Requests == {"vsread", "vssteq", "vsstge", "vswrite", "vsupdate", "vsdelete"}

LEMMA AnswerStep ==
    ASSUME Sound, ~ VsClosed, NEW n, NEW keep, NEW d, Answered(Calling(n, keep), d),
           NEW name \in Requests, NEW key, VsFinish(d, name, key),
           name = "vsread" => Own(Calling(n, keep), d, key),
           name = "vswrite" => \A j \in Records : vsam.recs[j] > 0 => d.recs[j] = vsam.recs[j]
    PROVE  VsInv'
<1> DEFINE c == Calling(n, keep)
<1>1. Held(c) /\ c.ret = 0 /\ c.vs = vsam.vs /\ c.recs = vsam.recs
  BY CallingFacts
<1>2. Answered(c, d) /\ (name = "vsread" => Own(c, d, key))
  OBVIOUS
<1> HIDE DEF c
<1>3. Held(d)
  BY <1>1, <1>2, AnsweredHeld
<1>4. /\ Sound' /\ vsam'.recs = d.recs /\ vsam'.vs.flags = d.vs.flags /\ ~ VsClosed'
      /\ result'.op = name /\ result'.rc = d.rc /\ result'.ret = d.ret /\ result'.with = key
      /\ result'.fb.r15 = d.vs.r15 /\ result'.fb.fdbk = d.vs.fdbk
      /\ result'.fb.rc = d.vs.rc /\ result'.fb.rsn = d.vs.rsn
      /\ result'.recs = vsam.recs /\ result'.flags = Flags(vsam.vs) /\ result'.place = Place(vsam.vs)
  BY <1>3, FinishHeld
<1>5. Flags(vsam.vs) = vsam.vs.flags /\ Place(vsam.vs) = vsam.vs.place
  BY DEF Flags, Place, VsClosed
<1>6. FlagsAreHistory'
  BY <1>1, <1>2, <1>4, <1>5 DEF FlagsAreHistory, OwnError, __vserr, __vseof, Answered
<1>7. AnswerIsOwn'
  <2>1. CASE name = "vsread"
    <3>1. Own(c, d, key)
      BY <1>2, <2>1
    <3>2. QED BY <1>1, <1>4, <1>5, <3>1 DEF AnswerIsOwn, Own
  <2>2. CASE name # "vsread"
    BY <1>4, <2>2 DEF AnswerIsOwn
  <2>3. QED BY <2>1, <2>2
<1>8. NothingReplaced'
  <2>1. d.rc # 0 => d.recs = vsam.recs
    BY <1>1, <1>2 DEF Answered
  <2>2. QED BY <1>4, <2>1 DEF NothingReplaced
<1>9. QED BY <1>4, <1>6, <1>7, <1>8 DEF VsInv

(* Any other call forgets the answer before it. *)
LEMMA OtherStep ==
    ASSUME Sound', result'.op \notin Requests
    PROVE  VsInv'
BY DEF VsInv, FlagsAreHistory, AnswerIsOwn, NothingReplaced, Requests

LEMMA VsOpenStep == ASSUME Sound, VsOpen PROVE VsInv'
<1>1. PICK o \in VsamOpens, n \in 0 .. 3 : \E recs \in Clusters(o) :
          VsFinish(vsopen([Calling(n, TRUE) EXCEPT !.recs = recs], o), "vsopen", 0)
  BY DEF VsOpen
<1>2. PICK recs \in Clusters(o) : VsFinish(vsopen([Calling(n, TRUE) EXCEPT !.recs = recs], o), "vsopen", 0)
  BY <1>1
<1> DEFINE a == Calling(n, TRUE)
           c == [a EXCEPT !.recs = recs]
           d == vsopen(c, o)
<1>3. Shaped(a, CallParts) /\ a.vs = vsam.vs /\ a.held = ledger.held /\ a.twice = ledger.twice
  BY DEF Calling, Shaped, CallParts
<1>4. RecsOK(recs) /\ (o.kind = "ESDS" => \E m \in Nat : In(recs) = 1 .. m)
  <2>1. PICK s \in {x \in SUBSET Records : o.kind = "ESDS" => x = 1 .. Cardinality(x)} :
            recs = [k \in Records |-> IF k \in s THEN 1 ELSE 0]
    BY DEF Clusters
  <2>2. RecsOK(recs) /\ In(recs) = s
    BY <2>1 DEF RecsOK, In
  <2>3. Cardinality(s) \in Nat
    BY <2>1, VsamAssumption, FS_Subset, FS_CardinalityType
  <2>4. QED BY <2>1, <2>2, <2>3
<1> HIDE DEF a
<1>5. Shaped(c, CallParts) /\ c.recs = recs /\ \A x \in CallParts \ {"recs"} : c[x] = a[x]
  BY <1>3 DEF Shaped, CallParts
<1>6. VsFinish(d, "vsopen", 0)
  BY <1>2 DEF a
<1> HIDE DEF c
<1>7. Starting(c)
  <2>1. c.vs = VsNoHandle /\ c.held = {} /\ c.twice = FALSE
    BY <1>3, <1>5 DEF VsOpen, Sound, VsClosed, VsamOwns, CallParts
  <2>2. QED BY <1>4, <1>5, <2>1 DEF Starting
<1>8. o.kind = "ESDS" => \E m \in Nat : In(c.recs) = 1 .. m
  BY <1>4, <1>5
<1>9. VsFreed(d) \/ Held(d)
  BY <1>7, <1>8, OpenFacts
<1> HIDE DEF d
<1>10. Sound' /\ result'.op = "vsopen"
  BY <1>6, <1>9, FinishHeld, FinishFreed
<1>11. result'.op \notin Requests
  BY <1>10 DEF Requests
<1>12. QED BY <1>10, <1>11, OtherStep

LEMMA VsCloseStep == ASSUME Sound, VsClose PROVE VsInv'
<1> DEFINE c == Calling(0, TRUE)
           d == __vsclos(c)
<1>1. ~ VsClosed /\ VsFinish(d, "vsclose", 0)
  BY DEF VsClose
<1>2. Held(c)
  BY <1>1, CallingFacts
<1> HIDE DEF c
<1>3. /\ Shaped(c, CallParts) /\ Shaped(c.vs, VsParts) /\ c.held = Own1(c.vs) /\ NULL \notin c.held
      /\ c.vs.at # c.vs.dcb /\ c.twice = FALSE
  BY <1>2 DEF Held, VsCallOK, HandleOK, Own1
<1>4. VsFreed(d)
  BY <1>3, CloseFacts
<1> HIDE DEF d
<1>5. Sound' /\ result'.op = "vsclose"
  BY <1>1, <1>4, FinishFreed
<1>6. result'.op \notin Requests
  BY <1>5 DEF Requests
<1>7. QED BY <1>5, <1>6, OtherStep

LEMMA VsClearStep == ASSUME Sound, VsClear PROVE VsInv'
<1> DEFINE c == Calling(0, TRUE)
           v == [c.vs EXCEPT !.flags = @ \ Sticky, !.rc = 0, !.rsn = 0]
           d == [c EXCEPT !.vs = v]
<1>1. ~ VsClosed /\ VsFinish([c EXCEPT !.vs = __vsclr(@)], "vsclear", 0)
  BY DEF VsClear
<1>2. Held(c)
  BY <1>1, CallingFacts
<1> HIDE DEF c
<1>3. Shaped(c, CallParts) /\ Shaped(c.vs, VsParts) /\ HandleOK(c.vs, c.recs) /\ RecsOK(c.recs)
  BY <1>2 DEF Held, VsCallOK, HandleOK
<1>4. VsFinish(d, "vsclear", 0)
  BY <1>1, <1>3 DEF __vsclr
<1>5. /\ Shaped(v, VsParts) /\ v.flags = c.vs.flags \ Sticky
      /\ \A x \in VsParts \ {"flags", "rc", "rsn"} : v[x] = c.vs[x]
  BY <1>3 DEF Shaped, VsParts
<1> HIDE DEF v
<1>6. Shaped(d, CallParts) /\ d.vs = v /\ \A x \in CallParts \ {"vs"} : d[x] = c[x]
  BY <1>3, SetVs
<1> HIDE DEF d
<1>7. HandleOK(v, c.recs) /\ RplOK(v) /\ "OPEN" \in v.flags /\ v.at = c.vs.at /\ v.dcb = c.vs.dcb
  <2>1. HandleOK(v, c.recs)
    BY <1>3, <1>5 DEF HandleOK, VsParts
  <2>2. v.opt = c.vs.opt /\ v.vsreset = c.vs.vsreset /\ v.access = c.vs.access /\ v.mode = c.vs.mode
        /\ v.at = c.vs.at /\ v.dcb = c.vs.dcb
    BY <1>5 DEF VsParts
  <2>3. RplOK(v)
    BY <1>2, <2>2 DEF Held, RplOK
  <2>4. "OPEN" \in v.flags
    BY <1>2, <1>5 DEF Held, Sticky
  <2>5. QED BY <2>1, <2>2, <2>3, <2>4
<1>8. d.recs = c.recs /\ d.held = c.held /\ d.twice = c.twice
  BY <1>6 DEF CallParts
<1>9. Held(d)
  BY <1>2, <1>3, <1>6, <1>7, <1>8 DEF Held, VsCallOK
<1>10. Sound' /\ result'.op = "vsclear"
  BY <1>4, <1>9, FinishHeld
<1>11. result'.op \notin Requests
  BY <1>10 DEF Requests
<1>12. QED BY <1>10, <1>11, OtherStep

LEMMA VsRequestStep ==
    ASSUME Sound, VsRead \/ VsSteq \/ VsStge \/ VsWrite \/ VsUpdate \/ VsDelete
    PROVE  VsInv'
<1>1. ASSUME ~ VsClosed, NEW n, NEW keep
      PROVE  LET c == Calling(n, keep)
             IN  VsCallOK(c) /\ RplOK(c.vs) /\ c.ret = 0 /\ c.recs = vsam.recs
  BY <1>1, CallingFacts DEF Held
<1>2. Lengths \subseteq Nat \ {0}
  BY VsamAssumption
<1>3. CASE VsRead
  <2>1. PICK key \in Records \cup {0}, n \in 0 .. 2 : VsFinish(__vsread(Calling(n, TRUE), key), "vsread", key)
    BY <1>3 DEF VsRead
  <2> DEFINE c == Calling(n, TRUE)
             d == __vsread(c, key)
  <2>2. ~ VsClosed /\ VsFinish(d, "vsread", key)
    BY <1>3, <2>1 DEF VsRead
  <2>3. VsCallOK(c) /\ RplOK(c.vs) /\ c.ret = 0
    BY <1>1, <2>2
  <2> HIDE DEF c
  <2>4. Answered(c, d) /\ Own(c, d, key)
    BY <2>3, VsReadFacts
  <2> HIDE DEF d
  <2>5. "vsread" \in Requests
    BY DEF Requests
  <2>6. QED BY <2>2, <2>4, <2>5, AnswerStep DEF c
<1>4. CASE VsSteq
  <2>1. PICK key \in Records, n \in 0 .. 1 : VsFinish(__vssteq(Calling(n, TRUE), key), "vssteq", key)
    BY <1>4 DEF VsSteq
  <2> DEFINE c == Calling(n, TRUE)
             d == __vssteq(c, key)
  <2>2. ~ VsClosed /\ VsFinish(d, "vssteq", key)
    BY <1>4, <2>1 DEF VsSteq
  <2>3. VsCallOK(c) /\ RplOK(c.vs) /\ c.ret = 0
    BY <1>1, <2>2
  <2> HIDE DEF c
  <2>4. Answered(c, d)
    <3>1. Requested(c, d)
      BY <2>3, SteqFacts
    <3>2. QED BY <2>3, <3>1, RequestedAnswers
  <2> HIDE DEF d
  <2>5. "vssteq" \in Requests
    BY DEF Requests
  <2>6. QED BY <2>2, <2>4, <2>5, AnswerStep DEF c
<1>5. CASE VsStge
  <2>1. PICK key \in Records, n \in 0 .. 1 : VsFinish(__vsstge(Calling(n, TRUE), key), "vsstge", key)
    BY <1>5 DEF VsStge
  <2> DEFINE c == Calling(n, TRUE)
             d == __vsstge(c, key)
  <2>2. ~ VsClosed /\ VsFinish(d, "vsstge", key)
    BY <1>5, <2>1 DEF VsStge
  <2>3. VsCallOK(c) /\ RplOK(c.vs) /\ c.ret = 0
    BY <1>1, <2>2
  <2> HIDE DEF c
  <2>4. Answered(c, d)
    <3>1. Requested(c, d)
      BY <2>3, StgeFacts
    <3>2. QED BY <2>3, <3>1, RequestedAnswers
  <2> HIDE DEF d
  <2>5. "vsstge" \in Requests
    BY DEF Requests
  <2>6. QED BY <2>2, <2>4, <2>5, AnswerStep DEF c
<1>6. CASE VsWrite
  <2>1. PICK key \in Records, len \in Lengths, n \in 0 .. 1, keep \in BOOLEAN :
            VsFinish(__vswrit(Calling(n, keep), len, key), "vswrite", key)
    BY <1>6 DEF VsWrite
  <2> DEFINE c == Calling(n, keep)
             d == __vswrit(c, len, key)
  <2>2. ~ VsClosed /\ VsFinish(d, "vswrite", key)
    BY <1>6, <2>1 DEF VsWrite
  <2>3. VsCallOK(c) /\ RplOK(c.vs) /\ c.ret = 0 /\ c.recs = vsam.recs /\ len \in Nat \ {0}
    BY <1>1, <1>2, <2>2
  <2> HIDE DEF c
  <2>4. Answered(c, d) /\ \A j \in Records : c.recs[j] > 0 => d.recs[j] = c.recs[j]
    BY <2>3, WriteFacts
  <2> HIDE DEF d
  <2>5. "vswrite" \in Requests
    BY DEF Requests
  <2>6. QED BY <2>2, <2>3, <2>4, <2>5, AnswerStep DEF c
<1>7. CASE VsUpdate
  <2>1. PICK n \in 0 .. 1, len \in Lengths, key \in Records :
            VsFinish(__vsupdt(Calling(n, TRUE), len, key), "vsupdate", key)
    BY <1>7 DEF VsUpdate
  <2> DEFINE c == Calling(n, TRUE)
             d == __vsupdt(c, len, key)
  <2>2. ~ VsClosed /\ VsFinish(d, "vsupdate", key)
    BY <1>7, <2>1 DEF VsUpdate
  <2>3. VsCallOK(c) /\ RplOK(c.vs) /\ c.ret = 0 /\ len \in Nat \ {0}
    BY <1>1, <1>2, <2>2
  <2> HIDE DEF c
  <2>4. Answered(c, d)
    <3>1. Requested(c, d)
      BY <2>3, UpdateFacts
    <3>2. QED BY <2>3, <3>1, RequestedAnswers
  <2> HIDE DEF d
  <2>5. "vsupdate" \in Requests
    BY DEF Requests
  <2>6. QED BY <2>2, <2>4, <2>5, AnswerStep DEF c
<1>8. CASE VsDelete
  <2>1. PICK n \in 0 .. 1 : VsFinish(__vsdel(Calling(n, TRUE)), "vsdelete", 0)
    BY <1>8 DEF VsDelete
  <2> DEFINE c == Calling(n, TRUE)
             d == __vsdel(c)
  <2>2. ~ VsClosed /\ VsFinish(d, "vsdelete", 0)
    BY <1>8, <2>1 DEF VsDelete
  <2>3. VsCallOK(c) /\ RplOK(c.vs) /\ c.ret = 0
    BY <1>1, <2>2
  <2> HIDE DEF c
  <2>4. Answered(c, d)
    <3>1. Requested(c, d)
      BY <2>3, DeleteFacts
    <3>2. QED BY <2>3, <3>1, RequestedAnswers
  <2> HIDE DEF d
  <2>5. "vsdelete" \in Requests
    BY DEF Requests
  <2>6. QED BY <2>2, <2>4, <2>5, AnswerStep DEF c
<1>9. QED BY <1>3, <1>4, <1>5, <1>6, <1>7, <1>8

----------------------------------------------------------------------------
(* The theorems. *)

LEMMA VsStart == LedgerInit /\ VsamInit => VsInv
<1> SUFFICES ASSUME LedgerInit, VsamInit PROVE VsInv
  OBVIOUS
<1>1. RecsOK(VsEmpty)
  BY DEF RecsOK, VsEmpty
<1>2. Sound
  BY <1>1 DEF LedgerInit, VsamInit, Sound, VsClosed, VsamOwns
<1>3. QED BY <1>2 DEF LedgerInit, Seen, VsInv, FlagsAreHistory, AnswerIsOwn, NothingReplaced

LEMMA VsStep == VsInv /\ [VsamNext]_<<ledger, result, vsam>> => VsInv'
<1> SUFFICES ASSUME VsInv, [VsamNext]_<<ledger, result, vsam>> PROVE VsInv'
  OBVIOUS
<1>1. Sound
  BY DEF VsInv
<1>2. CASE VsOpen
  BY <1>1, <1>2, VsOpenStep
<1>3. CASE VsClose
  BY <1>1, <1>3, VsCloseStep
<1>4. CASE VsClear
  BY <1>1, <1>4, VsClearStep
<1>5. CASE VsRead \/ VsSteq \/ VsStge \/ VsWrite \/ VsUpdate \/ VsDelete
  BY <1>1, <1>5, VsRequestStep
<1>6. CASE VsamSee
  <2>1. vsam' = vsam /\ ledger' = ledger /\ result' = Seen
    BY <1>6 DEF VsamSee, See
  <2>2. Sound'
    BY <1>1, <2>1 DEF Sound, VsClosed, VsamOwns
  <2>3. result'.op \notin Requests
    BY <2>1 DEF Seen, Requests
  <2>4. QED BY <2>2, <2>3, OtherStep
<1>7. CASE UNCHANGED <<ledger, result, vsam>>
  BY <1>7 DEF VsInv, Sound, VsClosed, VsamOwns, FlagsAreHistory, OwnError, __vserr, __vseof, AnswerIsOwn, NothingReplaced
<1>8. QED BY <1>2, <1>3, <1>4, <1>5, <1>6, <1>7 DEF VsamNext

(* The handle, its ledger, its answers and its cluster after every call. *)
THEOREM VsInvAlways == VsamSpec => []VsInv
<1>1. QED BY VsStart, VsStep, PTL DEF VsamSpec

(* The options of the RPL are those of the open again whatever a request   *)
(* did, the indicators are the history of the requests, a read answers for *)
(* its own request, and an insertion replaces no record.                   *)
THEOREM VsamIsTrueAlways == VsamSpec => []VsamIsTrue
<1>1. VsInv => VsamIsTrue
  <2> SUFFICES ASSUME VsInv PROVE VsamIsTrue
    OBVIOUS
  <2>1. RplRestored
    BY DEF VsInv, Sound, RplRestored, RplOK
  <2>2. QED BY <2>1 DEF VsInv, VsamIsTrue
<1>2. QED BY <1>1, VsInvAlways, PTL

(* The storage of a handle and its open ACB are given back once, by the    *)
(* close or by the open that fails at any of its requests; nothing else is *)
(* held.                                                                   *)
THEOREM VsamLosesNothing == VsamSpec => [](ledger.held = VsamOwns /\ ~ ledger.twice)
<1>1. VsInv => ledger.held = VsamOwns /\ ~ ledger.twice
  BY DEF VsInv, Sound
<1>2. QED BY <1>1, VsInvAlways, PTL
=============================================================================
