---------------------------- MODULE SocketProofs ----------------------------
(***************************************************************************)
(* What is proved of the sockets of a program, for any tasks, numbers and  *)
(* addresses.                                                              *)
(***************************************************************************)
EXTENDS Sockets, ArrayProofs
LOCAL INSTANCE SequencesExt

(* The parts of so, of a call of a thread and of a socket of the emulator. *)
SoParts == {"host", "array", "entries", "sockinit", "ended", "doing", "lost", "unlisted", "mixed", "wild"}
Shape(f, parts) == f = [x \in parts |-> f[x]]
Task(d) == Shape(d, {"step", "ss", "name", "peer", "at"})
Host(h) == Shape(h, {"open", "own", "name", "given", "peer"})
Hosts(c) == Shape(c.host, SoNumbers) /\ \A ss \in SoNumbers : Host(c.host[ss])
Tasks(c) == Shape(c.doing, SoTasks) /\ \A t \in SoTasks : Task(c.doing[t])

(* The list and its entries are one to one, and what is held is the block  *)
(* of the list, the entries and those that could not be listed.            *)
SoBlocks(c) ==
    /\ ArrayOK(c.array) /\ Shape(c.entries, DOMAIN c.entries)
    /\ \A i \in 1 .. c.array.count : c.array.slots[i] \in DOMAIN c.entries
    /\ \A i, j \in 1 .. c.array.count : c.array.slots[i] = c.array.slots[j] => i = j
    /\ \A at \in DOMAIN c.entries : OfKind("socket", at) /\ \E i \in 1 .. c.array.count : c.array.slots[i] = at
    /\ \A at \in c.unlisted : OfKind("socket", at) /\ at \notin DOMAIN c.entries
SoHolds(c, held) == SoBlocks(c) /\ held = OwnsSockets(c) \ {NULL} /\ IsFiniteSet(held)

(* A call, and so between calls. *)
SoCallOK(c) == IsCall(c) /\ SoParts \subseteq DOMAIN c /\ SoHolds(c, c.held) /\ Hosts(c) /\ c.twice = FALSE
SoStored ==
    /\ Shape(so, SoParts) /\ Hosts(so) /\ Tasks(so)
    /\ SoHolds(so, ledger.held) /\ ledger.twice = FALSE

LEMMA SoCallFacts ==
    ASSUME SoStored, NEW faults
    PROVE  LET c == SoCall(faults)
           IN  SoCallOK(c) /\ \A x \in SoParts : c[x] = so[x]
<1> DEFINE c == SoCall(faults)
<1>1. DOMAIN so = SoParts
  BY DEF SoStored, Shape
<1>2. DOMAIN c = SoParts \cup {"held", "twice", "n", "faults", "got", "err"}
  BY <1>1 DEF SoCall, Begin, SoParts
<1>3. c = [x \in DOMAIN c |-> c[x]] /\ c.held = ledger.held /\ c.twice = ledger.twice
      /\ \A x \in SoParts : c[x] = so[x]
  BY <1>1 DEF SoCall, Begin, SoParts
<1> HIDE DEF c
<1>4. SoParts \subseteq DOMAIN c /\ Used \subseteq DOMAIN c
  BY <1>2 DEF Used, SoParts
<1>5. SoHolds(c, c.held)
  <2>1. c.array = so.array /\ c.entries = so.entries /\ c.unlisted = so.unlisted
    BY <1>3 DEF SoParts
  <2>2. QED BY <1>3, <2>1 DEF SoStored, SoHolds, SoBlocks, OwnsSockets
<1>6. Hosts(c)
  <2>1. c.host = so.host
    BY <1>3 DEF SoParts
  <2>2. QED BY <2>1 DEF SoStored, Hosts
<1>7. QED BY <1>3, <1>4, <1>5, <1>6 DEF SoStored, SoHolds, SoCallOK, IsCall, c

(* A step of a thread stores what its call has. *)
Gone(c, t, d) ==
    /\ SoStored' /\ result' = result
    /\ \A x \in SoParts \ {"doing"} : so'[x] = c[x]
    /\ so'.doing[t] = d /\ \A u \in SoTasks \ {t} : so'.doing[u] = so.doing[u]

LEMMA GoFacts ==
    ASSUME SoStored, NEW c, SoCallOK(c), c.doing = so.doing, NEW t \in SoTasks, NEW d, Task(d), Go(c, t, d)
    PROVE  Gone(c, t, d)
<1>1. DOMAIN so = SoParts
  BY DEF SoStored, Shape
<1>2. so' = [f \in SoParts |-> IF f = "doing" THEN [c.doing EXCEPT ![t] = d] ELSE c[f]]
      /\ ledger' = [held |-> c.held, twice |-> c.twice] /\ result' = result
  BY <1>1 DEF Go
<1>3. Shape(so', SoParts) /\ so'.doing = [so.doing EXCEPT ![t] = d] /\ \A x \in SoParts \ {"doing"} : so'[x] = c[x]
  BY <1>2 DEF Shape, SoParts
<1>4. so'.host = c.host /\ so'.array = c.array /\ so'.entries = c.entries /\ so'.unlisted = c.unlisted
  BY <1>3 DEF SoParts
<1>5. Shape(so'.doing, SoTasks) /\ so'.doing[t] = d /\ \A u \in SoTasks \ {t} : so'.doing[u] = so.doing[u]
  BY <1>3 DEF SoStored, Tasks, Shape
<1>6. Tasks(so)'
  BY <1>5 DEF SoStored, Tasks
<1>7. Hosts(so)'
  BY <1>4 DEF SoCallOK, Hosts
<1>8. SoHolds(so, ledger.held)' /\ ledger'.twice = FALSE
  <2>1. ledger'.held = c.held /\ ledger'.twice = c.twice
    BY <1>2
  <2>2. SoBlocks(so)'
    BY <1>4 DEF SoCallOK, SoHolds, SoBlocks
  <2>3. OwnsSockets(so)' = OwnsSockets(c)
    BY <1>4 DEF OwnsSockets
  <2>4. QED BY <2>1, <2>2, <2>3 DEF SoCallOK, SoHolds
<1>9. SoStored'
  BY <1>3, <1>6, <1>7, <1>8 DEF SoStored
<1>10. QED BY <1>2, <1>3, <1>5, <1>9 DEF Gone

LEMMA TaskFacts == Task(SoIdle) /\ \A t, step, ss, name, peer, at : Task(SoAt(t, step, ss, name, peer, at))
BY DEF Task, Shape, SoIdle, SoAt

----------------------------------------------------------------------------
(* The list. *)

SoEntries(c, ss) == {at \in DOMAIN c.entries : c.entries[at].socket = ss}

(* __sofind() finds an entry of the number when there is one. *)
LEMMA FindFacts ==
    ASSUME NEW c, SoBlocks(c), NEW ss
    PROVE  /\ SoEntries(c, ss) = {} => __sofind(c, ss) = 0 /\ Entry(c, ss) = NULL
           /\ SoEntries(c, ss) # {} =>
                 /\ __sofind(c, ss) \in 1 .. c.array.count
                 /\ Entry(c, ss) = c.array.slots[__sofind(c, ss)]
                 /\ Entry(c, ss) \in SoEntries(c, ss) /\ Entry(c, ss) # NULL
<1> DEFINE S == Places(c, ss)
           P(i) == \A j \in S : i =< j
<1>1. \A at \in SoEntries(c, ss) : \E i \in S : c.array.slots[i] = at
  BY DEF SoEntries, SoBlocks, Places
<1>2. \A i \in S : i \in 1 .. c.array.count /\ c.array.slots[i] \in SoEntries(c, ss)
  BY DEF SoEntries, SoBlocks, Places
<1>3. CASE SoEntries(c, ss) = {}
  <2>1. S = {}
    BY <1>2, <1>3
  <2>2. QED BY <1>3, <2>1 DEF __sofind, Entry
<1>4. CASE SoEntries(c, ss) # {}
  <2>1. S # {} /\ S \subseteq Nat
    BY <1>1, <1>2, <1>4 DEF SoBlocks, ArrayOK
  <2>2. \E i \in S : P(i)
    <3> HIDE DEF S
    <3>1. QED BY <2>1, Least
  <2>3. __sofind(c, ss) = CHOOSE i \in S : P(i)
    BY <2>1 DEF __sofind
  <2> HIDE DEF P, S
  <2>4. __sofind(c, ss) \in S
    BY <2>2, <2>3
  <2>5. __sofind(c, ss) # 0
    BY <1>2, <2>4
  <2>6. Entry(c, ss) = c.array.slots[__sofind(c, ss)]
    BY <2>5 DEF Entry
  <2>7. \A at \in SoEntries(c, ss) : at # NULL
    BY NullFacts DEF SoEntries, SoBlocks
  <2>8. QED BY <1>2, <1>4, <2>4, <2>6, <2>7
<1>5. QED BY <1>3, <1>4

(* What is not the list's or the ledger's may change. *)
LEMMA OtherParts ==
    ASSUME NEW c, SoCallOK(c), NEW d, IsCall(d), DOMAIN d = DOMAIN c, Hosts(d),
           \A x \in {"held", "twice", "array", "entries", "unlisted"} : d[x] = c[x]
    PROVE  SoCallOK(d)
<1>1. SoBlocks(c) /\ c.held = OwnsSockets(c) \ {NULL} /\ IsFiniteSet(c.held) /\ c.twice = FALSE /\ SoParts \subseteq DOMAIN c
  BY DEF SoCallOK, SoHolds
<1>2. SoBlocks(d)
  BY <1>1 DEF SoBlocks
<1>3. OwnsSockets(d) = OwnsSockets(c)
  BY DEF OwnsSockets
<1>4. QED BY <1>1, <1>2, <1>3 DEF SoCallOK, SoHolds

Includes(c, d, at, s) ==
    /\ at \notin DOMAIN c.entries /\ DOMAIN d.entries = DOMAIN c.entries \cup {at}
    /\ d.entries[at] = s /\ \A e \in DOMAIN c.entries : d.entries[e] = c.entries[e]
Excludes(c, d, at) ==
    /\ DOMAIN d.entries = DOMAIN c.entries \ {at}
    /\ \A e \in DOMAIN d.entries : d.entries[e] = c.entries[e]

(* __soadd() lists the socket, or loses it. *)
Added(c, d, ss, s) ==
    /\ SoCallOK(d)
    /\ \A x \in SoParts \ {"array", "entries", "lost", "unlisted"} : d[x] = c[x]
    /\ \/ d.lost = c.lost /\ \E at : Includes(c, d, at, s)
       \/ d.lost = c.lost \cup {ss} /\ d.entries = c.entries

LEMMA SoAddFacts ==
    ASSUME NEW c, SoCallOK(c), NEW ss, NEW name, NEW peer
    PROVE  Added(c, __soadd(c, ss, name, peer), ss, NewSocket(ss, name, peer))
<1> DEFINE s == NewSocket(ss, name, peer)
           e == Obtain(c, "socket")
           at == e.got
           f == [e EXCEPT !.entries = WithEntry(e.entries, at, s)]
           g == arrayadd(f, at)
           d == __soadd(c, ss, name, peer)
<1>1. IsCall(c) /\ SoParts \subseteq DOMAIN c /\ SoBlocks(c) /\ Hosts(c) /\ c.twice = FALSE
      /\ c.held = OwnsSockets(c) \ {NULL}
  BY DEF SoCallOK, SoHolds
<1>2. /\ IsCall(e) /\ Frame(c, e) /\ Obtained(c, e, "socket")
      /\ e.array = c.array /\ e.err = c.err /\ e.twice = c.twice
  BY <1>1, ObtainFacts
<1>3. DOMAIN e = DOMAIN c /\ \A x \in SoParts : e[x] = c[x]
  BY <1>1, <1>2 DEF Frame, Used, SoParts
<1>4. d = AddSocket(e, ss, name, peer)
  BY DEF __soadd
<1> HIDE DEF d, e, s
<1>5. CASE at = NULL
  <2> DEFINE z == [e EXCEPT !.lost = e.lost \cup {ss}]
  <2>1. d = z
    BY <1>4, <1>5 DEF AddSocket
  <2>2. /\ DOMAIN z = DOMAIN e /\ z = [x \in DOMAIN z |-> z[x]] /\ z.lost = c.lost \cup {ss}
        /\ \A x \in DOMAIN e \ {"lost"} : z[x] = e[x]
    BY <1>1, <1>2, <1>3 DEF IsCall, SoParts
  <2> HIDE DEF z
  <2>3. z.held = c.held /\ z.twice = c.twice /\ \A x \in SoParts \ {"lost"} : z[x] = c[x]
    BY <1>1, <1>2, <1>3, <1>5, <2>2 DEF Obtained, IsCall, Used, SoParts
  <2>4. IsCall(z)
    BY <1>1, <1>2, <2>2, <2>3 DEF IsCall, Used
  <2>5. Hosts(z) /\ z.array = c.array /\ z.entries = c.entries /\ z.unlisted = c.unlisted
    BY <1>1, <2>3 DEF Hosts, SoParts
  <2>6. SoCallOK(z)
    BY <1>3, <2>2, <2>3, <2>4, <2>5, OtherParts
  <2>7. QED BY <2>1, <2>2, <2>3, <2>5, <2>6 DEF Added, d, s
<1>6. CASE at # NULL
  <2>1. OfKind("socket", at) /\ at \notin c.held /\ e.held = c.held \cup {at}
    BY <1>2, <1>6 DEF Obtained
  <2>2. at \notin DOMAIN c.entries /\ at \notin c.unlisted /\ at # c.array.block
    BY <1>1, <1>6, <2>1 DEF OwnsSockets
  <2>3. /\ DOMAIN f = DOMAIN e /\ f = [x \in DOMAIN f |-> f[x]] /\ f.entries = WithEntry(c.entries, at, s)
        /\ \A x \in DOMAIN e \ {"entries"} : f[x] = e[x]
    BY <1>1, <1>2, <1>3 DEF IsCall, SoParts
  <2> HIDE DEF f
  <2>4. f.held = c.held \cup {at} /\ f.twice = FALSE /\ f.array = c.array /\ IsCall(f)
    BY <1>1, <1>2, <1>3, <2>1, <2>3 DEF IsCall, Used
  <2>5. NULL \notin f.held /\ (f.array.block = NULL \/ f.array.block \in f.held)
    BY <1>1, <1>6, <2>4 DEF OwnsSockets
  <2>6. /\ IsCall(g) /\ Frame(f, g) /\ g.twice = f.twice /\ g.err \in {0, -1}
        /\ ArrayOK(g.array) /\ Moves(f, g)
        /\ g.err # 0 => g.array = f.array /\ g.held = f.held
        /\ g.err = 0 => /\ g.array.block # NULL /\ g.array.count = c.array.count + 1
                        /\ g.array.slots[c.array.count + 1] = at
                        /\ \A i \in 1 .. c.array.count : g.array.slots[i] = c.array.slots[i]
    <3>1. ArrayOK(f.array) /\ Holds(f)
      BY <1>1, <2>4, <2>5 DEF SoBlocks, Holds
    <3>2. QED BY <2>4, <3>1, AddFacts
  <2> HIDE DEF g
  <2>7. DOMAIN g = DOMAIN c /\ \A x \in SoParts \ {"array", "entries"} : g[x] = c[x]
    BY <1>1, <1>3, <2>3, <2>6 DEF Frame, Used, SoParts
  <2>8. g.entries = WithEntry(c.entries, at, s)
    BY <1>1, <1>3, <2>3, <2>6 DEF Frame, Used, SoParts
  <2>9. d = AddedSocket(g, at, ss)
    BY <1>3, <1>4, <1>6 DEF AddSocket, s, f, g
  <2>10. CASE g.err = 0
    <3>1. d = g
      BY <2>9, <2>10 DEF AddedSocket
    <3>2. Includes(c, g, at, s) /\ Shape(g.entries, DOMAIN g.entries)
      BY <2>2, <2>8 DEF WithEntry, Includes, Shape
    <3>3. SoBlocks(g)
      <4> DEFINE n == c.array.count
      <4>1. n \in Nat /\ g.array.count = n + 1 /\ g.array.slots[n + 1] = at
            /\ \A i \in 1 .. n : g.array.slots[i] = c.array.slots[i]
        BY <1>1, <2>6, <2>10 DEF SoBlocks, ArrayOK
      <4>2. /\ \A i \in 1 .. n : c.array.slots[i] \in DOMAIN c.entries
            /\ \A i, j \in 1 .. n : c.array.slots[i] = c.array.slots[j] => i = j
            /\ \A a \in DOMAIN c.entries : OfKind("socket", a) /\ \E i \in 1 .. n : c.array.slots[i] = a
            /\ \A a \in c.unlisted : OfKind("socket", a) /\ a \notin DOMAIN c.entries
        BY <1>1 DEF SoBlocks
      <4>3. DOMAIN g.entries = DOMAIN c.entries \cup {at} /\ at \notin DOMAIN c.entries /\ g.unlisted = c.unlisted
        BY <2>7, <3>2 DEF Includes, SoParts
      <4> HIDE DEF n
      <4>4. \A i : i \in 1 .. n + 1 <=> i \in 1 .. n \/ i = n + 1
        BY <4>1
      <4>5. n + 1 \notin 1 .. n
        BY <4>1
      <4>6. \A i \in 1 .. n + 1 : g.array.slots[i] \in DOMAIN g.entries
        BY <4>1, <4>2, <4>3, <4>4
      <4>7. \A i, j \in 1 .. n + 1 : g.array.slots[i] = g.array.slots[j] => i = j
        BY <4>1, <4>2, <4>3, <4>4
      <4>8. \A a \in DOMAIN g.entries : OfKind("socket", a) /\ \E i \in 1 .. n + 1 : g.array.slots[i] = a
        BY <2>1, <4>1, <4>2, <4>3, <4>4
      <4>9. \A a \in g.unlisted : OfKind("socket", a) /\ a \notin DOMAIN g.entries
        BY <2>2, <4>2, <4>3
      <4>10. QED BY <2>6, <3>2, <4>1, <4>6, <4>7, <4>8, <4>9 DEF SoBlocks
    <3>4. g.held = OwnsSockets(g) \ {NULL}
      <4>1. DOMAIN g.entries = DOMAIN c.entries \cup {at} /\ g.unlisted = c.unlisted
        BY <2>7, <3>2 DEF Includes, SoParts
      <4>2. f.held = ({c.array.block} \cup DOMAIN c.entries \cup c.unlisted \cup {at}) \ {NULL}
        BY <1>1, <1>6, <2>4 DEF OwnsSockets
      <4>3. CASE g.array.block = c.array.block /\ g.held = f.held
        BY <4>1, <4>2, <4>3 DEF OwnsSockets
      <4>4. CASE g.array.block # NULL /\ g.held = (f.held \ {c.array.block}) \cup {g.array.block}
        <5>1. c.array.block \notin DOMAIN c.entries \cup c.unlisted \cup {at}
          <6>1. c.array.block = NULL \/ OfKind("array", c.array.block)
            BY <1>1 DEF SoBlocks, ArrayOK
          <6>2. \A a \in DOMAIN c.entries \cup c.unlisted \cup {at} : OfKind("socket", a)
            BY <1>1, <2>1 DEF SoBlocks
          <6>3. QED BY <6>1, <6>2, NullFacts, KindFacts
        <5>2. QED BY <4>1, <4>2, <4>4, <5>1 DEF OwnsSockets
      <4>5. QED BY <2>4, <2>6, <4>3, <4>4 DEF Moves
    <3>5. Hosts(g)
      BY <1>1, <2>7 DEF Hosts, SoParts
    <3>6. SoCallOK(g)
      BY <1>1, <2>4, <2>6, <2>7, <3>3, <3>4, <3>5 DEF SoCallOK, SoHolds, IsCall
    <3>7. g.lost = c.lost
      BY <2>7 DEF SoParts
    <3>8. QED BY <2>7, <3>1, <3>2, <3>6, <3>7 DEF Added, d, s
  <2>11. CASE g.err # 0
    <3> DEFINE w == [a \in DOMAIN g.entries \ {at} |-> g.entries[a]]
               z == [g EXCEPT !.lost = g.lost \cup {ss}, !.unlisted = g.unlisted \cup {at}, !.entries = w]
    <3>1. d = z
      BY <2>9, <2>11 DEF AddedSocket
    <3>2. w = c.entries
      <4>1. DOMAIN g.entries = DOMAIN c.entries \cup {at} /\ \A a \in DOMAIN c.entries : g.entries[a] = c.entries[a]
        BY <2>2, <2>8 DEF WithEntry
      <4>2. DOMAIN g.entries \ {at} = DOMAIN c.entries
        BY <2>2, <4>1
      <4>3. w = [a \in DOMAIN c.entries |-> c.entries[a]]
        BY <4>1, <4>2
      <4>4. QED BY <1>1, <4>3 DEF SoBlocks, Shape
    <3> HIDE DEF w
    <3>3. /\ DOMAIN z = DOMAIN g /\ z = [x \in DOMAIN z |-> z[x]] /\ z.lost = c.lost \cup {ss}
          /\ z.unlisted = c.unlisted \cup {at} /\ z.entries = c.entries
          /\ \A x \in DOMAIN g \ {"lost", "unlisted", "entries"} : z[x] = g[x]
      BY <1>1, <2>6, <2>7, <3>2 DEF IsCall, SoParts
    <3> HIDE DEF z
    <3>4. z.held = c.held \cup {at} /\ z.array = c.array /\ z.twice = FALSE /\ IsCall(z)
      BY <2>4, <2>6, <2>11, <3>3 DEF IsCall, Used
    <3>5. \A x \in SoParts \ {"array", "entries", "lost", "unlisted"} : z[x] = c[x]
      BY <1>1, <2>7, <3>3
    <3>6. Hosts(z)
      BY <1>1, <3>5 DEF Hosts, SoParts
    <3>7. SoBlocks(z)
      BY <1>1, <2>1, <2>2, <3>3, <3>4 DEF SoBlocks
    <3>8. z.held = OwnsSockets(z) \ {NULL}
      BY <1>1, <1>6, <3>3, <3>4 DEF OwnsSockets
    <3>9. SoCallOK(z)
      BY <1>1, <2>7, <3>3, <3>4, <3>6, <3>7, <3>8 DEF SoCallOK, SoHolds, IsCall
    <3>10. QED BY <3>1, <3>3, <3>5, <3>9 DEF Added, d, s
  <2>12. QED BY <2>10, <2>11
<1>7. QED BY <1>5, <1>6

(* __sodel() takes out one entry of the number, if there is one. *)
Deleted(c, d, ss) ==
    /\ SoCallOK(d)
    /\ \A x \in SoParts \ {"array", "entries"} : d[x] = c[x]
    /\ IF SoEntries(c, ss) = {} THEN d.entries = c.entries
       ELSE \E at \in SoEntries(c, ss) : Excludes(c, d, at)

LEMMA SoDelFacts ==
    ASSUME NEW c, SoCallOK(c), NEW ss
    PROVE  Deleted(c, __sodel(c, ss), ss)
<1> DEFINE k == __sofind(c, ss)
           n == c.array.count
           at == c.array.slots[k]
           e == arraydel(c, k)
           r == Release(e, at)
           w == [a \in DOMAIN c.entries \ {at} |-> c.entries[a]]
           d == __sodel(c, ss)
<1>1. IsCall(c) /\ SoParts \subseteq DOMAIN c /\ SoBlocks(c) /\ Hosts(c) /\ c.twice = FALSE
      /\ c.held = OwnsSockets(c) \ {NULL}
  BY DEF SoCallOK, SoHolds
<1>2. CASE SoEntries(c, ss) = {}
  <2>1. k = 0
    BY <1>1, <1>2, FindFacts
  <2>2. d = c
    BY <2>1 DEF __sodel
  <2>3. QED BY <1>2, <2>2 DEF Deleted
<1>3. CASE SoEntries(c, ss) # {}
  <2>1. k \in 1 .. n /\ Entry(c, ss) = at /\ at \in SoEntries(c, ss) /\ at # NULL
    BY <1>1, <1>3, FindFacts
  <2>2. n \in Nat /\ ArrayOK(c.array)
    BY <1>1 DEF SoBlocks, ArrayOK
  <2> HIDE DEF k
  <2>3. /\ IsCall(e) /\ DOMAIN e = DOMAIN c
        /\ \A x \in DOMAIN c \ {"got", "array"} : e[x] = c[x]
        /\ e.got = at /\ ArrayOK(e.array)
        /\ e.array.block = c.array.block /\ e.array.count = n - 1
        /\ \A i \in 1 .. n - 1 : e.array.slots[i] = IF i < k THEN c.array.slots[i] ELSE c.array.slots[i + 1]
    BY <1>1, <2>1, <2>2, DelFacts
  <2>4. d = DropEntry(e)
    BY <2>1, <2>2 DEF __sodel, k
  <2> HIDE DEF e
  <2>5. at \in e.held /\ NULL \notin e.held
    BY <1>1, <2>1, <2>3 DEF OwnsSockets, SoEntries, IsCall, Used
  <2>6. /\ IsCall(r) /\ DOMAIN r = DOMAIN e /\ r.held = e.held \ {at}
        /\ \A x \in DOMAIN e \ {"held"} : r[x] = e[x]
    BY <2>3, <2>5, ReleaseFacts
  <2> HIDE DEF r
  <2> DEFINE z == [r EXCEPT !.entries = w]
  <2>7. r.entries = c.entries /\ e.entries = c.entries
    BY <1>1, <2>3, <2>6 DEF SoParts
  <2>8. d = z
    BY <2>1, <2>3, <2>4, <2>7 DEF DropEntry, r
  <2>9. /\ DOMAIN z = DOMAIN r /\ z = [x \in DOMAIN z |-> z[x]] /\ z.entries = w
        /\ \A x \in DOMAIN r \ {"entries"} : z[x] = r[x]
    BY <1>1, <2>3, <2>6 DEF IsCall, SoParts
  <2> HIDE DEF z
  <2>10. /\ z.held = c.held \ {at} /\ z.array = e.array /\ z.twice = FALSE /\ IsCall(z)
         /\ \A x \in SoParts \ {"array", "entries"} : z[x] = c[x]
    BY <1>1, <2>3, <2>6, <2>9 DEF IsCall, Used, SoParts
  <2>11. DOMAIN w = DOMAIN c.entries \ {at} /\ Shape(w, DOMAIN w) /\ \A a \in DOMAIN w : w[a] = c.entries[a]
    BY DEF Shape
  <2>12. at \in DOMAIN c.entries /\ OfKind("socket", at)
    BY <1>1, <2>1 DEF SoEntries, SoBlocks
  <2>13. Excludes(c, z, at)
    BY <2>9, <2>11 DEF Excludes
  <2> HIDE DEF w
  <2>14. SoBlocks(z)
    <3> DEFINE q(i) == IF i < k THEN i ELSE i + 1
    <3>1. /\ \A i \in 1 .. n : c.array.slots[i] \in DOMAIN c.entries
          /\ \A i, j \in 1 .. n : c.array.slots[i] = c.array.slots[j] => i = j
          /\ \A a \in DOMAIN c.entries : OfKind("socket", a) /\ \E i \in 1 .. n : c.array.slots[i] = a
          /\ \A a \in c.unlisted : OfKind("socket", a) /\ a \notin DOMAIN c.entries
      BY <1>1 DEF SoBlocks
    <3> HIDE DEF n
    <3>2. \A i \in 1 .. n - 1 : q(i) \in 1 .. n /\ q(i) # k
      BY <2>1, <2>2
    <3>3. \A i, j \in 1 .. n - 1 : q(i) = q(j) => i = j
      BY <2>1, <2>2
    <3>4. \A i \in 1 .. n : i # k => \E j \in 1 .. n - 1 : q(j) = i
      <4> SUFFICES ASSUME NEW i \in 1 .. n, i # k PROVE \E j \in 1 .. n - 1 : q(j) = i
        OBVIOUS
      <4>1. CASE i < k
        <5>1. i \in 1 .. n - 1 /\ q(i) = i
          BY <2>1, <2>2, <4>1
        <5>2. QED BY <5>1
      <4>2. CASE i > k
        <5>1. i - 1 \in 1 .. n - 1 /\ q(i - 1) = i
          BY <2>1, <2>2, <4>2
        <5>2. QED BY <5>1
      <4>3. QED BY <2>1, <2>2, <4>1, <4>2
    <3>5. \A i \in 1 .. n - 1 : z.array.slots[i] = c.array.slots[q(i)]
      BY <2>3, <2>10
    <3> HIDE DEF q
    <3>6. \A i \in 1 .. n - 1 : z.array.slots[i] \in DOMAIN z.entries
      BY <2>1, <2>9, <2>11, <3>1, <3>2, <3>5
    <3>7. \A i, j \in 1 .. n - 1 : z.array.slots[i] = z.array.slots[j] => i = j
      BY <3>1, <3>2, <3>3, <3>5
    <3>8. \A a \in DOMAIN z.entries : OfKind("socket", a) /\ \E i \in 1 .. n - 1 : z.array.slots[i] = a
      <4> SUFFICES ASSUME NEW a \in DOMAIN z.entries
                   PROVE  OfKind("socket", a) /\ \E i \in 1 .. n - 1 : z.array.slots[i] = a
        OBVIOUS
      <4>1. a \in DOMAIN c.entries /\ a # at
        BY <2>9, <2>11
      <4>2. PICK i \in 1 .. n : c.array.slots[i] = a
        BY <3>1, <4>1
      <4>3. PICK j \in 1 .. n - 1 : q(j) = i
        BY <3>4, <4>1, <4>2
      <4>4. QED BY <3>1, <3>5, <4>1, <4>2, <4>3
    <3>9. z.unlisted = c.unlisted
      BY <2>10 DEF SoParts
    <3>10. z.array.count = n - 1 /\ ArrayOK(z.array)
      BY <2>3, <2>10 DEF n
    <3>11. QED BY <2>9, <2>11, <3>1, <3>6, <3>7, <3>8, <3>9, <3>10 DEF SoBlocks
  <2>15. z.held = OwnsSockets(z) \ {NULL}
    <3>1. c.array.block # at /\ at \notin c.unlisted
      <4>1. c.array.block = NULL \/ OfKind("array", c.array.block)
        BY <2>2 DEF ArrayOK
      <4>2. QED BY <1>1, <2>1, <2>12, <4>1, KindFacts DEF SoBlocks
    <3>2. z.unlisted = c.unlisted /\ z.array.block = c.array.block /\ DOMAIN z.entries = DOMAIN c.entries \ {at}
      BY <2>3, <2>9, <2>10, <2>11 DEF SoParts
    <3> HIDE DEF at
    <3>3. QED BY <1>1, <2>10, <3>1, <3>2 DEF OwnsSockets
  <2>16. Hosts(z)
    BY <1>1, <2>10 DEF Hosts, SoParts
  <2>17. SoCallOK(z)
    BY <1>1, <2>3, <2>6, <2>9, <2>10, <2>14, <2>15, <2>16 DEF SoCallOK, SoHolds, IsCall
  <2>18. QED BY <1>3, <2>1, <2>8, <2>10, <2>13, <2>17 DEF Deleted, d
<1>4. QED BY <1>2, <1>3

(* __soupd() writes the entry it found, if it is still there. *)
Wrote(c, d, w) ==
    \/ w.at = NULL /\ d.entries = c.entries /\ d.mixed = c.mixed /\ d.wild = c.wild
    \/ /\ w.at # NULL /\ w.at \notin DOMAIN c.entries /\ d.entries = c.entries /\ d.mixed = c.mixed
       /\ d.wild = (c.wild \/ w.ss \notin c.mixed \cup c.lost)
    \/ /\ w.at \in DOMAIN c.entries /\ DOMAIN d.entries = DOMAIN c.entries /\ d.wild = c.wild
       /\ d.entries[w.at] = Rewritten(c.entries[w.at], w.name, w.peer)
       /\ \A e \in DOMAIN c.entries \ {w.at} : d.entries[e] = c.entries[e]
       /\ d.mixed = c.mixed \cup Mixed(c, w.ss, w.at)
Put(c, d, w) == SoCallOK(d) /\ (\A x \in SoParts \ {"entries", "mixed", "wild"} : d[x] = c[x]) /\ Wrote(c, d, w)

LEMMA PutFacts ==
    ASSUME NEW c, SoCallOK(c), NEW u
    PROVE  Put(c, PutEntry(c, u.ss, u.at, u.name, u.peer), u)
<1> DEFINE ss == u.ss
           at == u.at
           name == u.name
           peer == u.peer
           d == PutEntry(c, ss, at, name, peer)
<1>1. IsCall(c) /\ SoParts \subseteq DOMAIN c /\ SoBlocks(c) /\ Hosts(c) /\ c.twice = FALSE
      /\ c.held = OwnsSockets(c) \ {NULL}
  BY DEF SoCallOK, SoHolds
<1>2. CASE at = NULL
  <2>1. d = c
    BY <1>2 DEF PutEntry
  <2>2. QED BY <1>2, <2>1 DEF Put, Wrote
<1>3. CASE at # NULL /\ at \notin DOMAIN c.entries
  <2> DEFINE z == [c EXCEPT !.wild = c.wild \/ ss \notin c.mixed \cup c.lost]
  <2>1. d = z
    BY <1>3 DEF PutEntry
  <2>2. /\ DOMAIN z = DOMAIN c /\ z = [x \in DOMAIN z |-> z[x]]
        /\ z.wild = (c.wild \/ ss \notin c.mixed \cup c.lost)
        /\ \A x \in DOMAIN c \ {"wild"} : z[x] = c[x]
    BY <1>1 DEF IsCall, SoParts
  <2> HIDE DEF z
  <2>3. IsCall(z) /\ \A x \in {"held", "twice", "array", "entries", "unlisted", "mixed", "host"} : z[x] = c[x]
    BY <1>1, <2>2 DEF IsCall, Used, SoParts
  <2>4. SoCallOK(z)
    BY <1>1, <2>2, <2>3, OtherParts DEF Hosts
  <2>5. QED BY <1>1, <1>3, <2>1, <2>2, <2>3, <2>4 DEF Put, Wrote, d
<1>4. CASE at # NULL /\ at \in DOMAIN c.entries
  <2> DEFINE w == [c.entries EXCEPT ![at] = Rewritten(@, name, peer)]
             z == [c EXCEPT !.mixed = c.mixed \cup Mixed(c, ss, at), !.entries = w]
  <2>1. d = z
    BY <1>1, <1>4 DEF PutEntry, IsCall, SoParts
  <2>2. DOMAIN w = DOMAIN c.entries /\ Shape(w, DOMAIN w) /\ w[at] = Rewritten(c.entries[at], name, peer)
        /\ \A e \in DOMAIN c.entries \ {at} : w[e] = c.entries[e]
    BY <1>1, <1>4 DEF SoBlocks, Shape
  <2>3. /\ DOMAIN z = DOMAIN c /\ z = [x \in DOMAIN z |-> z[x]]
        /\ z.mixed = c.mixed \cup Mixed(c, ss, at) /\ z.entries = w
        /\ \A x \in DOMAIN c \ {"mixed", "entries"} : z[x] = c[x]
    BY <1>1 DEF IsCall, SoParts
  <2> HIDE DEF z, w
  <2>4. IsCall(z) /\ \A x \in {"held", "twice", "array", "unlisted", "host", "wild"} : z[x] = c[x]
    BY <1>1, <2>3 DEF IsCall, Used, SoParts
  <2>5. SoBlocks(z) /\ OwnsSockets(z) = OwnsSockets(c) /\ Hosts(z)
    BY <1>1, <2>2, <2>3, <2>4 DEF SoBlocks, OwnsSockets, Hosts
  <2>6. SoCallOK(z)
    BY <1>1, <2>3, <2>4, <2>5 DEF SoCallOK, SoHolds, IsCall
  <2>7. QED BY <1>1, <1>4, <2>1, <2>2, <2>3, <2>4, <2>6 DEF Put, Wrote, d
<1>5. QED BY <1>2, <1>3, <1>4

(* __75init() makes the list; a list that was not there had no entries. *)
LEMMA InitFacts ==
    ASSUME NEW c, SoCallOK(c)
    PROVE  LET d == __75init(c)
           IN  SoCallOK(d) /\ \A x \in SoParts \ {"array", "sockinit"} : d[x] = c[x]
<1> DEFINE e == IF c.array.block = NULL THEN arraynew(c, FD_SETSIZE) ELSE c
           z == [e EXCEPT !.sockinit = TRUE]
<1>1. IsCall(c) /\ SoParts \subseteq DOMAIN c /\ SoBlocks(c) /\ Hosts(c) /\ c.twice = FALSE
      /\ c.held = OwnsSockets(c) \ {NULL}
  BY DEF SoCallOK, SoHolds
<1>2. SoCallOK(e) /\ \A x \in SoParts \ {"array", "sockinit"} : e[x] = c[x]
  <2>1. CASE c.array.block # NULL
    BY <2>1
  <2>2. CASE c.array.block = NULL
    <3>1. e = arraynew(c, FD_SETSIZE)
      BY <2>2
    <3>2. c.array = NoArray /\ c.array.count = 0
      BY <1>1, <2>2, EmptyOK DEF SoBlocks, ArrayOK
    <3>3. NULL \notin c.held /\ FD_SETSIZE \in Nat
      BY <1>1, SoAssumption
    <3>4. /\ IsCall(e) /\ Frame(c, e) /\ e.twice = c.twice /\ ArrayOK(e.array) /\ Moves(c, e) /\ e.array.count = 0
      BY <1>1, <3>1, <3>2, <3>3, NewFacts
    <3> HIDE DEF e
    <3>5. DOMAIN e = DOMAIN c /\ \A x \in SoParts \ {"array"} : e[x] = c[x]
      BY <1>1, <3>4 DEF Frame, Used, SoParts
    <3>6. e.entries = c.entries /\ e.unlisted = c.unlisted /\ e.host = c.host
      BY <3>5 DEF SoParts
    <3>7. SoBlocks(e) /\ Hosts(e)
      BY <1>1, <3>2, <3>4, <3>6 DEF SoBlocks, Hosts
    <3>8. e.held = OwnsSockets(e) \ {NULL}
      BY <1>1, <2>2, <3>4, <3>6 DEF OwnsSockets, Moves
    <3>9. SoCallOK(e)
      BY <1>1, <3>4, <3>5, <3>7, <3>8 DEF SoCallOK, SoHolds, IsCall
    <3>10. QED BY <3>5, <3>9
  <2>3. QED BY <2>1, <2>2
<1> HIDE DEF e
<1>3. CASE c.sockinit
  BY <1>3 DEF __75init
<1>4. CASE ~ c.sockinit
  <2>1. __75init(c) = z
    BY <1>4 DEF __75init, e
  <2>2. /\ DOMAIN z = DOMAIN e /\ z = [x \in DOMAIN z |-> z[x]] /\ \A x \in DOMAIN e \ {"sockinit"} : z[x] = e[x]
    BY <1>2 DEF SoCallOK, IsCall
  <2> HIDE DEF z
  <2>3. IsCall(z) /\ \A x \in {"held", "twice", "array", "entries", "unlisted", "host"} : z[x] = e[x]
    BY <1>2, <2>2 DEF SoCallOK, IsCall, Used, SoParts
  <2>4. SoCallOK(z)
    <3>1. Hosts(z)
      BY <1>2, <2>3 DEF Hosts, SoCallOK
    <3>2. QED BY <1>2, <2>2, <2>3, <3>1, OtherParts
  <2>5. \A x \in SoParts \ {"array", "sockinit"} : z[x] = c[x]
    BY <1>2, <2>2 DEF SoCallOK
  <2>6. QED BY <2>1, <2>4, <2>5
<1>5. QED BY <1>3, <1>4

(* The emulator's part of a call changes one socket. *)
HostSet(c, d, ss, h) ==
    DOMAIN d.host = SoNumbers /\ d.host[ss] = h /\ \A s \in SoNumbers \ {ss} : d.host[s] = c.host[s]

LEMMA HostFacts ==
    ASSUME NEW c, SoCallOK(c), NEW ss \in SoNumbers, NEW h, Host(h), NEW d, IsCall(d), DOMAIN d = DOMAIN c,
           d.host = [c.host EXCEPT ![ss] = h],
           \A x \in {"held", "twice", "array", "entries", "unlisted"} : d[x] = c[x]
    PROVE  SoCallOK(d) /\ HostSet(c, d, ss, h)
<1>1. Shape(d.host, SoNumbers) /\ HostSet(c, d, ss, h)
  BY DEF SoCallOK, Hosts, Shape, HostSet
<1>2. Hosts(d)
  BY <1>1 DEF SoCallOK, Hosts, HostSet
<1>3. QED BY <1>1, <1>2, OtherParts

NewHost(name, peer) == [open |-> TRUE, own |-> TRUE, name |-> name, given |-> "", peer |-> peer]
Opened(c, d, ss, h) ==
    /\ SoCallOK(d) /\ \A x \in SoParts \ {"host", "mixed"} : d[x] = c[x]
    /\ HostSet(c, d, ss, h)
    /\ d.mixed = IF SoEntries(c, ss) = {} THEN c.mixed ELSE c.mixed \cup {ss}

LEMMA OpenedFacts ==
    ASSUME NEW c, SoCallOK(c), NEW ss \in SoNumbers, NEW name, NEW peer
    PROVE  Opened(c, HostOpened(c, ss, name, peer), ss, NewHost(name, peer))
<1> DEFINE h == [open |-> TRUE, own |-> TRUE, name |-> name, given |-> "", peer |-> peer]
           m == IF SoEntries(c, ss) = {} THEN c.mixed ELSE c.mixed \cup {ss}
           d == [c EXCEPT !.host = [c.host EXCEPT ![ss] = h], !.mixed = m]
<1>1. IsCall(c) /\ SoParts \subseteq DOMAIN c /\ SoBlocks(c)
  BY DEF SoCallOK, SoHolds
<1>2. m = IF Entry(c, ss) = NULL THEN c.mixed ELSE c.mixed \cup {ss}
  BY <1>1, FindFacts
<1>3. HostOpened(c, ss, name, peer) = d
  BY <1>1, <1>2 DEF HostOpened, IsCall, SoParts
<1>4. Host(h)
  BY DEF Host, Shape
<1> HIDE DEF m, h
<1>5. /\ DOMAIN d = DOMAIN c /\ d = [x \in DOMAIN d |-> d[x]] /\ d.host = [c.host EXCEPT ![ss] = h] /\ d.mixed = m
      /\ \A x \in DOMAIN c \ {"host", "mixed"} : d[x] = c[x]
  BY <1>1 DEF IsCall, SoParts
<1> HIDE DEF d
<1>6. IsCall(d) /\ \A x \in {"held", "twice", "array", "entries", "unlisted"} : d[x] = c[x]
  BY <1>1, <1>5 DEF IsCall, Used, SoParts
<1>7. SoCallOK(d) /\ HostSet(c, d, ss, h)
  BY <1>4, <1>5, <1>6, HostFacts
<1>8. QED BY <1>1, <1>3, <1>5, <1>7 DEF m, h, Opened, NewHost

NamedHost(h, name, given, peer) == [open |-> h.open, own |-> h.own, name |-> name, given |-> given, peer |-> peer]
Renamed(c, d, ss, h) == SoCallOK(d) /\ (\A x \in SoParts \ {"host"} : d[x] = c[x]) /\ HostSet(c, d, ss, h)

LEMMA NamesFacts ==
    ASSUME NEW c, SoCallOK(c), NEW ss \in SoNumbers, NEW name, NEW given, NEW peer
    PROVE  Renamed(c, HostNames(c, ss, name, given, peer), ss, NamedHost(c.host[ss], name, given, peer))
<1> DEFINE h == [open |-> c.host[ss].open, own |-> c.host[ss].own, name |-> name, given |-> given, peer |-> peer]
           d == [c EXCEPT !.host = [c.host EXCEPT ![ss] = h]]
<1>1. IsCall(c) /\ SoParts \subseteq DOMAIN c /\ Shape(c.host, SoNumbers) /\ Host(c.host[ss])
  BY DEF SoCallOK, Hosts
<1>2. HostNames(c, ss, name, given, peer) = d
  <2> DEFINE w == [c.host[ss] EXCEPT !.name = name, !.given = given, !.peer = peer]
  <2>1. w = h
    <3> DEFINE g == c.host[ss]
               parts == {"open", "own", "name", "given", "peer"}
    <3>1. g = [x \in parts |-> g[x]]
      BY <1>1 DEF Host, Shape
    <3> HIDE DEF g
    <3>2. [g EXCEPT !.name = name, !.given = given, !.peer = peer] = [x \in parts |-> h[x]]
      <4> DEFINE v == [g EXCEPT !.name = name, !.given = given, !.peer = peer]
      <4>1. DOMAIN v = parts /\ v = [x \in parts |-> v[x]]
        BY <3>1
      <4>2. v.open = h.open /\ v.own = h.own /\ v.name = h.name /\ v.given = h.given /\ v.peer = h.peer
        BY <3>1 DEF g
      <4> HIDE DEF v, h
      <4>3. \A x \in parts : v[x] = h[x]
        BY <4>2
      <4>4. v = [x \in parts |-> h[x]]
        BY <4>1, <4>3
      <4>5. QED BY <4>4 DEF v
    <3>3. h = [x \in parts |-> h[x]]
      OBVIOUS
    <3>4. QED BY <3>2, <3>3 DEF g
  <2>2. HostNames(c, ss, name, given, peer) = [c EXCEPT !.host = [c.host EXCEPT ![ss] = w]]
    BY <1>1 DEF HostNames, IsCall, SoParts
  <2> HIDE DEF w, h
  <2>3. QED BY <2>1, <2>2
<1>3. Host(h)
  BY DEF Host, Shape
<1> HIDE DEF h
<1>4. /\ DOMAIN d = DOMAIN c /\ d = [x \in DOMAIN d |-> d[x]] /\ d.host = [c.host EXCEPT ![ss] = h]
      /\ \A x \in DOMAIN c \ {"host"} : d[x] = c[x]
  BY <1>1 DEF IsCall, SoParts
<1> HIDE DEF d
<1>5. IsCall(d) /\ \A x \in {"held", "twice", "array", "entries", "unlisted"} : d[x] = c[x]
  BY <1>1, <1>4 DEF IsCall, Used, SoParts
<1>6. SoCallOK(d) /\ HostSet(c, d, ss, h)
  BY <1>3, <1>4, <1>5, HostFacts
<1>7. QED BY <1>1, <1>2, <1>4, <1>6 DEF h, Renamed, NamedHost

Cleared(c, d, ss) ==
    /\ SoCallOK(d) /\ \A x \in SoParts \ {"host", "lost"} : d[x] = c[x]
    /\ HostSet(c, d, ss, NotOpen) /\ d.lost = c.lost \ {ss}

LEMMA ClearFacts ==
    ASSUME NEW c, SoCallOK(c), NEW ss \in SoNumbers
    PROVE  Cleared(c, __75clr(c, ss), ss)
<1> DEFINE d == [c EXCEPT !.host = [c.host EXCEPT ![ss] = NotOpen], !.lost = c.lost \ {ss}]
<1>1. IsCall(c) /\ SoParts \subseteq DOMAIN c
  BY DEF SoCallOK
<1>2. __75clr(c, ss) = d
  BY <1>1 DEF __75clr, IsCall, SoParts
<1>3. Host(NotOpen)
  BY DEF Host, Shape, NotOpen
<1>4. /\ DOMAIN d = DOMAIN c /\ d = [x \in DOMAIN d |-> d[x]] /\ d.host = [c.host EXCEPT ![ss] = NotOpen]
      /\ d.lost = c.lost \ {ss}
      /\ \A x \in DOMAIN c \ {"host", "lost"} : d[x] = c[x]
  BY <1>1 DEF IsCall, SoParts
<1> HIDE DEF d
<1>5. IsCall(d) /\ \A x \in {"held", "twice", "array", "entries", "unlisted"} : d[x] = c[x]
  BY <1>1, <1>4 DEF IsCall, Used, SoParts
<1>6. SoCallOK(d) /\ HostSet(c, d, ss, NotOpen)
  BY <1>3, <1>4, <1>5, HostFacts
<1>7. QED BY <1>1, <1>2, <1>4, <1>6 DEF Cleared
(* __soend() closes every socket that is listed, and leaves nothing but    *)
(* what could not be listed.                                               *)
ListedNumbers(c) == {c.entries[at].socket : at \in DOMAIN c.entries}

AllClosed(c, d) ==
    /\ SoCallOK(d) /\ DOMAIN d.entries = {} /\ d.array.block = NULL
    /\ d.lost = c.lost \ ListedNumbers(c)
    /\ \A ss \in SoNumbers : d.host[ss] = IF ss \in ListedNumbers(c) THEN NotOpen ELSE c.host[ss]
    /\ \A x \in SoParts \ {"host", "array", "entries", "lost"} : d[x] = c[x]

LEMMA SoEndFacts ==
    ASSUME NEW c, SoCallOK(c)
    PROVE  AllClosed(c, __soend(c))
<1> DEFINE n == c.array.count
           its == Items(c)
           rs == Reverse(its)
           r == ReleaseAll(c, rs)
           S == ListedNumbers(c)
           h == [ss \in SoNumbers |-> IF ss \in S THEN NotOpen ELSE c.host[ss]]
           a == [c.array EXCEPT !.count = 0]
           f == [r EXCEPT !.entries = <<>>, !.array = a, !.lost = c.lost \ S, !.host = h]
           d == arrayfree(f)
<1>1. IsCall(c) /\ SoParts \subseteq DOMAIN c /\ SoBlocks(c) /\ Hosts(c) /\ c.twice = FALSE
      /\ c.held = OwnsSockets(c) \ {NULL}
  BY DEF SoCallOK, SoHolds
<1>2. CASE c.array.block = NULL
  <2>1. c.array = NoArray /\ n = 0
    BY <1>1, <1>2, EmptyOK DEF SoBlocks, ArrayOK
  <2>2. 1 .. n = {}
    BY <2>1
  <2>3. DOMAIN c.entries = {}
    BY <1>1, <2>2 DEF SoBlocks
  <2>4. S = {}
    BY <2>3 DEF ListedNumbers
  <2>5. __soend(c) = c
    BY <1>2 DEF __soend
  <2>6. QED BY <1>2, <2>3, <2>4, <2>5 DEF AllClosed
<1>3. CASE c.array.block # NULL
  <2>1. n \in Nat /\ its = [i \in 1 .. n |-> c.array.slots[i]]
    BY <1>1 DEF SoBlocks, ArrayOK, Items
  <2>2. its \in Seq(DOMAIN c.entries) /\ Len(its) = n
    <3>1. its \in [1 .. n -> DOMAIN c.entries]
      BY <1>1, <2>1 DEF SoBlocks
    <3>2. QED BY <2>1, <3>1
  <2>3. rs = [i \in 1 .. n |-> its[(n - i) + 1]]
    BY <2>2 DEF Reverse
  <2>4. Len(rs) = n /\ \A i \in 1 .. n : rs[i] = c.array.slots[(n - i) + 1] /\ (n - i) + 1 \in 1 .. n
    <3>1. \A i \in 1 .. n : (n - i) + 1 \in 1 .. n
      BY <2>1
    <3>2. rs \in [1 .. n -> DOMAIN c.entries]
      <4>1. \A i \in 1 .. n : its[i] \in DOMAIN c.entries
        BY <1>1, <2>1 DEF SoBlocks
      <4> HIDE DEF its, n
      <4>2. QED BY <2>3, <3>1, <4>1
    <3>3. Len(rs) = n
      BY <2>1, <3>2
    <3>4. QED BY <2>1, <2>3, <3>1, <3>3
  <2> HIDE DEF its, rs
  <2>5. \A i \in 1 .. n : rs[i] \in DOMAIN c.entries
    BY <1>1, <2>4 DEF SoBlocks
  <2>6. \A at \in DOMAIN c.entries : \E i \in 1 .. n : rs[i] = at
    <3> SUFFICES ASSUME NEW at \in DOMAIN c.entries PROVE \E i \in 1 .. n : rs[i] = at
      OBVIOUS
    <3>1. PICK i \in 1 .. n : c.array.slots[i] = at
      BY <1>1 DEF SoBlocks
    <3>2. (n - i) + 1 \in 1 .. n /\ (n - ((n - i) + 1)) + 1 = i
      BY <2>1
    <3>3. rs[(n - i) + 1] = at
      BY <2>4, <3>1, <3>2
    <3>4. QED BY <3>2, <3>3
  <2>7. {rs[i] : i \in 1 .. n} = DOMAIN c.entries
    BY <2>5, <2>6
  <2>8. \A i, j \in 1 .. n : rs[i] = rs[j] => i = j
    <3> SUFFICES ASSUME NEW i \in 1 .. n, NEW j \in 1 .. n, rs[i] = rs[j] PROVE i = j
      OBVIOUS
    <3> HIDE DEF n
    <3>1. (n - i) + 1 = (n - j) + 1
      <4>1. \A x, y \in 1 .. n : c.array.slots[x] = c.array.slots[y] => x = y
        BY <1>1 DEF SoBlocks, n
      <4>2. c.array.slots[(n - i) + 1] = c.array.slots[(n - j) + 1] /\ (n - i) + 1 \in 1 .. n /\ (n - j) + 1 \in 1 .. n
        BY <2>4
      <4>3. QED BY <4>1, <4>2
    <3>2. QED BY <2>1, <3>1
  <2>9. NULL \notin c.held /\ DOMAIN c.entries \subseteq c.held
    <3>1. \A at \in DOMAIN c.entries : at # NULL
      BY <1>1, NullFacts DEF SoBlocks
    <3>2. QED BY <1>1, <3>1 DEF OwnsSockets
  <2>10. /\ IsCall(r) /\ DOMAIN r = DOMAIN c /\ r.held = c.held \ DOMAIN c.entries
         /\ \A x \in DOMAIN c \ {"held"} : r[x] = c[x]
    <3> HIDE DEF n
    <3>1. \A i \in 1 .. n : rs[i] = NULL \/ rs[i] \in c.held
      BY <2>5, <2>9
    <3>2. \A i, j \in 1 .. n : rs[i] = rs[j] => i = j \/ rs[i] = NULL
      BY <2>8
    <3>3. n \in Nat /\ Len(rs) = n /\ NULL \notin c.held /\ IsCall(c)
      BY <1>1, <2>1, <2>4, <2>9
    <3>4. /\ IsCall(r) /\ DOMAIN r = DOMAIN c /\ r.held = c.held \ {rs[i] : i \in 1 .. n}
          /\ \A x \in DOMAIN c \ {"held"} : r[x] = c[x]
      BY <3>1, <3>2, <3>3, ReleaseAllFacts
    <3>5. QED BY <2>7, <3>4
  <2> HIDE DEF r
  <2>11. ListedSockets(c) = DOMAIN c.entries
    <3>1. ListedSockets(c) \subseteq DOMAIN c.entries
      BY <1>1 DEF ListedSockets, SoBlocks
    <3>2. DOMAIN c.entries \subseteq ListedSockets(c)
      BY <1>1 DEF ListedSockets, SoBlocks
    <3>3. QED BY <3>1, <3>2
  <2>12. {c.entries[at].socket : at \in ListedSockets(c)} = S
    BY <2>11 DEF ListedNumbers
  <2> HIDE DEF S
  <2>13. r.array = c.array /\ r.lost = c.lost /\ r.host = c.host
    BY <1>1, <2>10 DEF SoParts
  <2>14. Forget(r, S) = f
    BY <1>1, <2>10, <2>13 DEF Forget, IsCall, SoParts
  <2>15. __soend(c) = d
    BY <1>3, <2>12, <2>14 DEF __soend, r, rs, its
  <2>16. /\ DOMAIN f = DOMAIN r /\ f = [x \in DOMAIN f |-> f[x]] /\ f.entries = <<>> /\ f.array = a
         /\ f.lost = c.lost \ S /\ f.host = h
         /\ \A x \in DOMAIN r \ {"entries", "array", "lost", "host"} : f[x] = r[x]
    BY <1>1, <2>10 DEF IsCall, SoParts
  <2> HIDE DEF f
  <2>17. a.block = c.array.block
    <3>1. ArrayRecord(c.array)
      BY <1>1 DEF SoBlocks, ArrayOK
    <3>2. QED BY <3>1 DEF ArrayRecord
  <2>18. f.held = r.held /\ f.twice = FALSE /\ IsCall(f)
    BY <1>1, <2>10, <2>16 DEF IsCall, Used
  <2>19. c.array.block \in r.held
    <3>1. OfKind("array", c.array.block)
      BY <1>1, <1>3 DEF SoBlocks, ArrayOK
    <3>2. c.array.block \notin DOMAIN c.entries
      BY <1>1, <3>1, KindFacts DEF SoBlocks
    <3>3. QED BY <1>1, <1>3, <2>10, <3>2 DEF OwnsSockets
  <2>20. Holds(f)
    BY <2>9, <2>10, <2>16, <2>17, <2>18, <2>19 DEF Holds
  <2>21. /\ IsCall(d) /\ DOMAIN d = DOMAIN f /\ \A x \in DOMAIN f \ {"held", "array", "err"} : d[x] = f[x]
         /\ d.held = f.held \ {c.array.block} /\ d.array = NoArray
    <3> HIDE DEF a, h
    <3>1. f.array.block = c.array.block
      BY <2>16, <2>17
    <3>2. QED BY <1>3, <2>18, <2>20, <3>1, FreeFacts
  <2> HIDE DEF d
  <2>22. d.entries = <<>> /\ d.lost = c.lost \ S /\ d.host = h /\ d.twice = FALSE
    BY <1>1, <2>10, <2>16, <2>18, <2>21 DEF SoParts, IsCall, Used
  <2>23. \A x \in SoParts \ {"host", "array", "entries", "lost"} : d[x] = c[x]
    BY <1>1, <2>10, <2>16, <2>21 DEF SoParts
  <2>24. DOMAIN d.entries = {} /\ Shape(d.entries, DOMAIN d.entries)
    BY <2>22 DEF Shape
  <2>25. Hosts(d)
    <3>1. Shape(h, SoNumbers)
      BY DEF Shape
    <3>2. Host(NotOpen)
      BY DEF Host, Shape, NotOpen
    <3>3. QED BY <1>1, <2>22, <3>1, <3>2 DEF Hosts
  <2>26. d.array.block = NULL /\ d.array.count = 0 /\ ArrayOK(d.array)
    BY <2>21, EmptyOK
  <2>27. SoBlocks(d)
    <3>1. d.unlisted = c.unlisted
      BY <2>23 DEF SoParts
    <3>2. 1 .. d.array.count = {}
      BY <2>26
    <3>3. \A at \in d.unlisted : OfKind("socket", at)
      BY <1>1, <3>1 DEF SoBlocks
    <3>4. QED BY <2>24, <2>26, <3>2, <3>3 DEF SoBlocks
  <2>28. d.held = OwnsSockets(d) \ {NULL}
    <3>1. d.unlisted = c.unlisted
      BY <2>23 DEF SoParts
    <3>2. d.held = (c.held \ DOMAIN c.entries) \ {c.array.block}
      BY <2>10, <2>18, <2>21
    <3>3. c.array.block \notin c.unlisted /\ DOMAIN c.entries \cap c.unlisted = {}
      <4>1. OfKind("array", c.array.block)
        BY <1>1, <1>3 DEF SoBlocks, ArrayOK
      <4>2. QED BY <1>1, <4>1, KindFacts DEF SoBlocks
    <3>4. QED BY <1>1, <2>24, <2>26, <3>1, <3>2, <3>3 DEF OwnsSockets
  <2>29. SoCallOK(d)
    BY <1>1, <2>10, <2>16, <2>21, <2>22, <2>25, <2>27, <2>28 DEF SoCallOK, SoHolds, IsCall
  <2>30. QED BY <2>15, <2>22, <2>23, <2>24, <2>26, <2>29 DEF AllClosed, d, S
<1>4. QED BY <1>2, <1>3

----------------------------------------------------------------------------
(* What the steps of a thread do. *)

Same(parts) == \A x \in parts : so'[x] = so[x]
Others(t) == \A u \in SoTasks \ {t} : so'.doing[u] = so.doing[u]
Listing1 == {"add", "snam", "addnamed"}

(* A number is given: the socket is still to be listed. *)
Opens(t, ss) ==
    /\ so.doing[t].step = "idle" /\ ~ so.host[ss].open
    /\ \E name, peer : HostSet(so, so', ss, NewHost(name, peer))
    /\ so'.doing[t].step \in {"add", "snam"} /\ so'.doing[t].ss = ss /\ so'.doing[t].name = ""
    /\ Same({"entries", "lost", "wild"})
    /\ so'.mixed = IF SoEntries(so, ss) = {} THEN so.mixed ELSE so.mixed \cup {ss}
(* A call that comes to nothing, and a step to another part of a call. *)
Stays(t) == so.doing[t].step = "idle" /\ so'.doing[t].step = "idle" /\ Same({"host", "entries", "lost", "mixed", "wild"})
Passes(t, from, to) ==
    /\ so.doing[t].step = from /\ so'.doing[t].step = to /\ so'.doing[t].ss = so.doing[t].ss
    /\ Same({"host", "entries", "lost", "mixed", "wild"})
Asks(t) == Passes(t, "snam", "addnamed") /\ so'.doing[t].name = __75snam(so, so.doing[t].ss)
Told1(t) == Passes(t, "pnam", "upd") /\ so'.doing[t].name = ""
            /\ so'.doing[t].peer = IF __75pnam(so, so.doing[t].ss) = "" THEN so.doing[t].name ELSE __75pnam(so, so.doing[t].ss)
Meets(t) == Passes(t, "conn", "upd") /\ so'.doing[t].name = __75snam(so, so.doing[t].ss) /\ so'.doing[t].peer = so.doing[t].peer
Finds(t) == Passes(t, "upd", "put") /\ so'.doing[t].name = so.doing[t].name /\ so'.doing[t].peer = so.doing[t].peer
            /\ so'.doing[t].at = Entry(so, so.doing[t].ss)
(* The socket is listed, or cannot be. *)
Lists(t) ==
    LET d == so.doing[t]
    IN  /\ d.step \in {"add", "addnamed"} /\ Same({"host", "mixed", "wild"})
        /\ \/ so'.doing[t].step = "idle"
           \/ so'.doing[t].step = "pnam" /\ so'.doing[t].ss = d.ss /\ so'.doing[t].name = d.name
        /\ \/ so'.lost = so.lost /\ \E at : Includes(so, so', at, NewSocket(d.ss, d.name, ""))
           \/ so'.lost = so.lost \cup {d.ss} /\ so'.entries = so.entries
(* bind() and connect(): the emulator has new addresses of the socket. *)
Names(t, ss, name, given, peer) ==
    /\ so.doing[t].step = "idle" /\ Own(ss) /\ so'.doing[t].ss = ss
    /\ HostSet(so, so', ss, NamedHost(so.host[ss], name, given, peer))
    /\ Same({"entries", "lost", "mixed", "wild"})
Binds(t, ss) ==
    \E name, given :
       /\ Names(t, ss, name, given, so.host[ss].peer) /\ so.host[ss].name = "" /\ name # ""
       /\ so'.doing[t].step = "upd" /\ so'.doing[t].name = given /\ so'.doing[t].peer = ""
Connects(t, ss) ==
    \E name, peer :
       /\ Names(t, ss, name, so.host[ss].given, peer) /\ name # ""
       /\ so.host[ss].name # "" => name = so.host[ss].name
       /\ so.host[ss].peer = ""
       /\ so'.doing[t].step = "conn" /\ so'.doing[t].name = "" /\ so'.doing[t].peer = peer
(* The number is free, and its entry still has to go. *)
Closes(t, ss) ==
    /\ so.doing[t].step = "idle" /\ Own(ss) /\ so.host[ss].own
    /\ HostSet(so, so', ss, NotOpen) /\ so'.lost = so.lost \ {ss}
    /\ so'.doing[t].step = "del" /\ so'.doing[t].ss = ss
    /\ Same({"entries", "mixed", "wild"})
Unlists(t) ==
    LET ss == so.doing[t].ss
    IN  /\ so.doing[t].step = "del" /\ so'.doing[t].step = "idle" /\ Same({"host", "wild"})
        /\ IF SoEntries(so, ss) = {} THEN so'.entries = so.entries ELSE \E at \in SoEntries(so, ss) : Excludes(so, so', at)
        /\ so'.lost = IF so.host[ss].open /\ SoEntries(so', ss) = {} /\ ~ Listing(ss) THEN so.lost \cup {ss} ELSE so.lost
        /\ so'.mixed = IF so.host[ss].open THEN so.mixed ELSE so.mixed \ {ss}
Puts(t) ==
    /\ so.doing[t].step = "put" /\ so'.doing[t].step = "idle" /\ Same({"host", "lost"})
    /\ Wrote(so, so', so.doing[t])

Steps(t) ==
    \/ \E ss \in SoNumbers : Opens(t, ss) \/ Binds(t, ss) \/ Connects(t, ss) \/ Closes(t, ss)
    \/ Stays(t) \/ Asks(t) \/ Told1(t) \/ Meets(t) \/ Finds(t) \/ Lists(t) \/ Unlists(t) \/ Puts(t)
Done(t) == SoStored' /\ result' = result /\ Ready /\ Others(t) /\ Same({"ended"})

LEMMA IdleFacts == SoIdle.step = "idle" /\ Task(SoIdle)
BY TaskFacts DEF SoIdle

(* GoFacts() for a call that changes some parts. *)
Went(c, t, d, parts) ==
    /\ Done(t) /\ so'.doing[t] = d
    /\ \A x \in SoParts \ {"doing"} : so'[x] = c[x]
    /\ \A x \in SoParts \ (parts \cup {"doing"}) : so'[x] = so[x]

LEMMA GoParts ==
    ASSUME SoStored, NEW c, SoCallOK(c), NEW parts, "doing" \notin parts, "ended" \notin parts,
           \A x \in SoParts \ parts : c[x] = so[x],
           NEW t \in SoTasks, NEW d, Task(d), Ready, Go(c, t, d)
    PROVE  Went(c, t, d, parts)
<1>1. c.doing = so.doing /\ c.ended = so.ended
  BY DEF SoParts
<1>2. Gone(c, t, d)
  BY <1>1, GoFacts
<1>3. Done(t)
  BY <1>1, <1>2 DEF Gone, Done, Others, Same, SoParts
<1>4. QED BY <1>2, <1>3 DEF Gone, Went

(* A socket is opened by a call that may have made the list. *)
LEMMA OpenStep ==
    ASSUME SoStored, NEW t \in SoTasks, Ready, so.doing[t].step = "idle",
           NEW c, SoCallOK(c), \A x \in SoParts \ {"array", "sockinit"} : c[x] = so[x],
           NEW ss \in SoNumbers, ~ so.host[ss].open, NEW name, NEW peer, NEW step \in {"add", "snam"},
           Go(HostOpened(c, ss, name, peer), t, SoAt(t, step, ss, "", "", NULL))
    PROVE  Done(t) /\ Steps(t)
<1> DEFINE e == HostOpened(c, ss, name, peer)
           d == SoAt(t, step, ss, "", "", NULL)
           h == NewHost(name, peer)
           parts == {"host", "mixed", "array", "sockinit"}
<1>1. Opened(c, e, ss, h)
  BY OpenedFacts
<1>2. Go(e, t, d)
  OBVIOUS
<1> HIDE DEF e, h
<1>3. Task(d) /\ d.step = step /\ d.ss = ss /\ d.name = ""
  BY DEF SoAt, Task, Shape
<1> HIDE DEF d
<1>4. SoCallOK(e) /\ \A x \in SoParts \ parts : e[x] = so[x]
  BY <1>1 DEF Opened
<1>5. Went(e, t, d, parts)
  BY <1>2, <1>3, <1>4, GoParts
<1>6. c.host = so.host /\ c.mixed = so.mixed /\ c.entries = so.entries
  BY DEF SoParts
<1>7. so'.host = e.host /\ so'.mixed = e.mixed /\ Same({"entries", "lost", "wild"}) /\ so'.doing[t] = d /\ Done(t)
  BY <1>5 DEF Went, Same, SoParts
<1>8. HostSet(so, so', ss, h)
  BY <1>1, <1>6, <1>7 DEF HostSet, Opened
<1>9. SoEntries(c, ss) = SoEntries(so, ss)
  BY <1>6 DEF SoEntries
<1>10. Opens(t, ss)
  BY <1>1, <1>3, <1>6, <1>7, <1>8, <1>9 DEF Opens, Opened, h
<1>11. QED BY <1>7, <1>10 DEF Steps

LEMMA SocketStep == ASSUME SoStored, NEW t \in SoTasks, socket(t) PROVE Done(t) /\ Steps(t)
<1>1. PICK fault \in OneFault(1) :
          LET c == __75init(SoCall(fault))
          IN  \/ \E ss \in SoNumbers : ~so.host[ss].open /\ Go(HostOpened(c, ss, "", ""), t, SoAt(t, "add", ss, "", "", NULL))
              \/ SoDone(c, t)
  BY DEF socket
<1>2. Ready /\ so.doing[t].step = "idle"
  BY IdleFacts DEF socket, CanStart
<1> DEFINE b == SoCall(fault)
           c == __75init(b)
           parts == {"array", "sockinit"}
<1>3. SoCallOK(b) /\ \A x \in SoParts : b[x] = so[x]
  BY SoCallFacts
<1> HIDE DEF b
<1>4. SoCallOK(c) /\ \A x \in SoParts \ parts : c[x] = so[x]
  BY <1>3, InitFacts
<1>5. \/ \E ss \in SoNumbers : ~so.host[ss].open /\ Go(HostOpened(c, ss, "", ""), t, SoAt(t, "add", ss, "", "", NULL))
      \/ Go(c, t, SoIdle)
  BY <1>1 DEF b, SoDone
<1> HIDE DEF c
<1>6. CASE Go(c, t, SoIdle)
  <2>1. Went(c, t, SoIdle, parts)
    BY <1>2, <1>4, <1>6, IdleFacts, GoParts
  <2>2. Stays(t)
    BY <1>2, <2>1, IdleFacts DEF Stays, Same, SoParts, Went
  <2>3. QED BY <2>1, <2>2 DEF Steps, Went
<1>7. ASSUME NEW ss \in SoNumbers, ~so.host[ss].open, Go(HostOpened(c, ss, "", ""), t, SoAt(t, "add", ss, "", "", NULL))
      PROVE  Done(t) /\ Steps(t)
  BY <1>2, <1>4, <1>7, OpenStep
<1>8. QED BY <1>5, <1>6, <1>7

LEMMA AcceptStep == ASSUME SoStored, NEW t \in SoTasks, accept(t) PROVE Done(t) /\ Steps(t)
<1>1. PICK ss \in SoNumbers, name \in SoNames, peer \in SoPeers \cup {""} :
          ~so.host[ss].open /\ Go(HostOpened(SoCall({}), ss, name, peer), t, SoAt(t, "snam", ss, "", "", NULL))
  BY DEF accept
<1>2. Ready /\ so.doing[t].step = "idle"
  BY IdleFacts DEF accept, CanStart
<1>3. SoCallOK(SoCall({})) /\ \A x \in SoParts \ {"array", "sockinit"} : SoCall({})[x] = so[x]
  BY SoCallFacts
<1>4. QED BY <1>1, <1>2, <1>3, OpenStep

(* The steps that only go to another part of a call. *)
LEMMA PassStep ==
    ASSUME SoStored, NEW t \in SoTasks, NEW d, Task(d), Ready, Go(SoCall({}), t, d)
    PROVE  Done(t) /\ so'.doing[t] = d /\ Same({"host", "entries", "lost", "mixed", "wild"})
<1> DEFINE c == SoCall({})
<1>1. SoCallOK(c) /\ \A x \in SoParts : c[x] = so[x]
  BY SoCallFacts
<1>2. Go(c, t, d)
  OBVIOUS
<1> HIDE DEF c
<1>3. Went(c, t, d, {})
  BY <1>1, <1>2, GoParts
<1>4. QED BY <1>3 DEF Went, Same, SoParts

LEMMA AskSteps ==
    ASSUME SoStored, NEW t \in SoTasks, SockName(t) \/ PeerName(t) \/ Connected(t) \/ Find(t)
    PROVE  Done(t) /\ Steps(t)
<1> DEFINE w == so.doing[t]
<1>1. CASE SockName(t)
  <2> DEFINE d == SoAt(t, "addnamed", w.ss, __75snam(so, w.ss), "", NULL)
  <2>1. Ready /\ w.step = "snam" /\ Go(SoCall({}), t, d)
    BY <1>1 DEF SockName, In, Was
  <2>2. Task(d) /\ d.step = "addnamed" /\ d.ss = w.ss /\ d.name = __75snam(so, w.ss)
    BY DEF SoAt, Task, Shape
  <2> HIDE DEF d
  <2>3. Done(t) /\ so'.doing[t] = d /\ Same({"host", "entries", "lost", "mixed", "wild"})
    BY <2>1, <2>2, PassStep
  <2>4. Asks(t)
    BY <2>1, <2>2, <2>3 DEF Asks, Passes
  <2>5. QED BY <2>3, <2>4 DEF Steps
<1>2. CASE PeerName(t)
  <2> DEFINE p == __75pnam(so, w.ss)
             peer == IF p = "" THEN w.name ELSE p
             d == SoAt(t, "upd", w.ss, "", peer, NULL)
  <2>1. Ready /\ w.step = "pnam" /\ Go(SoCall({}), t, d)
    BY <1>2 DEF PeerName, In, Was
  <2>2. Task(d) /\ d.step = "upd" /\ d.ss = w.ss /\ d.name = "" /\ d.peer = peer
    BY DEF SoAt, Task, Shape
  <2> HIDE DEF d
  <2>3. Done(t) /\ so'.doing[t] = d /\ Same({"host", "entries", "lost", "mixed", "wild"})
    BY <2>1, <2>2, PassStep
  <2>4. Told1(t)
    BY <2>1, <2>2, <2>3 DEF Told1, Passes
  <2>5. QED BY <2>3, <2>4 DEF Steps
<1>3. CASE Connected(t)
  <2> DEFINE d == SoAt(t, "upd", w.ss, __75snam(so, w.ss), w.peer, NULL)
  <2>1. Ready /\ w.step = "conn" /\ Go(SoCall({}), t, d)
    BY <1>3 DEF Connected, In, Was
  <2>2. Task(d) /\ d.step = "upd" /\ d.ss = w.ss /\ d.name = __75snam(so, w.ss) /\ d.peer = w.peer
    BY DEF SoAt, Task, Shape
  <2> HIDE DEF d
  <2>3. Done(t) /\ so'.doing[t] = d /\ Same({"host", "entries", "lost", "mixed", "wild"})
    BY <2>1, <2>2, PassStep
  <2>4. Meets(t)
    BY <2>1, <2>2, <2>3 DEF Meets, Passes
  <2>5. QED BY <2>3, <2>4 DEF Steps
<1>4. CASE Find(t)
  <2> DEFINE d == [w EXCEPT !.step = "put", !.at = Entry(so, w.ss)]
  <2>1. Ready /\ w.step = "upd" /\ Go(SoCall({}), t, d)
    BY <1>4 DEF Find, In, Was
  <2>2. Task(w)
    BY DEF SoStored, Tasks
  <2> HIDE DEF w
  <2>3. Task(d) /\ d.step = "put" /\ d.ss = w.ss /\ d.name = w.name /\ d.peer = w.peer /\ d.at = Entry(so, w.ss)
    BY <2>2 DEF Task, Shape
  <2> HIDE DEF d
  <2>4. Done(t) /\ so'.doing[t] = d /\ Same({"host", "entries", "lost", "mixed", "wild"})
    BY <2>1, <2>3, PassStep
  <2>5. Finds(t)
    BY <2>1, <2>3, <2>4 DEF Finds, Passes, w
  <2>6. QED BY <2>4, <2>5 DEF Steps
<1>5. QED BY <1>1, <1>2, <1>3, <1>4

LEMMA AddSockStep == ASSUME SoStored, NEW t \in SoTasks, AddSock(t) PROVE Done(t) /\ Steps(t)
<1> DEFINE w == so.doing[t]
<1>1. Ready /\ w.step \in {"add", "addnamed"}
  BY DEF AddSock, In
<1>2. PICK fault \in IF so.unlisted = {} THEN OneFault(2) ELSE {{}} :
          LET c == __soadd(SoCall(fault), Was(t).ss, Was(t).name, "")
          IN  IF Was(t).step = "add" THEN SoDone(c, t)
              ELSE Go(c, t, SoAt(t, "pnam", Was(t).ss, Was(t).name, "", NULL))
  BY DEF AddSock
<1> DEFINE b == SoCall(fault)
           c == __soadd(b, w.ss, w.name, "")
           s == NewSocket(w.ss, w.name, "")
           d == IF w.step = "add" THEN SoIdle ELSE SoAt(t, "pnam", w.ss, w.name, "", NULL)
           parts == {"array", "entries", "lost", "unlisted"}
<1>3. SoCallOK(b) /\ \A x \in SoParts : b[x] = so[x]
  BY SoCallFacts
<1>4. Added(b, c, w.ss, s)
  <2> HIDE DEF b
  <2>1. QED BY <1>3, SoAddFacts
<1>5. Go(c, t, d)
  BY <1>2 DEF Was, SoDone
<1>6. Task(d) /\ (d.step = "idle" \/ (d.step = "pnam" /\ d.ss = w.ss /\ d.name = w.name))
  <2>1. CASE w.step = "add"
    <3>1. d = SoIdle
      BY <2>1
    <3> HIDE DEF d, w
    <3>2. d.step = "idle"
      BY <3>1, IdleFacts
    <3>3. Task(d)
      BY <3>1, IdleFacts
    <3>4. QED BY <3>2, <3>3
  <2>2. CASE w.step # "add"
    BY <2>2 DEF SoAt, Task, Shape
  <2>3. QED BY <2>1, <2>2
<1> HIDE DEF b, c, d, s, w
<1>7. SoCallOK(c) /\ \A x \in SoParts \ parts : c[x] = so[x]
  BY <1>3, <1>4 DEF Added
<1>8. Went(c, t, d, parts)
  BY <1>1, <1>5, <1>6, <1>7, GoParts
<1>9. b.entries = so.entries /\ b.lost = so.lost
  BY <1>3 DEF SoParts
<1>10. so'.entries = c.entries /\ so'.lost = c.lost /\ Same({"host", "mixed", "wild"}) /\ so'.doing[t] = d /\ Done(t)
  BY <1>8 DEF Went, Same, SoParts
<1>11. \/ so'.lost = so.lost /\ \E at : Includes(so, so', at, s)
       \/ so'.lost = so.lost \cup {w.ss} /\ so'.entries = so.entries
  BY <1>4, <1>9, <1>10 DEF Added, Includes
<1>12. Lists(t)
  BY <1>1, <1>6, <1>10, <1>11 DEF Lists, s, w
<1>13. QED BY <1>10, <1>12 DEF Steps

LEMMA PutStep == ASSUME SoStored, NEW t \in SoTasks, PutNames(t) PROVE Done(t) /\ Steps(t)
<1> DEFINE w == so.doing[t]
           b == SoCall({})
           c == PutEntry(b, w.ss, w.at, w.name, w.peer)
           parts == {"entries", "mixed", "wild"}
<1>1. Ready /\ w.step = "put" /\ Go(c, t, SoIdle)
  BY DEF PutNames, In, Was, SoDone
<1>2. SoCallOK(b) /\ \A x \in SoParts : b[x] = so[x]
  BY SoCallFacts
<1>3. Put(b, c, w)
  <2> HIDE DEF b
  <2>1. QED BY <1>2, PutFacts
<1> HIDE DEF b, c
<1>4. SoCallOK(c) /\ \A x \in SoParts \ parts : c[x] = so[x]
  BY <1>2, <1>3 DEF Put
<1>5. Went(c, t, SoIdle, parts)
  BY <1>1, <1>4, IdleFacts, GoParts
<1>6. b.entries = so.entries /\ b.lost = so.lost /\ b.mixed = so.mixed /\ b.wild = so.wild
  BY <1>2 DEF SoParts
<1>7. so'.entries = c.entries /\ so'.mixed = c.mixed /\ so'.wild = c.wild /\ Same({"host", "lost"})
      /\ so'.doing[t] = SoIdle /\ Done(t)
  BY <1>5 DEF Went, Same, SoParts
<1>8. Mixed(b, w.ss, w.at) = Mixed(so, w.ss, w.at)
  BY <1>6 DEF Mixed
<1> HIDE DEF w
<1>9. Wrote(so, so', w)
  BY <1>3, <1>6, <1>7, <1>8 DEF Put, Wrote
<1>10. Puts(t)
  BY <1>1, <1>7, <1>9, IdleFacts DEF Puts, w
<1>11. QED BY <1>7, <1>10 DEF Steps

(* bind() and connect() give a socket its addresses. *)
Gives(t, ss, name, given, peer, d) == Go(HostNames(SoCall({}), ss, name, given, peer), t, d)
Given(t, ss, name, given, peer, d) == Done(t) /\ so'.doing[t] = d /\ Names(t, ss, name, given, peer)

LEMMA RenameStep ==
    ASSUME SoStored, NEW t \in SoTasks, Ready, so.doing[t].step = "idle", NEW ss \in SoNumbers, Own(ss),
           NEW name, NEW given, NEW peer, NEW d, Task(d), d.ss = ss, Gives(t, ss, name, given, peer, d)
    PROVE  Given(t, ss, name, given, peer, d)
<1> DEFINE b == SoCall({})
           c == HostNames(b, ss, name, given, peer)
           h == NamedHost(b.host[ss], name, given, peer)
<1>1. SoCallOK(b) /\ \A x \in SoParts : b[x] = so[x]
  BY SoCallFacts
<1>2. Renamed(b, c, ss, h) /\ Go(c, t, d)
  <2> HIDE DEF b
  <2>1. Renamed(b, c, ss, h)
    BY <1>1, NamesFacts
  <2>2. QED BY <2>1 DEF b, Gives
<1> HIDE DEF b, c
<1>3. SoCallOK(c) /\ \A x \in SoParts \ {"host"} : c[x] = so[x]
  BY <1>1, <1>2 DEF Renamed
<1>4. Went(c, t, d, {"host"})
  BY <1>2, <1>3, GoParts
<1>5. b.host = so.host
  BY <1>1 DEF SoParts
<1>6. so'.host = c.host /\ Same({"entries", "lost", "mixed", "wild"}) /\ so'.doing[t] = d /\ Done(t)
  BY <1>4 DEF Went, Same, SoParts
<1>7. HostSet(so, so', ss, NamedHost(so.host[ss], name, given, peer))
  BY <1>2, <1>5, <1>6 DEF Renamed, HostSet
<1>8. QED BY <1>6, <1>7 DEF Names, Given

LEMMA NoEmptyName == \A name \in SoNames : name # ""
BY SoAssumption

LEMMA BindStep == ASSUME SoStored, NEW t \in SoTasks, bind(t) PROVE Done(t) /\ Steps(t)
<1>1. PICK ss \in SoNumbers, name \in SoNames, zero \in BOOLEAN :
          /\ Own(ss) /\ so.host[ss].own /\ so.host[ss].name = ""
          /\ LET given == IF zero THEN "port 0" ELSE name
             IN  Go(HostNames(SoCall({}), ss, name, given, so.host[ss].peer), t, SoAt(t, "upd", ss, given, "", NULL))
  BY DEF bind
<1>2. Ready /\ so.doing[t].step = "idle"
  BY IdleFacts DEF bind, CanStart
<1> DEFINE given == IF zero THEN "port 0" ELSE name
           d == SoAt(t, "upd", ss, given, "", NULL)
           peer == so.host[ss].peer
<1>3. Own(ss) /\ so.host[ss].name = "" /\ Gives(t, ss, name, given, peer, d)
  BY <1>1 DEF Gives
<1> HIDE DEF given, peer
<1>4. Task(d) /\ d.step = "upd" /\ d.ss = ss /\ d.name = given /\ d.peer = ""
  BY DEF SoAt, Task, Shape
<1> HIDE DEF d
<1>5. Given(t, ss, name, given, peer, d)
  BY <1>2, <1>3, <1>4, RenameStep
<1>6. Binds(t, ss)
  BY <1>3, <1>4, <1>5, NoEmptyName DEF Binds, Given, peer
<1>7. QED BY <1>5, <1>6 DEF Steps, Given

LEMMA ConnectStep == ASSUME SoStored, NEW t \in SoTasks, connect(t) PROVE Done(t) /\ Steps(t)
<1>1. PICK ss \in SoNumbers, name \in SoNames, peer \in SoPeers :
          /\ Own(ss) /\ so.host[ss].peer = ""
          /\ LET local == IF so.host[ss].name = "" THEN name ELSE so.host[ss].name
             IN  Go(HostNames(SoCall({}), ss, local, so.host[ss].given, peer), t, SoAt(t, "conn", ss, "", peer, NULL))
  BY DEF connect
<1>2. Ready /\ so.doing[t].step = "idle"
  BY IdleFacts DEF connect, CanStart
<1> DEFINE local == IF so.host[ss].name = "" THEN name ELSE so.host[ss].name
           d == SoAt(t, "conn", ss, "", peer, NULL)
           given == so.host[ss].given
<1>3. Own(ss) /\ so.host[ss].peer = "" /\ Gives(t, ss, local, given, peer, d)
  BY <1>1 DEF Gives
<1>4. local # "" /\ (so.host[ss].name # "" => local = so.host[ss].name)
  BY NoEmptyName
<1> HIDE DEF local, given
<1>5. Task(d) /\ d.step = "conn" /\ d.ss = ss /\ d.name = "" /\ d.peer = peer
  BY DEF SoAt, Task, Shape
<1> HIDE DEF d
<1>6. Given(t, ss, local, given, peer, d)
  BY <1>2, <1>3, <1>5, RenameStep
<1>7. Connects(t, ss)
  BY <1>3, <1>4, <1>5, <1>6 DEF Connects, Given, given
<1>8. QED BY <1>6, <1>7 DEF Steps, Given

LEMMA CloseStep == ASSUME SoStored, NEW t \in SoTasks, closesocket(t) PROVE Done(t) /\ Steps(t)
<1>1. PICK ss \in SoNumbers :
          Own(ss) /\ so.host[ss].own /\ Go(__75clr(SoCall({}), ss), t, SoAt(t, "del", ss, "", "", NULL))
  BY DEF closesocket
<1>2. Ready /\ so.doing[t].step = "idle"
  BY IdleFacts DEF closesocket, CanStart
<1> DEFINE b == SoCall({})
           c == __75clr(b, ss)
           d == SoAt(t, "del", ss, "", "", NULL)
           parts == {"host", "lost"}
<1>3. SoCallOK(b) /\ \A x \in SoParts : b[x] = so[x]
  BY SoCallFacts
<1>4. Cleared(b, c, ss)
  <2> HIDE DEF b
  <2>1. QED BY <1>3, ClearFacts
<1>5. Go(c, t, d)
  BY <1>1
<1>6. Task(d) /\ d.step = "del" /\ d.ss = ss
  BY DEF SoAt, Task, Shape
<1> HIDE DEF b, c, d
<1>7. SoCallOK(c) /\ \A x \in SoParts \ parts : c[x] = so[x]
  BY <1>3, <1>4 DEF Cleared
<1>8. Went(c, t, d, parts)
  BY <1>2, <1>5, <1>6, <1>7, GoParts
<1>9. b.host = so.host /\ b.lost = so.lost
  BY <1>3 DEF SoParts
<1>10. so'.host = c.host /\ so'.lost = c.lost /\ Same({"entries", "mixed", "wild"}) /\ so'.doing[t] = d /\ Done(t)
  BY <1>8 DEF Went, Same, SoParts
<1>11. HostSet(so, so', ss, NotOpen) /\ so'.lost = so.lost \ {ss}
  BY <1>4, <1>9, <1>10 DEF Cleared, HostSet
<1>12. Closes(t, ss)
  BY <1>1, <1>2, <1>6, <1>10, <1>11 DEF Closes
<1>13. QED BY <1>10, <1>12 DEF Steps

(* The record of an unlisted socket. *)
LEMMA ClosedFacts ==
    ASSUME SoStored, NEW c, SoCallOK(c), NEW ss
    PROVE  LET e == Closed1(c, ss)
           IN  /\ SoCallOK(e) /\ \A x \in SoParts \ {"lost", "mixed"} : e[x] = c[x]
               /\ e.lost = IF so.host[ss].open /\ SoEntries(c, ss) = {} /\ ~ Listing(ss) THEN c.lost \cup {ss} ELSE c.lost
               /\ e.mixed = IF so.host[ss].open THEN c.mixed ELSE c.mixed \ {ss}
<1> DEFINE e == Closed1(c, ss)
<1>1. IsCall(c) /\ SoParts \subseteq DOMAIN c /\ SoBlocks(c)
  BY DEF SoCallOK, SoHolds
<1>2. Entry(c, ss) = NULL <=> SoEntries(c, ss) = {}
  BY <1>1, FindFacts
<1>3. CASE ~ so.host[ss].open
  <2> DEFINE z == [c EXCEPT !.mixed = c.mixed \ {ss}]
  <2>1. e = z
    BY <1>3 DEF Closed1
  <2>2. /\ DOMAIN z = DOMAIN c /\ z = [x \in DOMAIN z |-> z[x]] /\ z.mixed = c.mixed \ {ss}
        /\ \A x \in DOMAIN c \ {"mixed"} : z[x] = c[x]
    BY <1>1 DEF IsCall, SoParts
  <2> HIDE DEF z
  <2>3. IsCall(z) /\ Hosts(z) /\ \A x \in {"held", "twice", "array", "entries", "unlisted", "lost", "host"} : z[x] = c[x]
    BY <1>1, <2>2 DEF IsCall, Used, SoParts, SoCallOK, Hosts
  <2>4. SoCallOK(z)
    BY <2>2, <2>3, OtherParts
  <2>5. QED BY <1>1, <1>3, <2>1, <2>2, <2>3, <2>4
<1>4. CASE so.host[ss].open /\ SoEntries(c, ss) = {} /\ ~ Listing(ss)
  <2> DEFINE z == [c EXCEPT !.lost = c.lost \cup {ss}]
  <2>1. e = z
    BY <1>2, <1>4 DEF Closed1
  <2>2. /\ DOMAIN z = DOMAIN c /\ z = [x \in DOMAIN z |-> z[x]] /\ z.lost = c.lost \cup {ss}
        /\ \A x \in DOMAIN c \ {"lost"} : z[x] = c[x]
    BY <1>1 DEF IsCall, SoParts
  <2> HIDE DEF z
  <2>3. IsCall(z) /\ Hosts(z) /\ \A x \in {"held", "twice", "array", "entries", "unlisted", "mixed", "host"} : z[x] = c[x]
    BY <1>1, <2>2 DEF IsCall, Used, SoParts, SoCallOK, Hosts
  <2>4. SoCallOK(z)
    BY <2>2, <2>3, OtherParts
  <2>5. QED BY <1>1, <1>4, <2>1, <2>2, <2>3, <2>4
<1>5. CASE so.host[ss].open /\ ~ (SoEntries(c, ss) = {} /\ ~ Listing(ss))
  <2>1. e = c
    BY <1>2, <1>5 DEF Closed1
  <2>2. QED BY <1>5, <2>1
<1>6. QED BY <1>3, <1>4, <1>5

LEMMA UnlistStep == ASSUME SoStored, NEW t \in SoTasks, Unlist(t) PROVE Done(t) /\ Steps(t)
<1> DEFINE ss == so.doing[t].ss
           b == SoCall({})
           c == __sodel(b, ss)
           e == Closed1(c, ss)
           parts == {"array", "entries", "lost", "mixed"}
<1>1. Ready /\ so.doing[t].step = "del" /\ Go(e, t, SoIdle)
  BY DEF Unlist, In, Was, SoDone
<1>2. SoCallOK(b) /\ \A x \in SoParts : b[x] = so[x]
  BY SoCallFacts
<1> HIDE DEF ss, b
<1>3. Deleted(b, c, ss)
  BY <1>2, SoDelFacts
<1> HIDE DEF c
<1>4. /\ SoCallOK(e) /\ \A x \in SoParts \ {"lost", "mixed"} : e[x] = c[x]
      /\ e.lost = IF so.host[ss].open /\ SoEntries(c, ss) = {} /\ ~ Listing(ss) THEN c.lost \cup {ss} ELSE c.lost
      /\ e.mixed = IF so.host[ss].open THEN c.mixed ELSE c.mixed \ {ss}
  BY <1>3, ClosedFacts DEF Deleted
<1> HIDE DEF e
<1>5. \A x \in SoParts \ {"array", "entries"} : c[x] = so[x]
  BY <1>2, <1>3 DEF Deleted
<1>6. \A x \in SoParts \ parts : e[x] = so[x]
  BY <1>4, <1>5
<1>7. Went(e, t, SoIdle, parts)
  BY <1>1, <1>4, <1>6, IdleFacts, GoParts
<1>8. e.entries = c.entries /\ b.entries = so.entries /\ c.lost = so.lost /\ c.mixed = so.mixed
  BY <1>2, <1>4, <1>5 DEF SoParts
<1>9. so'.entries = e.entries /\ so'.lost = e.lost /\ so'.mixed = e.mixed /\ Same({"host", "wild"})
      /\ so'.doing[t] = SoIdle /\ Done(t)
  BY <1>7 DEF Went, Same, SoParts
<1>10. IF SoEntries(so, ss) = {} THEN so'.entries = so.entries ELSE \E at \in SoEntries(so, ss) : Excludes(so, so', at)
  <2>1. SoEntries(b, ss) = SoEntries(so, ss)
    BY <1>8 DEF SoEntries
  <2>2. IF SoEntries(b, ss) = {} THEN c.entries = b.entries ELSE \E at \in SoEntries(b, ss) : Excludes(b, c, at)
    BY <1>3 DEF Deleted
  <2>3. QED BY <1>8, <1>9, <2>1, <2>2 DEF Excludes
<1>11. SoEntries(c, ss) = SoEntries(so', ss)
  BY <1>8, <1>9 DEF SoEntries
<1>12. Unlists(t)
  BY <1>1, <1>4, <1>8, <1>9, <1>10, <1>11, IdleFacts DEF Unlists, ss
<1>13. QED BY <1>9, <1>12 DEF Steps

----------------------------------------------------------------------------
(* The other steps. *)

(* The end of the program; it closes the sockets listed, or it does not.   *)
Exits ==
    /\ SoStored' /\ ~ so.ended /\ so'.ended /\ \A t \in SoTasks : so.doing[t] = SoIdle
    /\ result'.op = "ended" /\ Same({"doing", "unlisted", "mixed", "wild"})
    /\ IF result'.closed
       THEN /\ DOMAIN so'.entries = {} /\ so'.array.block = NULL /\ so'.lost = so.lost \ ListedNumbers(so)
            /\ \A ss \in SoNumbers : so'.host[ss] = IF ss \in ListedNumbers(so) THEN NotOpen ELSE so.host[ss]
       ELSE Same({"host", "entries", "lost"})
Restarts == SoStored' /\ Ready /\ so' = SoClear /\ result' = result
Rests == SoStored' /\ so' = so /\ result'.op # "ended"

LEMMA ClearOK == Shape(SoClear, SoParts) /\ Hosts(SoClear) /\ Tasks(SoClear) /\ SoHolds(SoClear, {})
<1>1. Shape(SoClear, SoParts)
  BY DEF Shape, SoClear, SoParts
<1>2. Shape(SoClear.host, SoNumbers)
  BY DEF Shape, SoClear
<1>3. \A ss \in SoNumbers : Host(SoClear.host[ss])
  BY DEF Host, Shape, SoClear, NotOpen
<1>4. Tasks(SoClear)
  BY IdleFacts DEF Tasks, Shape, SoClear
<1>5. SoClear.array = NoArray /\ SoClear.entries = <<>> /\ SoClear.unlisted = {}
  BY DEF SoClear
<1>6. DOMAIN SoClear.entries = {} /\ Shape(SoClear.entries, DOMAIN SoClear.entries)
  BY <1>5 DEF Shape
<1>7. ArrayOK(SoClear.array) /\ SoClear.array.block = NULL /\ SoClear.array.count = 0
  BY <1>5, EmptyOK
<1>8. 1 .. SoClear.array.count = {}
  BY <1>7
<1>9. SoBlocks(SoClear)
  BY <1>5, <1>6, <1>7, <1>8 DEF SoBlocks
<1>10. OwnsSockets(SoClear) \ {NULL} = {} /\ IsFiniteSet({})
  BY <1>5, <1>6, <1>7, FS_EmptySet DEF OwnsSockets
<1>11. QED BY <1>1, <1>2, <1>3, <1>4, <1>9, <1>10 DEF Hosts, SoHolds

LEMMA ExitStep == ASSUME SoStored, __soexit PROVE Exits
<1>1. PICK how \in {"exit", "abend", "linked"}, estae \in BOOLEAN :
          SoEnd([ProgramEnds(how, estae) EXCEPT !.ended = TRUE], [op |-> "ended", closed |-> how # "abend" \/ estae])
  BY DEF __soexit
<1> DEFINE b == SoCall({})
           closed == how # "abend" \/ estae
           c == IF closed THEN __soend(b) ELSE b
           e == [c EXCEPT !.ended = TRUE]
<1>2. ProgramEnds(how, estae) = c
  BY DEF ProgramEnds
<1>3. SoEnd(e, [op |-> "ended", closed |-> closed])
  BY <1>1, <1>2
<1>4. SoCallOK(b) /\ \A x \in SoParts : b[x] = so[x]
  BY SoCallFacts
<1> HIDE DEF b, closed
<1>5. SoCallOK(c) /\ (closed => AllClosed(b, c)) /\ (~ closed => c = b)
  BY <1>4, SoEndFacts DEF AllClosed
<1> HIDE DEF c
<1>6. IsCall(c) /\ SoParts \subseteq DOMAIN c
  BY <1>5 DEF SoCallOK
<1>7. DOMAIN e = DOMAIN c /\ e = [x \in DOMAIN e |-> e[x]] /\ e.ended = TRUE /\ \A x \in DOMAIN c \ {"ended"} : e[x] = c[x]
  BY <1>6 DEF IsCall, SoParts
<1> HIDE DEF e
<1>8. IsCall(e) /\ \A x \in {"held", "twice", "array", "entries", "unlisted", "host"} : e[x] = c[x]
  BY <1>6, <1>7 DEF IsCall, Used, SoParts
<1>9. SoCallOK(e)
  <2>1. Hosts(e)
    BY <1>5, <1>8 DEF Hosts, SoCallOK
  <2>2. QED BY <1>5, <1>7, <1>8, <2>1, OtherParts
<1>10. DOMAIN so = SoParts
  BY DEF SoStored, Shape
<1>11. so' = [x \in SoParts |-> e[x]] /\ ledger' = [held |-> e.held, twice |-> e.twice]
       /\ result' = [op |-> "ended", closed |-> closed]
  BY <1>3, <1>10 DEF SoEnd, End
<1>12. Shape(so', SoParts) /\ \A x \in SoParts : so'[x] = e[x]
  BY <1>11 DEF Shape
<1>13. \A x \in SoParts \ {"ended"} : so'[x] = c[x]
  BY <1>6, <1>7, <1>12
<1>14. Same({"doing", "unlisted", "mixed", "wild"})
  <2>1. \A x \in {"doing", "unlisted", "mixed", "wild"} : c[x] = b[x]
    BY <1>5 DEF AllClosed, SoParts
  <2>2. QED BY <1>4, <1>13, <2>1 DEF Same, SoParts
<1>15. SoStored'
  <2>1. so'.host = e.host /\ so'.array = e.array /\ so'.entries = e.entries /\ so'.unlisted = e.unlisted /\ so'.doing = so.doing
    BY <1>12, <1>14 DEF SoParts, Same
  <2>2. Hosts(so)' /\ Tasks(so)'
    BY <1>9, <2>1 DEF SoStored, SoCallOK, Hosts, Tasks
  <2>3. SoHolds(so, ledger.held)' /\ ledger'.twice = FALSE
    BY <1>9, <1>11, <2>1 DEF SoCallOK, SoHolds, SoBlocks, OwnsSockets
  <2>4. QED BY <1>12, <2>2, <2>3 DEF SoStored
<1>16. ~ so.ended /\ \A t \in SoTasks : so.doing[t] = SoIdle
  BY DEF __soexit
<1>17. so'.ended /\ result'.op = "ended" /\ result'.closed = closed
  BY <1>7, <1>11, <1>12 DEF SoParts
<1>18. CASE closed
  <2>1. so'.entries = c.entries /\ so'.array = c.array /\ so'.lost = c.lost /\ so'.host = c.host
    BY <1>13 DEF SoParts
  <2>2. b.entries = so.entries /\ b.lost = so.lost /\ b.host = so.host
    BY <1>4 DEF SoParts
  <2>3. ListedNumbers(b) = ListedNumbers(so)
    BY <2>2 DEF ListedNumbers
  <2>4. QED BY <1>5, <1>14, <1>15, <1>16, <1>17, <1>18, <2>1, <2>2, <2>3 DEF Exits, AllClosed
<1>19. CASE ~ closed
  <2>1. Same({"host", "entries", "lost"})
    BY <1>4, <1>5, <1>13, <1>19 DEF Same, SoParts
  <2>2. QED BY <1>14, <1>15, <1>16, <1>17, <1>19, <2>1 DEF Exits
<1>20. QED BY <1>18, <1>19

LEMMA RestartStep == ASSUME SoStored, NextProgram PROVE Restarts
<1>1. Ready /\ so' = SoClear /\ result' = result /\ ledger' = [ledger EXCEPT !.held = ledger.held \ OwnsSockets(so)]
  BY DEF NextProgram
<1>2. ledger.held = OwnsSockets(so) \ {NULL}
  BY DEF SoStored, SoHolds
<1>3. ledger'.held = {} /\ ledger'.twice = FALSE
  BY <1>1, <1>2 DEF SoStored
<1>4. SoStored'
  BY <1>1, <1>3, ClearOK DEF SoStored
<1>5. QED BY <1>1, <1>4 DEF Restarts

(* A call that moves data changes nothing here. *)
LEMMA MoveStep == ASSUME SoStored, NEW r, r.op # "ended", SoEnd(SoCall({}), r) PROVE Rests
<1> DEFINE c == SoCall({})
<1>1. SoCallOK(c) /\ \A x \in SoParts : c[x] = so[x]
  BY SoCallFacts
<1>2. c.held = ledger.held /\ c.twice = ledger.twice
  <2>1. DOMAIN so = SoParts
    BY DEF SoStored, Shape
  <2>2. QED BY <2>1 DEF SoCall, Begin, SoParts
<1>3. so' = [x \in DOMAIN so |-> c[x]] /\ ledger' = [held |-> c.held, twice |-> c.twice] /\ result' = r
  BY DEF SoEnd, End
<1> HIDE DEF c
<1>4. so' = so
  BY <1>1, <1>3 DEF SoStored, Shape
<1>5. ledger'.held = ledger.held /\ ledger'.twice = ledger.twice
  BY <1>2, <1>3
<1>6. SoStored'
  BY <1>4, <1>5 DEF SoStored
<1>7. QED BY <1>3, <1>4, <1>6 DEF Rests

LEMMA MovesStep == ASSUME SoStored, SoMoves PROVE Rests
<1> DEFINE c == SoCall({})
<1>1. \E r : r.op # "ended" /\ SoEnd(c, r)
  <2> HIDE DEF c
  <2>1. CASE recv
    BY <2>1 DEF recv, RecvResult, c
  <2>2. CASE CallsThatFail
    BY <2>2 DEF CallsThatFail, Tried, c
  <2>3. CASE send
    BY <2>3 DEF send, c
  <2>4. CASE selectex
    BY <2>4 DEF selectex, SelectResult, c
  <2>5. CASE ioctlsocket
    BY <2>5 DEF ioctlsocket, c
  <2>6. CASE listen
    BY <2>6 DEF listen, c
  <2>7. CASE gethostbyname
    BY <2>7 DEF gethostbyname, c
  <2>8. CASE gethostbyaddr
    BY <2>8 DEF gethostbyaddr, c
  <2>9. CASE inet_texts
    BY <2>9 DEF inet_texts, c
  <2>10. CASE inet_addresses
    BY <2>10 DEF inet_addresses, c
  <2>11. QED
    BY <2>1, <2>2, <2>3, <2>4, <2>5, <2>6, <2>7, <2>8, <2>9, <2>10 DEF SoMoves
<1>2. QED BY <1>1, MoveStep

LEMMA SoSeeStep == ASSUME SoStored, See, so' = so PROVE Rests
<1>1. ledger' = ledger /\ result'.op # "ended"
  BY DEF See, Seen
<1>2. SoStored'
  BY <1>1 DEF SoStored
<1>3. QED BY <1>1, <1>2 DEF Rests

(* Every step is one of these. *)
LEMMA SoNextFacts ==
    ASSUME SoStored, SoNext
    PROVE  (\E t \in SoTasks : Done(t) /\ Steps(t)) \/ Exits \/ Restarts \/ Rests
<1>1. ASSUME NEW t \in SoTasks,
             \/ socket(t) \/ accept(t) \/ SockName(t) \/ AddSock(t) \/ PeerName(t) \/ Find(t) \/ PutNames(t)
             \/ bind(t) \/ connect(t) \/ Connected(t) \/ closesocket(t) \/ Unlist(t)
      PROVE  Done(t) /\ Steps(t)
  BY <1>1, SocketStep, AcceptStep, AskSteps, AddSockStep, PutStep, BindStep, ConnectStep, CloseStep, UnlistStep
<1>2. CASE __soexit
  BY <1>2, ExitStep
<1>3. CASE NextProgram
  BY <1>3, RestartStep
<1>4. CASE so = SoClear /\ SoMoves
  BY <1>4, MovesStep
<1>5. CASE See /\ UNCHANGED so
  BY <1>5, SoSeeStep
<1>6. QED BY <1>1, <1>2, <1>3, <1>4, <1>5 DEF SoNext

LEMMA SoInitFacts == ASSUME LedgerInit, SoInit PROVE SoStored
<1>1. ledger.held = {} /\ ledger.twice = FALSE
  BY DEF LedgerInit
<1>2. QED BY <1>1, ClearOK DEF SoInit, SoStored

LEMMA SoStoredStep == ASSUME SoStored, [SoNext]_<<ledger, result, so>> PROVE SoStored'
<1>1. CASE SoNext
  BY <1>1, SoNextFacts DEF Done, Exits, Restarts, Rests
<1>2. CASE UNCHANGED <<ledger, result, so>>
  BY <1>2 DEF SoStored
<1>3. QED BY <1>1, <1>2

(* What the calls of all threads hold of the heap is the list, an entry    *)
(* for each socket in it and the entries arrayadd() refused, and nothing   *)
(* is released twice (@@soadd.c, @@sodel.c, @@soend.c, @@75init.c).        *)
THEOREM SocketBlocksAreKept == SoSpec => [](ledger.held = SoOwns /\ ~ ledger.twice)
<1>1. LedgerInit /\ SoInit => SoStored
  BY SoInitFacts
<1>2. SoStored /\ [SoNext]_<<ledger, result, so>> => SoStored'
  BY SoStoredStep
<1>3. SoStored => ledger.held = SoOwns /\ ~ ledger.twice
  BY DEF SoStored, SoHolds, SoOwns
<1>4. QED BY <1>1, <1>2, <1>3, PTL DEF SoSpec

----------------------------------------------------------------------------
(* The sockets that are open, and the entries of the list.                 *)

Ours == SoNumbers \ SoForeign
Closing(ss) == {t \in SoTasks : so.doing[t].ss = ss /\ so.doing[t].step = "del"}
Up(ss) == so.host[ss].open /\ ss \notin so.lost /\ ~ Listing(ss)

SoOpened ==
    /\ \A ss \in SoNumbers : so.host[ss].own <=> so.host[ss].open /\ ss \notin SoForeign
    /\ \A ss \in SoForeign : so.host[ss].open
    /\ \A at \in DOMAIN so.entries : so.entries[at].socket \in Ours
    /\ \A t \in SoTasks : so.doing[t].step \in Listing1 \cup {"del"} => so.doing[t].ss \in Ours
    /\ \A t \in SoTasks : so.doing[t].step \notin {"idle", "del"} =>
          so.doing[t].ss \in SoNumbers /\ so.host[so.doing[t].ss].open
    /\ \A t, u \in SoTasks, ss \in SoNumbers : Works(t, ss) /\ Works(u, ss) => t = u
    /\ \A ss \in so.lost : ss \in Ours /\ so.host[ss].open /\ ~ Listing(ss)

(* A socket in use has one entry, and each call that still has to take one *)
(* out may find one more; a socket that was closed has no other.           *)
Counts(E, C, up) == Cardinality(E) =< Cardinality(C) + (IF up THEN 1 ELSE 0) /\ (up => E # {})
SoCounted(ss) == Counts(SoEntries(so, ss), Closing(ss), Up(ss))
SoListed == SoOpened /\ \A ss \in Ours : SoCounted(ss)

LEMMA CountListed ==
    ASSUME NEW E, NEW C, IsFiniteSet(E), IsFiniteSet(C), Counts(E, C, FALSE), NEW at, at \notin E
    PROVE  Counts(E \cup {at}, C, TRUE)
<1>1. Cardinality(E \cup {at}) = Cardinality(E) + 1 /\ Cardinality(E) \in Nat /\ Cardinality(C) \in Nat
  BY FS_AddElement, FS_CardinalityType
<1>2. QED BY <1>1 DEF Counts

LEMMA CountClosed ==
    ASSUME NEW E, NEW C, IsFiniteSet(E), IsFiniteSet(C), NEW up \in BOOLEAN, Counts(E, C, up), NEW t, t \notin C
    PROVE  Counts(E, C \cup {t}, FALSE)
<1>1. Cardinality(C \cup {t}) = Cardinality(C) + 1 /\ Cardinality(E) \in Nat /\ Cardinality(C) \in Nat
  BY FS_AddElement, FS_CardinalityType
<1>2. QED BY <1>1 DEF Counts

LEMMA CountGone ==
    ASSUME NEW E, NEW C, IsFiniteSet(E), IsFiniteSet(C), NEW up \in BOOLEAN, NEW still \in BOOLEAN,
           Counts(E, C, up), NEW at \in E, NEW t \in C,
           still => up /\ E \ {at} # {}, up /\ ~ still => E \ {at} = {}
    PROVE  Counts(E \ {at}, C \ {t}, still)
<1>1. /\ Cardinality(E \ {at}) = Cardinality(E) - 1 /\ Cardinality(C \ {t}) = Cardinality(C) - 1
      /\ Cardinality(E) \in Nat /\ Cardinality(C) \in Nat
      /\ IsFiniteSet(E \ {at}) /\ IsFiniteSet(C \ {t})
  BY FS_RemoveElement, FS_CardinalityType
<1>2. Cardinality(C \ {t}) \in Nat
  BY <1>1, FS_CardinalityType
<1>3. E \ {at} = {} => Cardinality(E \ {at}) = 0
  BY FS_EmptySet
<1>4. QED BY <1>1, <1>2, <1>3 DEF Counts

LEMMA CountNone ==
    ASSUME NEW C, NEW up \in BOOLEAN, IsFiniteSet(C), ~ up
    PROVE  Counts({}, C, up)
<1>1. Cardinality({}) = 0 /\ Cardinality(C) \in Nat
  BY FS_EmptySet, FS_CardinalityType
<1>2. QED BY <1>1 DEF Counts

LEMMA SoFinite == ASSUME SoStored, NEW ss PROVE IsFiniteSet(SoEntries(so, ss)) /\ IsFiniteSet(Closing(ss))
<1>1. \A at \in DOMAIN so.entries : at # NULL
  BY NullFacts DEF SoStored, SoHolds, SoBlocks
<1>2. SoEntries(so, ss) \subseteq ledger.held
  BY <1>1 DEF SoStored, SoHolds, OwnsSockets, SoEntries
<1>3. IsFiniteSet(ledger.held)
  BY DEF SoStored, SoHolds
<1>4. IsFiniteSet(SoEntries(so, ss))
  BY <1>2, <1>3, FS_Subset
<1>5. Closing(ss) \subseteq SoTasks /\ IsFiniteSet(SoTasks)
  BY SoAssumption DEF Closing
<1>6. QED BY <1>4, <1>5, FS_Subset

(* A step that has nothing to do with a socket. *)
Far(t, ss) ==
    /\ so'.host[ss] = so.host[ss] /\ (ss \in so'.lost <=> ss \in so.lost) /\ SoEntries(so', ss) = SoEntries(so, ss)
    /\ so.doing[t].step = "idle" \/ so.doing[t].ss # ss
    /\ so'.doing[t].step = "idle" \/ so'.doing[t].ss # ss
FarSame(ss) ==
    /\ so'.host[ss] = so.host[ss] /\ (ss \in so'.lost <=> ss \in so.lost) /\ SoEntries(so', ss) = SoEntries(so, ss)
    /\ \A u \in SoTasks : Works(u, ss)' <=> Works(u, ss)
    /\ Listing(ss)' <=> Listing(ss)
    /\ Closing(ss)' = Closing(ss) /\ Up(ss)' = Up(ss)

LEMMA FarFacts == ASSUME NEW t \in SoTasks, Others(t), NEW ss, Far(t, ss) PROVE FarSame(ss)
<1>1. \A u \in SoTasks : Works(u, ss)' <=> Works(u, ss)
  BY DEF Far, Others, Works
<1>2. Listing(ss)' <=> Listing(ss)
  BY DEF Far, Others, Listing
<1>3. Closing(ss)' = Closing(ss)
  BY DEF Far, Others, Closing
<1>4. Up(ss)' = Up(ss)
  BY <1>2 DEF Far, Up
<1>5. QED BY <1>1, <1>2, <1>3, <1>4 DEF Far, FarSame

(* The steps that leave the list and the emulator's table as they are.     *)
Quiet(t) ==
    /\ Same({"lost"})
    /\ \A ss \in SoNumbers : so'.host[ss].open = so.host[ss].open /\ so'.host[ss].own = so.host[ss].own
    /\ DOMAIN so'.entries = DOMAIN so.entries
    /\ \A at \in DOMAIN so.entries : so'.entries[at].socket = so.entries[at].socket
    /\ \/ so'.doing[t].step = "idle"
       \/ so'.doing[t].step \notin {"idle", "del"} /\ so.doing[t].step \notin {"idle", "del"} /\ so'.doing[t].ss = so.doing[t].ss
       \/ so'.doing[t].step \notin {"idle", "del"} /\ so.doing[t].step = "idle" /\ so'.doing[t].ss \in SoNumbers /\ Own(so'.doing[t].ss)
    /\ so.doing[t].step # "del" /\ (so'.doing[t].step \in Listing1 <=> so.doing[t].step \in Listing1)

LEMMA QuietFacts == ASSUME SoStored, NEW t \in SoTasks, Done(t), Quiet(t), SoListed PROVE SoListed'
<1>1. Others(t) /\ so'.lost = so.lost
  BY DEF Done, Quiet, Same
<1>2. \A u \in SoTasks \ {t} : so'.doing[u] = so.doing[u]
  BY <1>1 DEF Others
<1>3. \A u \in SoTasks : so'.doing[u].step \in Listing1 <=> so.doing[u].step \in Listing1
  BY <1>2 DEF Quiet
<1>4. \A u \in SoTasks : so'.doing[u].step \in Listing1 => so'.doing[u].ss = so.doing[u].ss
  BY <1>2 DEF Quiet, Listing1
<1>5. \A ss : Listing(ss)' <=> Listing(ss)
  BY <1>3, <1>4 DEF Listing, Listing1
<1>6. \A ss : Closing(ss)' = Closing(ss)
  BY <1>2 DEF Closing, Quiet
<1>7. \A ss : SoEntries(so', ss) = SoEntries(so, ss)
  BY DEF Quiet, SoEntries
<1>8. \A ss \in SoNumbers : Up(ss)' = Up(ss)
  BY <1>1, <1>5 DEF Up, Quiet
<1>9. \A ss \in Ours : SoCounted(ss)'
  BY <1>6, <1>7, <1>8 DEF SoListed, SoCounted, Ours
<1>10. \A u \in SoTasks : so'.doing[u].step \in Listing1 \cup {"del"} =>
          so.doing[u].step \in Listing1 \cup {"del"} /\ so'.doing[u].ss = so.doing[u].ss
  BY <1>2, <1>3, <1>4 DEF Quiet
<1>11. SoOpened'
  <2>1. \A ss \in SoNumbers : so'.host[ss].own <=> so'.host[ss].open /\ ss \notin SoForeign
    BY DEF SoListed, SoOpened, Quiet
  <2>2. \A ss \in SoForeign : so'.host[ss].open
    BY SoAssumption DEF SoListed, SoOpened, Quiet
  <2>3. \A at \in DOMAIN so'.entries : so'.entries[at].socket \in Ours
    BY DEF SoListed, SoOpened, Quiet
  <2>4. \A u \in SoTasks : so'.doing[u].step \in Listing1 \cup {"del"} => so'.doing[u].ss \in Ours
    BY <1>10 DEF SoListed, SoOpened
  <2>5. \A u \in SoTasks : so'.doing[u].step \notin {"idle", "del"} =>
          so'.doing[u].ss \in SoNumbers /\ so'.host[so'.doing[u].ss].open
    BY <1>2 DEF SoListed, SoOpened, Quiet, Own
  <2>6. \A ss \in SoNumbers, u \in SoTasks \ {t} : Works(u, ss)' <=> Works(u, ss)
    BY <1>2 DEF Works
  <2>7. \A ss \in SoNumbers : Works(t, ss)' => Works(t, ss) \/ Own(ss)
    BY DEF Works, Quiet
  <2>8. \A u, v \in SoTasks, ss \in SoNumbers : Works(u, ss)' /\ Works(v, ss)' => u = v
    <3>1. \A u, v \in SoTasks, ss \in SoNumbers : Works(u, ss) /\ Works(v, ss) => u = v
      BY DEF SoListed, SoOpened
    <3>2. \A ss \in SoNumbers : Own(ss) => \A u \in SoTasks : ~ Works(u, ss)
      BY DEF Own
    <3>3. QED BY <2>6, <2>7, <3>1, <3>2
  <2>9. \A ss \in so'.lost : ss \in Ours /\ so'.host[ss].open /\ ~ Listing(ss)'
    BY <1>1, <1>5 DEF SoListed, SoOpened, Quiet, Ours
  <2>10. QED BY <2>1, <2>2, <2>3, <2>4, <2>5, <2>8, <2>9 DEF SoOpened
<1>12. QED BY <1>9, <1>11 DEF SoListed

LEMMA QuietSteps ==
    ASSUME SoStored, NEW t \in SoTasks, SoListed,
           \/ Stays(t) \/ Asks(t) \/ Told1(t) \/ Meets(t) \/ Finds(t) \/ Puts(t)
           \/ \E ss \in SoNumbers : Binds(t, ss) \/ Connects(t, ss)
    PROVE  Quiet(t)
<1>1. CASE Stays(t)
  BY <1>1 DEF Stays, Quiet, Same, Listing1
<1>2. CASE Asks(t)
  BY <1>2 DEF Asks, Passes, Quiet, Same, Listing1
<1>3. CASE Told1(t)
  BY <1>3 DEF Told1, Passes, Quiet, Same, Listing1
<1>4. CASE Meets(t)
  BY <1>4 DEF Meets, Passes, Quiet, Same, Listing1
<1>5. CASE Finds(t)
  BY <1>5 DEF Finds, Passes, Quiet, Same, Listing1
<1>6. CASE Puts(t)
  <2>1. \A old, name, peer : Rewritten(old, name, peer).socket = old.socket
    BY DEF Rewritten, NewSocket
  <2>2. DOMAIN so'.entries = DOMAIN so.entries /\ \A at \in DOMAIN so.entries : so'.entries[at].socket = so.entries[at].socket
    BY <1>6, <2>1 DEF Puts, Wrote, Same
  <2>3. QED BY <1>6, <2>2 DEF Puts, Quiet, Same, Listing1
<1>7. CASE \E ss \in SoNumbers : Binds(t, ss) \/ Connects(t, ss)
  <2>1. PICK ss \in SoNumbers : Binds(t, ss) \/ Connects(t, ss)
    BY <1>7
  <2>2. PICK name, given, peer : Names(t, ss, name, given, peer)
    BY <2>1 DEF Binds, Connects
  <2>3. so'.doing[t].step \in {"upd", "conn"}
    BY <2>1 DEF Binds, Connects
  <2>4. \A x \in SoNumbers : so'.host[x].open = so.host[x].open /\ so'.host[x].own = so.host[x].own
    BY <2>2 DEF Names, HostSet, NamedHost
  <2>5. QED BY <2>2, <2>3, <2>4 DEF Names, Quiet, Same, Listing1
<1>8. QED BY <1>1, <1>2, <1>3, <1>4, <1>5, <1>6, <1>7

(* A step that has to do with one of the program's sockets. *)
Near(t, s) ==
    /\ s \in Ours /\ \A ss \in SoNumbers \ {s} : Far(t, ss)
    /\ so'.host[s].own <=> so'.host[s].open
    /\ \A at \in DOMAIN so'.entries : so'.entries[at].socket \in Ours
    /\ so'.lost \subseteq so.lost \cup {s}
    /\ so'.doing[t].step = "idle" \/ so'.doing[t].ss = s
    /\ so'.doing[t].step \notin {"idle", "del"} => so'.host[s].open /\ \A u \in SoTasks \ {t} : ~ Works(u, s)
    /\ so'.host[s].open \/ \A u \in SoTasks \ {t} : ~ Works(u, s)
    /\ s \in so'.lost => so'.host[s].open /\ ~ Listing(s)'

LEMMA NearFacts ==
    ASSUME SoStored, NEW t \in SoTasks, Done(t), NEW s, Near(t, s), SoListed, SoCounted(s)'
    PROVE  SoListed'
<1>1. Others(t) /\ s \in SoNumbers
  BY DEF Done, Near, Ours
<1>2. \A u \in SoTasks \ {t} : so'.doing[u] = so.doing[u]
  BY <1>1 DEF Others
<1>3. ASSUME NEW ss \in SoNumbers \ {s} PROVE FarSame(ss)
  BY <1>1, FarFacts DEF Near
<1>4. ASSUME NEW ss \in Ours PROVE SoCounted(ss)'
  <2>1. CASE ss = s
    BY <2>1
  <2>2. CASE ss # s
    <3>1. FarSame(ss) /\ SoCounted(ss)
      BY <1>3, <2>2 DEF SoListed, Ours
    <3>2. QED BY <3>1 DEF FarSame, SoCounted
  <2>3. QED BY <2>1, <2>2
<1>5. SoOpened'
  <2>1. \A ss \in SoNumbers : so'.host[ss].own <=> so'.host[ss].open /\ ss \notin SoForeign
    BY DEF SoListed, SoOpened, Near, Far, Ours
  <2>2. \A ss \in SoForeign : so'.host[ss].open
    BY SoAssumption DEF SoListed, SoOpened, Near, Far, Ours
  <2>3. \A u \in SoTasks : so'.doing[u].step \in Listing1 \cup {"del"} => so'.doing[u].ss \in Ours
    BY <1>2 DEF SoListed, SoOpened, Near, Listing1
  <2>4. ASSUME NEW u \in SoTasks, so'.doing[u].step \notin {"idle", "del"}
        PROVE  so'.doing[u].ss \in SoNumbers /\ so'.host[so'.doing[u].ss].open
    <3>1. CASE u = t
      BY <1>1, <2>4, <3>1 DEF Near
    <3>2. CASE u # t
      <4>1. so'.doing[u] = so.doing[u] /\ so.doing[u].ss \in SoNumbers /\ so.host[so.doing[u].ss].open
        BY <1>2, <2>4, <3>2 DEF SoListed, SoOpened
      <4>2. so.doing[u].ss = s => so'.host[s].open
        BY <2>4, <3>2, <4>1 DEF Near, Works
      <4>3. QED BY <4>1, <4>2 DEF Near, Far
    <3>3. QED BY <3>1, <3>2
  <2>5. ASSUME NEW u \in SoTasks, NEW v \in SoTasks, NEW ss \in SoNumbers, Works(u, ss)', Works(v, ss)'
        PROVE  u = v
    <3>1. CASE ss # s
      BY <1>3, <2>5, <3>1 DEF FarSame, SoListed, SoOpened
    <3>2. CASE ss = s
      <4>1. \A w \in SoTasks \ {t} : Works(w, s)' => Works(w, s)
        BY <1>2 DEF Works
      <4>2. Works(t, s)' => \A w \in SoTasks \ {t} : ~ Works(w, s)
        BY DEF Works, Near
      <4>3. QED BY <1>1, <2>5, <3>2, <4>1, <4>2 DEF SoListed, SoOpened
    <3>3. QED BY <3>1, <3>2
  <2>6. ASSUME NEW ss \in so'.lost PROVE ss \in Ours /\ so'.host[ss].open /\ ~ Listing(ss)'
    <3>1. CASE ss = s
      BY <2>6, <3>1 DEF Near
    <3>2. CASE ss # s
      <4>1. ss \in so.lost /\ ss \in Ours /\ so.host[ss].open /\ ~ Listing(ss)
        BY <2>6, <3>2 DEF Near, SoListed, SoOpened
      <4>2. ss \in SoNumbers \ {s}
        BY <3>2, <4>1 DEF Ours
      <4>3. FarSame(ss)
        BY <1>3, <4>2
      <4>4. QED BY <4>1, <4>3 DEF FarSame
    <3>3. QED BY <3>1, <3>2
  <2>7. \A at \in DOMAIN so'.entries : so'.entries[at].socket \in Ours
    BY DEF Near
  <2>8. QED BY <2>1, <2>2, <2>3, <2>4, <2>5, <2>6, <2>7 DEF SoOpened
<1>6. QED BY <1>4, <1>5 DEF SoListed

LEMMA OpensFacts ==
    ASSUME SoStored, NEW t \in SoTasks, Done(t), NEW s \in SoNumbers, Opens(t, s), SoListed
    PROVE  SoListed'
<1>1. PICK name, peer : HostSet(so, so', s, NewHost(name, peer))
  BY DEF Opens
<1>2. so'.host[s].open /\ so'.host[s].own /\ \A x \in SoNumbers \ {s} : so'.host[x] = so.host[x]
  <2>1. NewHost(name, peer).open /\ NewHost(name, peer).own
    BY DEF NewHost
  <2>2. QED BY <1>1, <2>1 DEF HostSet
<1>3. /\ so.doing[t].step = "idle" /\ ~ so.host[s].open /\ so'.entries = so.entries /\ so'.lost = so.lost
      /\ so'.doing[t].step \in {"add", "snam"} /\ so'.doing[t].ss = s
  BY DEF Opens, Same
<1>4. Others(t)
  BY DEF Done
<1>5. s \in Ours
  BY <1>3 DEF SoListed, SoOpened, Ours
<1>6. s \notin so.lost /\ \A u \in SoTasks : ~ Works(u, s)
  BY <1>3 DEF SoListed, SoOpened, Works
<1>7. Near(t, s)
  <2>1. \A ss \in SoNumbers \ {s} : Far(t, ss)
    BY <1>2, <1>3 DEF Far, SoEntries
  <2>2. \A at \in DOMAIN so'.entries : so'.entries[at].socket \in Ours
    BY <1>3 DEF SoListed, SoOpened
  <2>3. QED BY <1>2, <1>3, <1>5, <1>6, <2>1, <2>2 DEF Near
<1>8. SoCounted(s)'
  <2>1. Closing(s)' = Closing(s)
    BY <1>3, <1>4 DEF Closing, Others
  <2>2. SoEntries(so', s) = SoEntries(so, s)
    BY <1>3 DEF SoEntries
  <2>3. Listing(s)'
    BY <1>3 DEF Listing
  <2>4. Up(s)' = FALSE /\ Up(s) = FALSE
    BY <1>3, <2>3 DEF Up
  <2>5. SoCounted(s)
    BY <1>5 DEF SoListed
  <2>6. QED BY <2>1, <2>2, <2>4, <2>5 DEF SoCounted
<1>9. QED BY <1>7, <1>8, NearFacts

LEMMA ListsFacts ==
    ASSUME SoStored, NEW t \in SoTasks, Done(t), Lists(t), SoListed
    PROVE  SoListed'
<1>0. PICK s : s = so.doing[t].ss
  OBVIOUS
<1> DEFINE d == so.doing[t]
<1>1. d.step \in {"add", "addnamed"} /\ so'.host = so.host
  BY DEF Lists, Same
<1>2. so'.doing[t].step = "idle" \/ (so'.doing[t].step = "pnam" /\ so'.doing[t].ss = s)
  BY <1>0 DEF Lists
<1>3. \/ so'.lost = so.lost /\ \E at : Includes(so, so', at, NewSocket(s, d.name, ""))
      \/ so'.lost = so.lost \cup {s} /\ so'.entries = so.entries
  BY <1>0 DEF Lists
<1>4. Others(t)
  BY DEF Done
<1> HIDE DEF d
<1>5. s \in Ours /\ s \in SoNumbers /\ so.host[s].open
  BY <1>0, <1>1 DEF SoListed, SoOpened, Ours, d, Listing1
<1>6. Works(t, s) /\ Listing(s)
  BY <1>0, <1>1 DEF Works, Listing, d
<1>7. \A u \in SoTasks \ {t} : ~ Works(u, s)
  BY <1>5, <1>6 DEF SoListed, SoOpened
<1>8. ~ Listing(s)'
  <2>1. \A u \in SoTasks \ {t} : ~ (so'.doing[u].ss = s /\ so'.doing[u].step \in {"add", "snam", "addnamed"})
    BY <1>4, <1>7 DEF Works, Others
  <2>2. QED BY <1>2, <2>1 DEF Listing
<1>9. s \notin so.lost /\ Up(s) = FALSE
  BY <1>6 DEF SoListed, SoOpened, Up
<1>10. Closing(s)' = Closing(s)
  BY <1>1, <1>2, <1>4 DEF Closing, Others, d
<1>11. SoCounted(s) /\ IsFiniteSet(SoEntries(so, s)) /\ IsFiniteSet(Closing(s))
  BY <1>5, SoFinite DEF SoListed
<1>12. so'.host[s].own <=> so'.host[s].open
  BY <1>1, <1>5 DEF SoListed, SoOpened, Ours
<1>13. CASE so'.lost = so.lost /\ \E at : Includes(so, so', at, NewSocket(s, d.name, ""))
  <2>1. PICK at : Includes(so, so', at, NewSocket(s, d.name, ""))
    BY <1>13
  <2>2. /\ at \notin DOMAIN so.entries /\ DOMAIN so'.entries = DOMAIN so.entries \cup {at}
        /\ so'.entries[at].socket = s /\ \A e \in DOMAIN so.entries : so'.entries[e] = so.entries[e]
    <3>1. NewSocket(s, d.name, "").socket = s
      BY DEF NewSocket
    <3>2. QED BY <2>1, <3>1 DEF Includes
  <2>3. SoEntries(so', s) = SoEntries(so, s) \cup {at} /\ at \notin SoEntries(so, s)
    BY <2>2 DEF SoEntries
  <2>4. \A ss : ss # s => SoEntries(so', ss) = SoEntries(so, ss)
    BY <2>2 DEF SoEntries
  <2>5. Up(s)' = TRUE
    BY <1>1, <1>5, <1>8, <1>9, <1>13 DEF Up
  <2>6. SoCounted(s)'
    <3>1. Counts(SoEntries(so, s), Closing(s), FALSE)
      BY <1>9, <1>11 DEF SoCounted
    <3>2. Counts(SoEntries(so, s) \cup {at}, Closing(s), TRUE)
      BY <1>11, <2>3, <3>1, CountListed
    <3>3. QED BY <1>10, <2>3, <2>5, <3>2 DEF SoCounted
  <2>7. \A e \in DOMAIN so'.entries : so'.entries[e].socket \in Ours
    BY <1>5, <2>2 DEF SoListed, SoOpened
  <2>8. \A ss \in SoNumbers \ {s} : Far(t, ss)
    BY <1>0, <1>1, <1>2, <1>13, <2>4 DEF Far
  <2>9. Near(t, s)
    BY <1>1, <1>2, <1>5, <1>7, <1>9, <1>12, <1>13, <2>7, <2>8 DEF Near
  <2>10. QED BY <2>6, <2>9, NearFacts
<1>14. CASE so'.lost = so.lost \cup {s} /\ so'.entries = so.entries
  <2>1. so'.lost = so.lost \cup {s}
    BY <1>14
  <2>2. \A ss : SoEntries(so', ss) = SoEntries(so, ss)
    BY <1>14 DEF SoEntries
  <2>3. Up(s)' = FALSE
    BY <2>1 DEF Up
  <2>4. SoCounted(s)'
    BY <1>9, <1>10, <1>11, <2>2, <2>3 DEF SoCounted
  <2>5. \A e \in DOMAIN so'.entries : so'.entries[e].socket \in Ours
    BY <1>14 DEF SoListed, SoOpened
  <2>6. \A ss \in SoNumbers \ {s} : Far(t, ss)
    BY <1>0, <1>1, <1>2, <2>1, <2>2 DEF Far
  <2>7. Near(t, s)
    BY <1>1, <1>2, <1>5, <1>7, <1>8, <1>12, <2>1, <2>5, <2>6 DEF Near
  <2>8. QED BY <2>4, <2>7, NearFacts
<1>15. QED BY <1>3, <1>13, <1>14

LEMMA ClosesFacts ==
    ASSUME SoStored, NEW t \in SoTasks, Done(t), NEW s \in SoNumbers, Closes(t, s), SoListed
    PROVE  SoListed'
<1>1. /\ so.doing[t].step = "idle" /\ Own(s) /\ so.host[s].own
      /\ HostSet(so, so', s, NotOpen) /\ so'.lost = so.lost \ {s}
      /\ so'.doing[t].step = "del" /\ so'.doing[t].ss = s /\ so'.entries = so.entries
  BY DEF Closes, Same
<1>2. ~ NotOpen.open /\ ~ NotOpen.own
  BY DEF NotOpen
<1>3. ~ so'.host[s].open /\ ~ so'.host[s].own /\ \A x \in SoNumbers \ {s} : so'.host[x] = so.host[x]
  BY <1>1, <1>2 DEF HostSet
<1>4. Others(t)
  BY DEF Done
<1>5. s \in Ours
  BY <1>1 DEF SoListed, SoOpened, Ours
<1>6. \A u \in SoTasks : ~ Works(u, s)
  BY <1>1 DEF Own
<1>7. Near(t, s)
  <2>1. \A ss \in SoNumbers \ {s} : Far(t, ss)
    BY <1>1, <1>3 DEF Far, SoEntries
  <2>2. \A at \in DOMAIN so'.entries : so'.entries[at].socket \in Ours
    BY <1>1 DEF SoListed, SoOpened
  <2>3. QED BY <1>1, <1>3, <1>5, <1>6, <2>1, <2>2 DEF Near
<1>8. SoCounted(s)'
  <2>1. Closing(s)' = Closing(s) \cup {t} /\ t \notin Closing(s)
    BY <1>1, <1>4 DEF Closing, Others
  <2>2. SoEntries(so', s) = SoEntries(so, s)
    BY <1>1 DEF SoEntries
  <2>3. Up(s)' = FALSE /\ Up(s) \in BOOLEAN
    BY <1>3 DEF Up
  <2>4. Counts(SoEntries(so, s), Closing(s), Up(s))
    BY <1>5 DEF SoListed, SoCounted
  <2>5. IsFiniteSet(SoEntries(so, s)) /\ IsFiniteSet(Closing(s))
    BY SoFinite
  <2>6. Counts(SoEntries(so, s), Closing(s) \cup {t}, FALSE)
    BY <2>1, <2>3, <2>4, <2>5, CountClosed
  <2>7. QED BY <2>1, <2>2, <2>3, <2>6 DEF SoCounted
<1>9. QED BY <1>7, <1>8, NearFacts

LEMMA UnlistsFacts ==
    ASSUME SoStored, NEW t \in SoTasks, Done(t), Unlists(t), SoListed
    PROVE  SoListed'
<1>1. PICK s : s = so.doing[t].ss
  OBVIOUS
<1>2. /\ so.doing[t].step = "del" /\ so'.doing[t].step = "idle" /\ so'.host = so.host
      /\ IF SoEntries(so, s) = {} THEN so'.entries = so.entries ELSE \E at \in SoEntries(so, s) : Excludes(so, so', at)
      /\ so'.lost = IF so.host[s].open /\ SoEntries(so', s) = {} /\ ~ Listing(s) THEN so.lost \cup {s} ELSE so.lost
  BY <1>1 DEF Unlists, Same
<1>3. Others(t)
  BY DEF Done
<1>4. s \in Ours /\ s \in SoNumbers
  BY <1>1, <1>2 DEF SoListed, SoOpened, Ours
<1>5. \A ss : Listing(ss)' <=> Listing(ss)
  BY <1>2, <1>3 DEF Listing, Others
<1>6. Closing(s)' = Closing(s) \ {t} /\ t \in Closing(s)
  BY <1>1, <1>2, <1>3 DEF Closing, Others
<1>7. /\ Counts(SoEntries(so, s), Closing(s), Up(s))
      /\ IsFiniteSet(SoEntries(so, s)) /\ IsFiniteSet(Closing(s)) /\ Up(s) \in BOOLEAN /\ Up(s)' \in BOOLEAN
  BY <1>4, SoFinite DEF SoListed, SoCounted, Up
<1>8. /\ Up(s)' => Up(s) /\ SoEntries(so', s) # {}
      /\ Up(s) /\ ~ Up(s)' => SoEntries(so', s) = {}
  BY <1>2, <1>5 DEF Up
<1>9. SoCounted(s)' /\ (\A at \in DOMAIN so'.entries : so'.entries[at].socket \in Ours)
      /\ \A ss : ss # s => SoEntries(so', ss) = SoEntries(so, ss)
  <2>1. CASE SoEntries(so, s) = {}
    <3>1. so'.entries = so.entries /\ SoEntries(so', s) = {} /\ \A ss : SoEntries(so', ss) = SoEntries(so, ss)
      BY <1>2, <2>1 DEF SoEntries
    <3>2. ~ Up(s)'
      BY <1>8, <3>1
    <3>3. IsFiniteSet(Closing(s)')
      BY <1>6, <1>7, FS_RemoveElement
    <3>4. Counts({}, Closing(s)', Up(s)')
      BY <1>7, <3>2, <3>3, CountNone
    <3>5. \A at \in DOMAIN so'.entries : so'.entries[at].socket \in Ours
      BY <3>1 DEF SoListed, SoOpened
    <3>6. QED BY <3>1, <3>4, <3>5 DEF SoCounted
  <2>2. CASE SoEntries(so, s) # {}
    <3>1. PICK at \in SoEntries(so, s) : Excludes(so, so', at)
      BY <1>2, <2>2
    <3>2. DOMAIN so'.entries = DOMAIN so.entries \ {at} /\ \A e \in DOMAIN so'.entries : so'.entries[e] = so.entries[e]
      BY <3>1 DEF Excludes
    <3>3. SoEntries(so', s) = SoEntries(so, s) \ {at} /\ \A ss : ss # s => SoEntries(so', ss) = SoEntries(so, ss)
      BY <3>1, <3>2 DEF SoEntries
    <3>4. \A e \in DOMAIN so'.entries : so'.entries[e].socket \in Ours
      BY <3>2 DEF SoListed, SoOpened
    <3>5. Counts(SoEntries(so, s) \ {at}, Closing(s) \ {t}, Up(s)')
      BY <1>6, <1>7, <1>8, <3>3, CountGone
    <3>6. SoCounted(s)'
      BY <1>6, <3>3, <3>5 DEF SoCounted
    <3>7. QED BY <3>3, <3>4, <3>6
  <2>3. QED BY <2>1, <2>2
<1>10. Near(t, s)
  <2>1. so'.host[s].own <=> so'.host[s].open
    BY <1>2, <1>4 DEF SoListed, SoOpened, Ours
  <2>2. \A ss \in SoNumbers \ {s} : Far(t, ss)
    BY <1>1, <1>2, <1>9 DEF Far
  <2>3. s \in so'.lost => so'.host[s].open /\ ~ Listing(s)'
    BY <1>2, <1>5 DEF SoListed, SoOpened
  <2>4. so'.host[s].open \/ \A u \in SoTasks \ {t} : ~ Works(u, s)
    BY <1>2 DEF SoListed, SoOpened, Works
  <2>5. QED BY <1>2, <1>4, <1>9, <2>1, <2>2, <2>3, <2>4 DEF Near
<1>11. QED BY <1>9, <1>10, NearFacts

LEMMA SameListed ==
    ASSUME SoListed, so'.host = so.host, so'.entries = so.entries, so'.lost = so.lost, so'.doing = so.doing
    PROVE  SoListed'
<1>1. \A ss : (Listing(ss)' <=> Listing(ss)) /\ Closing(ss)' = Closing(ss) /\ SoEntries(so', ss) = SoEntries(so, ss)
  BY DEF Listing, Closing, SoEntries
<1>2. \A ss : Up(ss)' = Up(ss)
  BY <1>1 DEF Up
<1>3. \A ss \in Ours : SoCounted(ss)'
  BY <1>1, <1>2 DEF SoListed, SoCounted
<1>4. SoOpened'
  BY <1>1 DEF SoListed, SoOpened, Works
<1>5. QED BY <1>3, <1>4 DEF SoListed

(* A program that has nothing listed and no call under way. *)
SoEmpty ==
    /\ DOMAIN so.entries = {} /\ \A t \in SoTasks : so.doing[t].step = "idle"
    /\ \A ss \in SoNumbers : so.host[ss].own <=> so.host[ss].open /\ ss \notin SoForeign
    /\ \A ss \in SoForeign : so.host[ss].open
    /\ \A ss \in so.lost : ss \in Ours /\ so.host[ss].open
    /\ \A ss \in Ours : ~ Up(ss)

LEMMA EmptyListed == SoEmpty => SoListed
<1> SUFFICES ASSUME SoEmpty PROVE SoListed
  OBVIOUS
<1>1. \A ss : ~ Listing(ss) /\ Closing(ss) = {} /\ SoEntries(so, ss) = {}
  BY DEF SoEmpty, Listing, Closing, SoEntries
<1>2. ASSUME NEW ss \in Ours PROVE SoCounted(ss)
  <2>1. Up(ss) \in BOOLEAN /\ ~ Up(ss) /\ IsFiniteSet({})
    BY FS_EmptySet DEF SoEmpty, Up
  <2>2. Counts({}, {}, Up(ss))
    BY <2>1, CountNone
  <2>3. QED BY <1>1, <2>2 DEF SoCounted
<1>3. SoOpened
  BY <1>1 DEF SoEmpty, SoOpened, Works, Listing1
<1>4. QED BY <1>2, <1>3 DEF SoListed

LEMMA ClearListed == so = SoClear => SoListed
<1> SUFFICES ASSUME so = SoClear PROVE SoListed
  OBVIOUS
<1>1. /\ so.entries = <<>> /\ so.lost = {} /\ \A t \in SoTasks : so.doing[t].step = "idle"
  BY IdleFacts DEF SoClear
<1>2. DOMAIN so.entries = {}
  BY <1>1
<1>3. \A ss \in SoNumbers : so.host[ss] = IF ss \in SoForeign THEN [NotOpen EXCEPT !.open = TRUE] ELSE NotOpen
  BY DEF SoClear
<1>4. ~ NotOpen.own /\ ~ NotOpen.open /\ ~ [NotOpen EXCEPT !.open = TRUE].own /\ [NotOpen EXCEPT !.open = TRUE].open
  BY DEF NotOpen
<1>5. \A ss \in SoNumbers : ~ so.host[ss].own /\ (so.host[ss].open <=> ss \in SoForeign)
  BY <1>3, <1>4
<1>6. \A ss \in Ours : ~ Up(ss)
  BY <1>5 DEF Up, Ours
<1>7. QED BY <1>1, <1>2, <1>5, <1>6, SoAssumption, EmptyListed DEF SoEmpty

LEMMA ExitListed == ASSUME SoStored, Exits, SoListed PROVE SoListed'
<1>1. so'.doing = so.doing /\ \A t \in SoTasks : so.doing[t].step = "idle"
  BY IdleFacts DEF Exits, Same
<1>2. CASE ~ result'.closed
  BY <1>1, <1>2, SameListed DEF Exits, Same
<1>3. CASE result'.closed
  <2>1. /\ DOMAIN so'.entries = {} /\ so'.lost = so.lost \ ListedNumbers(so)
        /\ \A ss \in SoNumbers : so'.host[ss] = IF ss \in ListedNumbers(so) THEN NotOpen ELSE so.host[ss]
    BY <1>3 DEF Exits
  <2>2. ListedNumbers(so) \subseteq Ours
    BY DEF ListedNumbers, SoListed, SoOpened
  <2>3. ~ NotOpen.open /\ ~ NotOpen.own
    BY DEF NotOpen
  <2>4. \A ss : SoEntries(so, ss) # {} => ss \in ListedNumbers(so)
    BY DEF SoEntries, ListedNumbers
  <2>5. \A ss \in SoNumbers : so'.host[ss].own <=> so'.host[ss].open /\ ss \notin SoForeign
    BY <2>1, <2>3 DEF SoListed, SoOpened
  <2>6. \A ss \in SoForeign : so'.host[ss].open
    BY <2>1, <2>2, SoAssumption DEF SoListed, SoOpened, Ours
  <2>7. \A ss \in so'.lost : ss \in Ours /\ so'.host[ss].open
    BY <2>1 DEF SoListed, SoOpened, Ours
  <2>8. ASSUME NEW ss \in Ours PROVE ~ Up(ss)'
    <3>1. SUFFICES ASSUME Up(ss)' PROVE FALSE
      OBVIOUS
    <3>2. ss \in SoNumbers /\ so'.host[ss].open /\ ss \notin so'.lost
      BY <3>1 DEF Up, Ours
    <3>3. ss \notin ListedNumbers(so) /\ so.host[ss].open /\ ss \notin so.lost
      BY <2>1, <2>3, <3>2
    <3>4. ~ Listing(ss)
      BY <1>1 DEF Listing
    <3>5. SoEntries(so, ss) # {}
      BY <3>3, <3>4 DEF SoListed, SoCounted, Counts, Up
    <3>6. QED BY <2>4, <3>3, <3>5
  <2>9. \A t \in SoTasks : so'.doing[t].step = "idle"
    BY <1>1
  <2>10. SoEmpty'
    BY <2>1, <2>5, <2>6, <2>7, <2>8, <2>9 DEF SoEmpty
  <2>11. (SoEmpty => SoListed)'
    BY EmptyListed, PTL
  <2>12. QED BY <2>10, <2>11
<1>4. QED BY <1>2, <1>3

LEMMA SoListedStep ==
    ASSUME SoStored, SoListed, [SoNext]_<<ledger, result, so>>
    PROVE  SoListed'
<1>1. ASSUME NEW t \in SoTasks, Done(t), Steps(t) PROVE SoListed'
  <2>1. CASE \/ Stays(t) \/ Asks(t) \/ Told1(t) \/ Meets(t) \/ Finds(t) \/ Puts(t)
             \/ \E ss \in SoNumbers : Binds(t, ss) \/ Connects(t, ss)
    BY <1>1, <2>1, QuietSteps, QuietFacts
  <2>2. CASE \E ss \in SoNumbers : Opens(t, ss)
    BY <1>1, <2>2, OpensFacts
  <2>3. CASE \E ss \in SoNumbers : Closes(t, ss)
    BY <1>1, <2>3, ClosesFacts
  <2>4. CASE Lists(t)
    BY <1>1, <2>4, ListsFacts
  <2>5. CASE Unlists(t)
    BY <1>1, <2>5, UnlistsFacts
  <2>6. QED BY <1>1, <2>1, <2>2, <2>3, <2>4, <2>5 DEF Steps
<1>2. CASE Exits
  BY <1>2, ExitListed
<1>3. CASE Restarts
  <2>1. so' = SoClear
    BY <1>3 DEF Restarts
  <2>2. (so = SoClear => SoListed)'
    BY ClearListed, PTL
  <2>3. QED BY <2>1, <2>2
<1>4. CASE Rests \/ UNCHANGED <<ledger, result, so>>
  <2>1. so' = so
    BY <1>4 DEF Rests
  <2>2. QED BY <2>1, SameListed
<1>5. QED BY <1>1, <1>2, <1>3, <1>4, SoNextFacts

SoOwn == {ss \in SoNumbers : so.host[ss].own}

(* Between the calls the list has an entry for each socket, and no other.  *)
LEMMA EntryNow ==
    ASSUME SoStored, SoListed, \A t \in SoTasks : so.doing[t].step = "idle"
    PROVE  /\ \A at \in DOMAIN so.entries : so.entries[at].socket \in SoOwn \ so.lost
           /\ \A a, b \in DOMAIN so.entries : so.entries[a].socket = so.entries[b].socket => a = b
           /\ \A ss \in SoOwn \ so.lost : \E at \in DOMAIN so.entries : so.entries[at].socket = ss
           /\ so.lost \subseteq SoOwn
<1>1. \A ss : ~ Listing(ss) /\ Closing(ss) = {}
  BY DEF Listing, Closing
<1>2. \A ss : Up(ss) <=> so.host[ss].open /\ ss \notin so.lost
  BY <1>1 DEF Up
<1>3. Cardinality({}) = 0
  BY FS_EmptySet
<1>4. ASSUME NEW ss \in Ours PROVE Cardinality(SoEntries(so, ss)) =< (IF Up(ss) THEN 1 ELSE 0) /\ (Up(ss) => SoEntries(so, ss) # {})
  BY <1>1, <1>3 DEF SoListed, SoCounted, Counts
<1>5. ASSUME NEW ss \in Ours, NEW a \in SoEntries(so, ss) PROVE Up(ss) /\ SoEntries(so, ss) = {a}
  <2> DEFINE E == SoEntries(so, ss)
  <2>1. IsFiniteSet(E) /\ Cardinality(E) =< (IF Up(ss) THEN 1 ELSE 0)
    BY <1>4, SoFinite
  <2>2. a \in E
    OBVIOUS
  <2> HIDE DEF E
  <2>3. Cardinality(E) \in Nat /\ Cardinality(E) # 0
    BY <2>1, <2>2, FS_CardinalityType, FS_EmptySet
  <2>4. Up(ss) /\ Cardinality(E) = 1
    BY <2>1, <2>3
  <2>5. \E x : E = {x}
    BY <2>1, <2>4, FS_Singleton
  <2>6. QED BY <2>2, <2>4, <2>5 DEF E
<1>6. \A at \in DOMAIN so.entries : so.entries[at].socket \in Ours /\ at \in SoEntries(so, so.entries[at].socket)
  BY DEF SoListed, SoOpened, SoEntries
<1>7. \A ss \in SoNumbers : ss \in SoOwn <=> ss \in Ours /\ so.host[ss].open
  BY DEF SoListed, SoOpened, SoOwn, Ours
<1>8. \A at \in DOMAIN so.entries : so.entries[at].socket \in SoOwn \ so.lost
  BY <1>2, <1>5, <1>6, <1>7 DEF Ours
<1>9. \A a, b \in DOMAIN so.entries : so.entries[a].socket = so.entries[b].socket => a = b
  <2> SUFFICES ASSUME NEW a \in DOMAIN so.entries, NEW b \in DOMAIN so.entries, so.entries[a].socket = so.entries[b].socket
               PROVE  a = b
    OBVIOUS
  <2>1. PICK ss : ss = so.entries[a].socket
    OBVIOUS
  <2>2. ss \in Ours /\ a \in SoEntries(so, ss) /\ b \in SoEntries(so, ss)
    BY <1>6, <2>1
  <2>3. SoEntries(so, ss) = {a} /\ SoEntries(so, ss) = {b}
    BY <1>5, <2>2
  <2>4. QED BY <2>3
<1>10. ASSUME NEW ss \in SoOwn \ so.lost PROVE \E at \in DOMAIN so.entries : so.entries[at].socket = ss
  <2>1. ss \in Ours /\ Up(ss)
    BY <1>2, <1>7 DEF SoOwn
  <2>2. SoEntries(so, ss) # {}
    BY <1>4, <2>1
  <2>3. QED BY <2>2 DEF SoEntries
<1>11. so.lost \subseteq SoOwn
  BY <1>7 DEF SoListed, SoOpened, Ours
<1>12. QED BY <1>8, <1>9, <1>10, <1>11

LEMMA ListNow ==
    ASSUME SoStored, SoListed, \A t \in SoTasks : so.doing[t].step = "idle"
    PROVE  /\ SoOwn = {so.entries[at].socket : at \in DOMAIN so.entries} \cup so.lost
           /\ Cardinality(DOMAIN so.entries) + Cardinality(so.lost) = Cardinality(SoOwn)
           /\ ListedSockets(so) = DOMAIN so.entries /\ so.array.count = Cardinality(SoOwn \ so.lost)
<1> DEFINE E == DOMAIN so.entries
           n == so.array.count
           L == SoOwn \ so.lost
<1>1. /\ \A at \in E : so.entries[at].socket \in L
      /\ \A a, b \in E : so.entries[a].socket = so.entries[b].socket => a = b
      /\ \A ss \in L : \E at \in E : so.entries[at].socket = ss
      /\ so.lost \subseteq SoOwn
  BY EntryNow
<1>2. /\ n \in Nat /\ \A i \in 1 .. n : so.array.slots[i] \in E
      /\ \A i, j \in 1 .. n : so.array.slots[i] = so.array.slots[j] => i = j
      /\ \A at \in E : \E i \in 1 .. n : so.array.slots[i] = at
  BY DEF SoStored, SoHolds, SoBlocks, ArrayOK
<1>3. IsFiniteSet(E) /\ Cardinality(E) = n
  <2> DEFINE D == 1 .. n
             f == [i \in D |-> so.array.slots[i]]
  <2>1. IsFiniteSet(D) /\ Cardinality(D) = n
    <3>1. n \in Nat
      BY <1>2
    <3> HIDE DEF n
    <3>2. IsFiniteSet(1 .. n) /\ Cardinality(1 .. n) = IF 1 > n THEN 0 ELSE n - 1 + 1
      <4>1. 1 \in Int /\ n \in Int
        BY <3>1
      <4>2. QED BY <4>1, FS_Interval
    <3>3. QED BY <3>1, <3>2
  <2>2. f \in [D -> E] /\ (\A i, j \in D : f[i] = f[j] => i = j) /\ \A at \in E : \E i \in D : f[i] = at
    BY <1>2
  <2> HIDE DEF f, E, n, D
  <2>3. QED BY <2>1, <2>2, OneToOne
<1>4. IsFiniteSet(L) /\ Cardinality(L) = Cardinality(E)
  <2> DEFINE f == [at \in E |-> so.entries[at].socket]
  <2>1. f \in [E -> L] /\ (\A i, j \in E : f[i] = f[j] => i = j) /\ \A ss \in L : \E at \in E : f[at] = ss
    BY <1>1
  <2> HIDE DEF f, E, L
  <2>2. QED BY <1>3, <2>1, OneToOne
<1>5. IsFiniteSet(so.lost)
  <2>1. so.lost \subseteq SoNumbers /\ IsFiniteSet(SoNumbers)
    BY SoAssumption DEF SoListed, SoOpened, Ours
  <2>2. QED BY <2>1, FS_Subset
<1>6. SoOwn = L \cup so.lost /\ L \cap so.lost = {}
  BY <1>1
<1>7. Cardinality(SoOwn) = Cardinality(L) + Cardinality(so.lost)
  <2> HIDE DEF L
  <2>1. /\ Cardinality(L \cup so.lost) = Cardinality(L) + Cardinality(so.lost) - Cardinality(L \cap so.lost)
        /\ Cardinality(L) \in Nat /\ Cardinality(so.lost) \in Nat
    BY <1>4, <1>5, FS_Union, FS_CardinalityType
  <2>2. Cardinality({}) = 0
    BY FS_EmptySet
  <2>3. Cardinality(L \cap so.lost) = 0 /\ Cardinality(SoOwn) = Cardinality(L \cup so.lost)
    BY <1>6, <2>2
  <2>4. QED BY <2>1, <2>3
<1>8. {so.entries[at].socket : at \in E} = L
  BY <1>1
<1>9. ListedSockets(so) = E
  BY <1>2 DEF ListedSockets
<1>10. QED BY <1>3, <1>4, <1>6, <1>7, <1>8, <1>9

(* The end of the program closed what it had. *)
SoClosed == result.op = "ended" /\ result.closed => SoOwn = so.lost /\ SoOwns = so.unlisted

LEMMA ExitClosed == ASSUME SoStored, SoListed, Exits PROVE SoClosed'
<1>1. SUFFICES ASSUME result'.closed PROVE SoOwn' = so'.lost /\ SoOwns' = so'.unlisted
  BY DEF SoClosed
<1>2. /\ DOMAIN so'.entries = {} /\ so'.array.block = NULL /\ so'.lost = so.lost \ ListedNumbers(so)
      /\ \A ss \in SoNumbers : so'.host[ss] = IF ss \in ListedNumbers(so) THEN NotOpen ELSE so.host[ss]
      /\ \A t \in SoTasks : so.doing[t].step = "idle"
  BY <1>1, IdleFacts DEF Exits
<1>3. SoStored'
  BY DEF Exits
<1>4. SoOwns' = so'.unlisted
  <2>1. \A at \in so'.unlisted : at # NULL
    BY <1>3, NullFacts DEF SoStored, SoHolds, SoBlocks
  <2>2. QED BY <1>2, <2>1 DEF SoOwns, OwnsSockets
<1>5. /\ \A ss \in SoOwn \ so.lost : ss \in ListedNumbers(so)
      /\ so.lost \subseteq SoOwn
  BY <1>2, EntryNow DEF ListedNumbers
<1>6. ~ NotOpen.own
  BY DEF NotOpen
<1>7. SoOwn' = {ss \in SoNumbers : so'.host[ss].own}
  BY DEF SoOwn
<1>8. \A ss \in SoNumbers : ss \in SoOwn' <=> ss \in SoOwn /\ ss \notin ListedNumbers(so)
  BY <1>2, <1>6, <1>7 DEF SoOwn
<1>9. SoOwn' \subseteq SoNumbers /\ so'.lost \subseteq SoNumbers
  BY <1>2, <1>5, <1>7 DEF SoOwn
<1>10. \A ss \in SoNumbers : ss \in SoOwn' <=> ss \in so'.lost
  BY <1>2, <1>5, <1>8
<1>11. QED BY <1>4, <1>9, <1>10

LEMMA SoClosedStep ==
    ASSUME SoStored, SoListed, SoClosed, [SoNext]_<<ledger, result, so>>
    PROVE  SoClosed'
<1>1. Ready => result.op # "ended"
  BY DEF Ready, Seen
<1>2. CASE result' = result /\ Ready
  BY <1>1, <1>2 DEF SoClosed
<1>3. CASE Exits
  BY <1>3, ExitClosed
<1>4. CASE Rests
  BY <1>4 DEF Rests, SoClosed
<1>5. CASE UNCHANGED <<ledger, result, so>>
  BY <1>5 DEF SoClosed, SoOwn, SoOwns, OwnsSockets
<1>6. QED BY <1>2, <1>3, <1>4, <1>5, SoNextFacts DEF Done, Restarts

LEMMA ListedFacts == ASSUME SoStored, SoListed, SoClosed PROVE SocketsAreListed
<1>1. ASSUME \A t \in SoTasks : so.doing[t] = SoIdle
      PROVE  /\ SoOwn = {so.entries[at].socket : at \in DOMAIN so.entries} \cup so.lost
             /\ Cardinality(DOMAIN so.entries) + Cardinality(so.lost) = Cardinality(SoOwn)
             /\ ListedSockets(so) = DOMAIN so.entries /\ so.array.count = Cardinality(SoOwn \ so.lost)
  BY <1>1, IdleFacts, ListNow
<1>2. so.array.count =< so.array.size
  BY DEF SoStored, SoHolds, SoBlocks, ArrayOK
<1>3. \A ss \in SoForeign : so.host[ss].open /\ ~so.host[ss].own
  BY SoAssumption DEF SoListed, SoOpened
<1>4. QED BY <1>1, <1>2, <1>3 DEF SocketsAreListed, SoClosed, SoOwn

(* What the emulator has open for a program is what its list has, each     *)
(* number once, but for those that could not be listed, whatever the       *)
(* calls of its threads do to each other; and nothing that was listed      *)
(* stays open at its end (@@soadd.c, @@sodel.c, @@soend.c).                *)
THEOREM SocketsStayListed == SoSpec => []SocketsAreListed
<1> DEFINE IInv == SoStored /\ SoListed /\ SoClosed
<1>1. LedgerInit /\ SoInit => IInv
  <2> SUFFICES ASSUME LedgerInit, SoInit PROVE IInv
    OBVIOUS
  <2>1. SoStored /\ SoListed
    BY SoInitFacts, ClearListed DEF SoInit
  <2>2. SoClosed
    BY DEF LedgerInit, Seen, SoClosed
  <2>3. QED BY <2>1, <2>2
<1>2. IInv /\ [SoNext]_<<ledger, result, so>> => IInv'
  BY SoStoredStep, SoListedStep, SoClosedStep
<1>3. IInv => SocketsAreListed
  BY ListedFacts
<1> HIDE DEF IInv
<1>4. QED BY <1>1, <1>2, <1>3, PTL DEF SoSpec

----------------------------------------------------------------------------
(* The addresses an entry has.                                             *)

(* An address of the socket, or one that says nothing. *)
NameOf(ss, name) == name \in {"", so.host[ss].name, so.host[ss].given}
PeerOf(ss, peer) == peer \in {"", so.host[ss].peer} \/ so.host[ss].peer = ""
(* The task that is about to write the entry knows the peer. *)
Told(t, ss, at) ==
    /\ Works(t, ss) /\ so.doing[t].step \in {"conn", "upd", "put"} /\ so.doing[t].peer = so.host[ss].peer
    /\ so.doing[t].step = "put" => so.doing[t].at = at
TaskTrue(t, ss) ==
    LET d == so.doing[t]
    IN  /\ NameOf(ss, d.name)
        /\ d.step = "conn" => d.peer = so.host[ss].peer
        /\ d.step \in {"upd", "put"} => PeerOf(ss, d.peer)
        /\ d.step = "put" /\ d.at # NULL => d.at \in SoEntries(so, ss) \/ ss \in so.lost
EntryTrue(ss, at) ==
    NameOf(ss, so.entries[at].name) /\ (PeerOf(ss, so.entries[at].peer) \/ \E t \in SoTasks : Told(t, ss, at))
Clean(ss) ==
    /\ \A a, b \in SoEntries(so, ss) : a = b
    /\ Listing(ss) \/ ss \in so.lost => SoEntries(so, ss) = {}
    /\ \A at \in SoEntries(so, ss) : EntryTrue(ss, at)
    /\ \A t \in SoTasks : Works(t, ss) => TaskTrue(t, ss)
Unnamed == \A ss \in SoNumbers : so.host[ss].name = "" => so.host[ss].given = ""
SoNamed ==
    /\ ~ so.wild /\ Unnamed
    /\ \A ss \in SoNumbers \ so.mixed : so.host[ss].open => Clean(ss)

Alike(ss) == \A at \in SoEntries(so, ss) : so'.entries[at] = so.entries[at]

LEMMA FarClean ==
    ASSUME NEW t \in SoTasks, Others(t), NEW ss, Far(t, ss), Alike(ss), Clean(ss)
    PROVE  Clean(ss)'
<1>1. FarSame(ss)
  BY FarFacts
<1>2. /\ so'.host[ss] = so.host[ss] /\ (ss \in so'.lost <=> ss \in so.lost) /\ SoEntries(so', ss) = SoEntries(so, ss)
      /\ \A u \in SoTasks : Works(u, ss)' <=> Works(u, ss)
      /\ Listing(ss)' <=> Listing(ss)
  BY <1>1 DEF FarSame
<1>3. \A u \in SoTasks : Works(u, ss) => so'.doing[u] = so.doing[u]
  BY DEF Works, Far, Others
<1>4. \A x : (NameOf(ss, x)' <=> NameOf(ss, x)) /\ (PeerOf(ss, x)' <=> PeerOf(ss, x))
  BY <1>2 DEF NameOf, PeerOf
<1>5. \A at : \A u \in SoTasks : Told(u, ss, at) => Told(u, ss, at)'
  BY <1>2, <1>3 DEF Told
<1>6. \A at \in SoEntries(so, ss) : so'.entries[at] = so.entries[at]
  BY DEF Alike
<1>7. ASSUME NEW at \in SoEntries(so, ss) PROVE EntryTrue(ss, at)'
  <2>1. EntryTrue(ss, at) /\ so'.entries[at] = so.entries[at]
    BY <1>6 DEF Clean
  <2>2. NameOf(ss, so.entries[at].name)' /\ (PeerOf(ss, so.entries[at].peer)' \/ \E u \in SoTasks : Told(u, ss, at)')
    <3>1. NameOf(ss, so.entries[at].name)'
      BY <1>2, <2>1 DEF EntryTrue, NameOf
    <3>2. PeerOf(ss, so.entries[at].peer)' \/ \E u \in SoTasks : Told(u, ss, at)'
      BY <1>2, <1>5, <2>1 DEF EntryTrue, PeerOf
    <3>3. QED BY <3>1, <3>2
  <2>3. QED BY <2>2 DEF EntryTrue
<1>8. ASSUME NEW u \in SoTasks, Works(u, ss)' PROVE TaskTrue(u, ss)'
  <2>1. Works(u, ss) /\ TaskTrue(u, ss) /\ so'.doing[u] = so.doing[u]
    BY <1>2, <1>3, <1>8 DEF Clean
  <2>2. QED BY <1>2, <2>1 DEF TaskTrue, NameOf, PeerOf
<1>9. QED BY <1>2, <1>7, <1>8 DEF Clean

(* A step that has to do with one socket. *)
NearNames(t, s) ==
    /\ \A ss \in SoNumbers \ {s} :
          Far(t, ss) /\ (Alike(ss) \/ ss \in so'.mixed) /\ (ss \in so.mixed => ss \in so'.mixed)
    /\ so'.host[s].name = "" => so'.host[s].given = ""
    /\ so'.wild => so.wild

LEMMA NearClean ==
    ASSUME NEW t \in SoTasks, Done(t), NEW s \in SoNumbers, NearNames(t, s), SoNamed,
           s \notin so'.mixed /\ so'.host[s].open => Clean(s)'
    PROVE  SoNamed'
<1>1. Others(t)
  BY DEF Done
<1>2. ASSUME NEW ss \in SoNumbers \ so'.mixed, so'.host[ss].open PROVE Clean(ss)'
  <2>1. CASE ss = s
    BY <1>2, <2>1
  <2>2. CASE ss # s
    <3>1. Far(t, ss) /\ Alike(ss) /\ ss \notin so.mixed
      BY <2>2 DEF NearNames
    <3>2. Clean(ss)
      BY <1>2, <3>1 DEF SoNamed, Far
    <3>3. QED BY <1>1, <3>1, <3>2, FarClean
  <2>3. QED BY <2>1, <2>2
<1>3. ~ so'.wild
  BY DEF NearNames, SoNamed
<1>4. Unnamed'
  BY DEF NearNames, SoNamed, Unnamed, Far
<1>5. QED BY <1>2, <1>3, <1>4 DEF SoNamed

(* What is found of a socket that is not mixed up. *)
LEMMA AskFacts ==
    ASSUME SoStored, NEW ss, Clean(ss)
    PROVE  /\ NameOf(ss, __75snam(so, ss))
           /\ so.host[ss].name # "" => __75snam(so, ss) # ""
           /\ SoEntries(so, ss) = {} => __75snam(so, ss) = so.host[ss].name /\ __75pnam(so, ss) = so.host[ss].peer
           /\ (\A at : \A t \in SoTasks : ~ Told(t, ss, at)) /\ so.host[ss].peer # "" => __75pnam(so, ss) = so.host[ss].peer
<1>1. SoBlocks(so)
  BY DEF SoStored, SoHolds
<1> DEFINE e == Entry(so, ss)
<1>2. CASE SoEntries(so, ss) = {}
  <2>1. e = NULL
    BY <1>1, <1>2, FindFacts
  <2>2. \A w : Remembered(so, ss, w) = ""
    BY <2>1 DEF Remembered
  <2>3. __75snam(so, ss) = so.host[ss].name /\ __75pnam(so, ss) = so.host[ss].peer
    BY <2>2 DEF __75snam, __75pnam, AskedName
  <2>4. QED BY <1>2, <2>3 DEF NameOf
<1>3. CASE SoEntries(so, ss) # {}
  <2>1. e # NULL /\ e \in SoEntries(so, ss)
    BY <1>1, <1>3, FindFacts
  <2>2. \A w : Remembered(so, ss, w) = so.entries[e][w]
    BY <2>1 DEF Remembered
  <2>3. EntryTrue(ss, e)
    BY <2>1 DEF Clean
  <2> HIDE DEF e
  <2>4. /\ __75snam(so, ss) = IF so.entries[e].name # "" THEN so.entries[e].name ELSE so.host[ss].name
        /\ __75pnam(so, ss) = IF so.entries[e].peer # "" THEN so.entries[e].peer ELSE so.host[ss].peer
    BY <2>2 DEF __75snam, __75pnam, AskedName
  <2>5. NameOf(ss, __75snam(so, ss)) /\ (so.host[ss].name # "" => __75snam(so, ss) # "")
    BY <2>3, <2>4 DEF EntryTrue, NameOf
  <2>6. (\A at : \A t \in SoTasks : ~ Told(t, ss, at)) /\ so.host[ss].peer # "" => __75pnam(so, ss) = so.host[ss].peer
    BY <2>3, <2>4 DEF EntryTrue, PeerOf
  <2>7. QED BY <1>3, <2>5, <2>6
<1>4. QED BY <1>2, <1>3

LEMMA NamesFollow == ASSUME SoStored, SoNamed PROVE NamesAreOwn
<1>1. ASSUME NEW ss \in SoNumbers \ so.mixed, AtRest(ss) PROVE AnswersOwn(ss)
  <2>1. Clean(ss)
    BY <1>1 DEF SoNamed, AtRest
  <2>2. \A at : \A t \in SoTasks : ~ Told(t, ss, at)
    BY <1>1 DEF AtRest, Told, Works
  <2>3. so.host[ss].name # "" => __75snam(so, ss) \in {so.host[ss].name, so.host[ss].given}
    BY <2>1, AskFacts DEF NameOf
  <2>4. so.host[ss].peer # "" => __75pnam(so, ss) = so.host[ss].peer
    BY <2>1, <2>2, AskFacts
  <2>5. QED BY <2>3, <2>4 DEF AnswersOwn
<1>2. QED BY <1>1 DEF SoNamed, NamesAreOwn

LEMMA Alone ==
    ASSUME SoListed, NEW t \in SoTasks, so.doing[t].step \notin {"idle", "del"}, NEW s, s = so.doing[t].ss
    PROVE  s \in SoNumbers /\ so.host[s].open /\ Works(t, s) /\ \A u \in SoTasks \ {t} : ~ Works(u, s)
<1>1. s \in SoNumbers /\ so.host[s].open /\ Works(t, s)
  BY DEF SoListed, SoOpened, Works
<1>2. QED BY <1>1 DEF SoListed, SoOpened

LEMMA PassClean ==
    ASSUME SoStored, SoListed, SoNamed, NEW t \in SoTasks, Done(t), NEW from, NEW to, Passes(t, from, to),
           from \notin {"idle", "del"}, to \notin {"idle", "del"}, to \in Listing1 <=> from \in Listing1,
           NEW s, s = so.doing[t].ss, Clean(s) => TaskTrue(t, s)',
           Clean(s) => \A at \in SoEntries(so, s) : Told(t, s, at) => Told(t, s, at)'
    PROVE  SoNamed'
<1>1. /\ so.doing[t].step = from /\ so'.doing[t].step = to /\ so'.doing[t].ss = s
      /\ so'.host = so.host /\ so'.entries = so.entries /\ so'.lost = so.lost /\ so'.mixed = so.mixed /\ so'.wild = so.wild
  BY DEF Passes, Same
<1>2. s \in SoNumbers /\ so.host[s].open /\ Works(t, s) /\ \A u \in SoTasks \ {t} : ~ Works(u, s)
  BY <1>1, Alone
<1>3. Others(t)
  BY DEF Done
<1>4. \A ss : SoEntries(so', ss) = SoEntries(so, ss)
  BY <1>1 DEF SoEntries
<1>5. NearNames(t, s)
  <2>1. \A ss \in SoNumbers \ {s} : Far(t, ss) /\ Alike(ss) /\ (ss \in so.mixed => ss \in so'.mixed)
    BY <1>1, <1>4 DEF Far, Alike
  <2>2. so'.host[s].name = "" => so'.host[s].given = ""
    BY <1>1, <1>2 DEF SoNamed, Unnamed
  <2>3. QED BY <1>1, <2>1, <2>2 DEF NearNames
<1>6. ASSUME s \notin so'.mixed PROVE Clean(s)'
  <2>1. Clean(s)
    BY <1>1, <1>2, <1>6 DEF SoNamed
  <2>2. Listing(s)' <=> Listing(s)
    <3>1. Listing(s) <=> \E u \in SoTasks : so.doing[u].ss = s /\ so.doing[u].step \in Listing1
      BY DEF Listing, Listing1
    <3>2. Listing(s)' <=> \E u \in SoTasks : so'.doing[u].ss = s /\ so'.doing[u].step \in Listing1
      BY DEF Listing, Listing1
    <3>3. \A u \in SoTasks : (so'.doing[u].ss = s /\ so'.doing[u].step \in Listing1) <=> (so.doing[u].ss = s /\ so.doing[u].step \in Listing1)
      BY <1>1, <1>3 DEF Others
    <3>4. QED BY <3>1, <3>2, <3>3
  <2>3. ASSUME NEW at \in SoEntries(so, s) PROVE EntryTrue(s, at)'
    <3>1. EntryTrue(s, at)
      BY <2>1 DEF Clean
    <3>2. (NameOf(s, so.entries[at].name))'
      BY <1>1, <3>1 DEF EntryTrue, NameOf
    <3>3. CASE PeerOf(s, so.entries[at].peer)
      <4>1. (PeerOf(s, so.entries[at].peer))'
        BY <1>1, <3>3 DEF PeerOf
      <4>2. QED BY <3>2, <4>1 DEF EntryTrue
    <3>4. CASE \E u \in SoTasks : Told(u, s, at)
      <4>1. Told(t, s, at)
        BY <1>2, <3>4 DEF Told
      <4>2. Told(t, s, at)'
        BY <2>1, <4>1
      <4>3. QED BY <3>2, <4>2 DEF EntryTrue
    <3>5. QED BY <3>1, <3>3, <3>4 DEF EntryTrue
  <2>4. \A u \in SoTasks : Works(u, s)' => u = t
    BY <1>2, <1>3 DEF Works, Others
  <2>5. \A u \in SoTasks : Works(u, s)' => TaskTrue(u, s)'
    BY <2>1, <2>4
  <2>6. QED BY <1>1, <1>4, <2>1, <2>2, <2>3, <2>5 DEF Clean
<1>7. QED BY <1>2, <1>5, <1>6, NearClean

LEMMA AsksNamed == ASSUME SoStored, SoListed, SoNamed, NEW t \in SoTasks, Done(t), Asks(t) PROVE SoNamed'
<1>1. PICK s : s = so.doing[t].ss
  OBVIOUS
<1>2. Passes(t, "snam", "addnamed") /\ so'.doing[t].name = __75snam(so, s)
  BY <1>1 DEF Asks
<1>3. so.doing[t].step = "snam" /\ so'.doing[t].step = "addnamed" /\ so'.host = so.host
  BY <1>2 DEF Passes, Same
<1>4. ASSUME Clean(s) PROVE TaskTrue(t, s)'
  <2>1. NameOf(s, so'.doing[t].name)
    BY <1>2, <1>4, AskFacts
  <2>2. QED BY <1>3, <2>1 DEF TaskTrue, NameOf
<1>5. \A at : ~ Told(t, s, at)
  BY <1>3 DEF Told
<1>6. QED BY <1>1, <1>2, <1>4, <1>5, PassClean DEF Listing1

LEMMA ToldNamed == ASSUME SoStored, SoListed, SoNamed, NEW t \in SoTasks, Done(t), Told1(t) PROVE SoNamed'
<1>1. PICK s : s = so.doing[t].ss
  OBVIOUS
<1>2. Passes(t, "pnam", "upd") /\ so'.doing[t].name = ""
      /\ so'.doing[t].peer = IF __75pnam(so, s) = "" THEN so.doing[t].name ELSE __75pnam(so, s)
  BY <1>1 DEF Told1
<1>3. so.doing[t].step = "pnam" /\ so'.doing[t].step = "upd" /\ so'.host = so.host
  BY <1>2 DEF Passes, Same
<1>4. \A at : \A u \in SoTasks : ~ Told(u, s, at)
  <2>1. Works(t, s) /\ \A u \in SoTasks \ {t} : ~ Works(u, s)
    BY <1>1, <1>3, Alone
  <2>2. QED BY <1>3, <2>1 DEF Told
<1>5. ASSUME Clean(s) PROVE TaskTrue(t, s)'
  <2>1. so.host[s].peer # "" => __75pnam(so, s) = so.host[s].peer
    BY <1>4, <1>5, AskFacts
  <2>2. QED BY <1>2, <1>3, <2>1 DEF TaskTrue, NameOf, PeerOf
<1>6. QED BY <1>1, <1>2, <1>4, <1>5, PassClean DEF Listing1

LEMMA MeetsNamed == ASSUME SoStored, SoListed, SoNamed, NEW t \in SoTasks, Done(t), Meets(t) PROVE SoNamed'
<1>1. PICK s : s = so.doing[t].ss
  OBVIOUS
<1>2. Passes(t, "conn", "upd") /\ so'.doing[t].name = __75snam(so, s) /\ so'.doing[t].peer = so.doing[t].peer
  BY <1>1 DEF Meets
<1>3. so.doing[t].step = "conn" /\ so'.doing[t].step = "upd" /\ so'.host = so.host /\ so'.doing[t].ss = s
  BY <1>1, <1>2 DEF Passes, Same
<1>4. Works(t, s)
  BY <1>1, <1>3 DEF Works
<1>5. ASSUME Clean(s) PROVE TaskTrue(t, s)'
  <2>1. NameOf(s, so'.doing[t].name) /\ so.doing[t].peer = so.host[s].peer
    BY <1>2, <1>3, <1>4, <1>5, AskFacts DEF Clean, TaskTrue
  <2>2. QED BY <1>2, <1>3, <2>1 DEF TaskTrue, NameOf, PeerOf
<1>6. \A at : Told(t, s, at) => Told(t, s, at)'
  BY <1>2, <1>3 DEF Told, Works
<1>7. QED BY <1>1, <1>2, <1>5, <1>6, PassClean DEF Listing1

LEMMA FindsNamed == ASSUME SoStored, SoListed, SoNamed, NEW t \in SoTasks, Done(t), Finds(t) PROVE SoNamed'
<1>1. PICK s : s = so.doing[t].ss
  OBVIOUS
<1>2. Passes(t, "upd", "put") /\ so'.doing[t].name = so.doing[t].name /\ so'.doing[t].peer = so.doing[t].peer
      /\ so'.doing[t].at = Entry(so, s)
  BY <1>1 DEF Finds
<1>3. so.doing[t].step = "upd" /\ so'.doing[t].step = "put" /\ so'.host = so.host /\ so'.entries = so.entries /\ so'.doing[t].ss = s
  BY <1>1, <1>2 DEF Passes, Same
<1>4. Works(t, s)
  BY <1>1, <1>3 DEF Works
<1>5. IF SoEntries(so, s) = {} THEN Entry(so, s) = NULL ELSE Entry(so, s) \in SoEntries(so, s)
  BY FindFacts DEF SoStored, SoHolds
<1>6. SoEntries(so', s) = SoEntries(so, s)
  BY <1>3 DEF SoEntries
<1>7. ASSUME Clean(s) PROVE TaskTrue(t, s)'
  <2>1. NameOf(s, so.doing[t].name) /\ PeerOf(s, so.doing[t].peer)
    BY <1>3, <1>4, <1>7 DEF Clean, TaskTrue
  <2>2. QED BY <1>2, <1>3, <1>5, <1>6, <2>1 DEF TaskTrue, NameOf, PeerOf
<1>8. ASSUME Clean(s), NEW at \in SoEntries(so, s), Told(t, s, at) PROVE Told(t, s, at)'
  <2>1. Entry(so, s) = at
    BY <1>5, <1>8 DEF Clean
  <2>2. QED BY <1>2, <1>3, <1>8, <2>1 DEF Told, Works
<1>9. QED BY <1>1, <1>2, <1>7, <1>8, PassClean DEF Listing1

LEMMA OpensNamed ==
    ASSUME SoStored, SoListed, SoNamed, NEW t \in SoTasks, Done(t), NEW s \in SoNumbers, Opens(t, s)
    PROVE  SoNamed'
<1>1. /\ so.doing[t].step = "idle" /\ ~ so.host[s].open
      /\ so'.doing[t].step \in {"add", "snam"} /\ so'.doing[t].ss = s /\ so'.doing[t].name = ""
      /\ so'.entries = so.entries /\ so'.lost = so.lost /\ so'.wild = so.wild
      /\ so'.mixed = IF SoEntries(so, s) = {} THEN so.mixed ELSE so.mixed \cup {s}
  BY DEF Opens, Same
<1>2. PICK name, peer : HostSet(so, so', s, NewHost(name, peer))
  BY DEF Opens
<1>3. so'.host[s].given = "" /\ \A x \in SoNumbers \ {s} : so'.host[x] = so.host[x]
  <2>1. NewHost(name, peer).given = ""
    BY DEF NewHost
  <2>2. QED BY <1>2, <2>1 DEF HostSet
<1>4. Others(t)
  BY DEF Done
<1>5. \A ss : SoEntries(so', ss) = SoEntries(so, ss)
  BY <1>1 DEF SoEntries
<1>6. \A u \in SoTasks : ~ Works(u, s)
  BY <1>1 DEF SoListed, SoOpened, Works
<1>7. NearNames(t, s)
  BY <1>1, <1>3, <1>5 DEF NearNames, Far, Alike
<1>8. ASSUME s \notin so'.mixed PROVE Clean(s)'
  <2>1. SoEntries(so', s) = {}
    BY <1>1, <1>5, <1>8
  <2>2. \A u \in SoTasks : Works(u, s)' => u = t
    BY <1>4, <1>6 DEF Works, Others
  <2>3. TaskTrue(t, s)'
    BY <1>1 DEF TaskTrue, NameOf
  <2>4. QED BY <2>1, <2>2, <2>3 DEF Clean
<1>9. QED BY <1>7, <1>8, NearClean

LEMMA ListsNamed == ASSUME SoStored, SoListed, SoNamed, NEW t \in SoTasks, Done(t), Lists(t) PROVE SoNamed'
<1>1. PICK s : s = so.doing[t].ss
  OBVIOUS
<1> DEFINE d == so.doing[t]
<1>2. d.step \in {"add", "addnamed"} /\ so'.host = so.host /\ so'.mixed = so.mixed /\ so'.wild = so.wild
  BY DEF Lists, Same
<1>3. so'.doing[t].step = "idle" \/ (so'.doing[t].step = "pnam" /\ so'.doing[t].ss = s /\ so'.doing[t].name = d.name)
  BY <1>1 DEF Lists
<1>4. \/ so'.lost = so.lost /\ \E at : Includes(so, so', at, NewSocket(s, d.name, ""))
      \/ so'.lost = so.lost \cup {s} /\ so'.entries = so.entries
  BY <1>1 DEF Lists
<1>5. Others(t)
  BY DEF Done
<1>6. s \in SoNumbers /\ so.host[s].open /\ Works(t, s) /\ \A u \in SoTasks \ {t} : ~ Works(u, s)
  BY <1>1, <1>2, Alone
<1>7. Listing(s)
  BY <1>1, <1>2 DEF Listing
<1> HIDE DEF d
<1>8. ~ Listing(s)' /\ \A u \in SoTasks : Works(u, s)' => u = t
  <2>1. \A u \in SoTasks \ {t} : ~ Works(u, s)'
    BY <1>5, <1>6 DEF Works, Others
  <2>2. \A u \in SoTasks \ {t} : ~ (so'.doing[u].ss = s /\ so'.doing[u].step \in {"add", "snam", "addnamed"})
    BY <2>1 DEF Works
  <2>3. QED BY <1>3, <2>1, <2>2 DEF Listing
<1>9. \/ so'.lost = so.lost /\ \E at : at \notin DOMAIN so.entries /\ DOMAIN so'.entries = DOMAIN so.entries \cup {at}
             /\ so'.entries[at].socket = s /\ so'.entries[at].name = d.name /\ so'.entries[at].peer = ""
             /\ \A e \in DOMAIN so.entries : so'.entries[e] = so.entries[e]
      \/ so'.lost = so.lost \cup {s} /\ so'.entries = so.entries
  <2>1. NewSocket(s, d.name, "").socket = s /\ NewSocket(s, d.name, "").name = d.name /\ NewSocket(s, d.name, "").peer = ""
    BY DEF NewSocket
  <2>2. QED BY <1>4, <2>1 DEF Includes
<1>10. \A ss : ss # s => SoEntries(so', ss) = SoEntries(so, ss) /\ Alike(ss)
  <2>1. CASE so'.entries = so.entries
    BY <2>1 DEF SoEntries, Alike
  <2>2. CASE so'.lost = so.lost /\ so'.entries # so.entries
    <3>1. PICK at : at \notin DOMAIN so.entries /\ DOMAIN so'.entries = DOMAIN so.entries \cup {at}
             /\ so'.entries[at].socket = s /\ \A e \in DOMAIN so.entries : so'.entries[e] = so.entries[e]
      BY <1>9, <2>2
    <3>2. QED BY <3>1 DEF SoEntries, Alike
  <2>3. QED BY <1>9, <2>1, <2>2
<1>11. NearNames(t, s)
  <2>1. \A ss \in SoNumbers \ {s} : Far(t, ss)
    BY <1>1, <1>2, <1>3, <1>9, <1>10 DEF Far, d
  <2>2. so'.host[s].name = "" => so'.host[s].given = ""
    BY <1>2, <1>6 DEF SoNamed, Unnamed
  <2>3. QED BY <1>2, <1>10, <2>1, <2>2 DEF NearNames
<1>12. ASSUME s \notin so'.mixed PROVE Clean(s)'
  <2>1. Clean(s)
    BY <1>2, <1>6, <1>12 DEF SoNamed
  <2>2. SoEntries(so, s) = {} /\ NameOf(s, d.name)
    BY <1>6, <1>7, <2>1 DEF Clean, TaskTrue, d
  <2>3. s \notin so.lost
    BY <1>7 DEF SoListed, SoOpened
  <2>5. \A u \in SoTasks : Works(u, s)' => TaskTrue(u, s)'
    <3>1. Works(t, s)' => TaskTrue(t, s)'
      BY <1>2, <1>3, <2>2 DEF TaskTrue, Works, NameOf
    <3>2. QED BY <1>8, <3>1
  <2>6. CASE so'.lost = so.lost \cup {s} /\ so'.entries = so.entries
    <3>1. SoEntries(so', s) = {}
      BY <2>2, <2>6 DEF SoEntries
    <3>2. QED BY <2>5, <3>1 DEF Clean
  <2>7. CASE so'.lost = so.lost /\ ~ so'.entries = so.entries
    <3>1. PICK at : at \notin DOMAIN so.entries /\ DOMAIN so'.entries = DOMAIN so.entries \cup {at}
             /\ so'.entries[at].socket = s /\ so'.entries[at].name = d.name /\ so'.entries[at].peer = ""
             /\ \A e \in DOMAIN so.entries : so'.entries[e] = so.entries[e]
      BY <1>9, <2>7
    <3>2. SoEntries(so', s) = {at}
      BY <2>2, <3>1 DEF SoEntries
    <3>3. EntryTrue(s, at)'
      BY <1>2, <2>2, <3>1 DEF EntryTrue, NameOf, PeerOf
    <3>4. s \notin so'.lost
      BY <2>3, <2>7
    <3>5. QED BY <1>8, <2>5, <3>2, <3>3, <3>4 DEF Clean
  <2>8. QED BY <1>9, <2>3, <2>6, <2>7
<1>13. QED BY <1>6, <1>11, <1>12, NearClean

LEMMA StaysNamed == ASSUME SoNamed, NEW t \in SoTasks, Done(t), Stays(t) PROVE SoNamed'
<1>1. /\ so.doing[t].step = "idle" /\ so'.doing[t].step = "idle" /\ so'.host = so.host /\ so'.entries = so.entries
      /\ so'.lost = so.lost /\ so'.mixed = so.mixed /\ so'.wild = so.wild /\ Others(t)
  BY DEF Stays, Same, Done
<1>2. \A ss : Far(t, ss) /\ Alike(ss)
  BY <1>1 DEF Far, Alike, SoEntries
<1>3. ASSUME NEW ss \in SoNumbers \ so'.mixed, so'.host[ss].open PROVE Clean(ss)'
  <2>1. Clean(ss)
    BY <1>1, <1>3 DEF SoNamed
  <2>2. QED BY <1>1, <1>2, <2>1, FarClean
<1>4. Unnamed'
  BY <1>1 DEF SoNamed, Unnamed
<1>5. QED BY <1>1, <1>3, <1>4 DEF SoNamed

(* bind() and connect(): nobody else works on the socket. *)
Renames(t, s, name, given, peer) ==
    /\ NearNames(t, s)
    /\ so'.host[s].name = name /\ so'.host[s].given = given /\ so'.host[s].peer = peer
    /\ so'.lost = so.lost /\ SoEntries(so', s) = SoEntries(so, s) /\ so'.entries = so.entries
    /\ (Listing(s)' <=> Listing(s)) /\ (\A u \in SoTasks : ~ Works(u, s)) /\ Works(t, s)'
    /\ \A u \in SoTasks : Works(u, s)' => u = t
    /\ s \notin so'.mixed => Clean(s)

LEMMA NamesNear ==
    ASSUME SoStored, SoNamed, NEW t \in SoTasks, Done(t), NEW s \in SoNumbers, NEW name, NEW given, NEW peer,
           Names(t, s, name, given, peer), name # "", so'.doing[t].step \in {"upd", "conn"}
    PROVE  Renames(t, s, name, given, peer)
<1>1. /\ so.doing[t].step = "idle" /\ so.host[s].open /\ (\A u \in SoTasks : ~ Works(u, s)) /\ so'.doing[t].ss = s
      /\ so'.entries = so.entries /\ so'.lost = so.lost /\ so'.mixed = so.mixed /\ so'.wild = so.wild
  BY DEF Names, Own, Same
<1>2. so'.host[s] = NamedHost(so.host[s], name, given, peer) /\ \A x \in SoNumbers \ {s} : so'.host[x] = so.host[x]
  BY DEF Names, HostSet
<1>3. so'.host[s].name = name /\ so'.host[s].given = given /\ so'.host[s].peer = peer
  <2>1. \A h : LET n == NamedHost(h, name, given, peer) IN n.name = name /\ n.given = given /\ n.peer = peer
    BY DEF NamedHost
  <2>2. QED BY <1>2, <2>1
<1>4. Others(t)
  BY DEF Done
<1>5. \A ss : SoEntries(so', ss) = SoEntries(so, ss)
  BY <1>1 DEF SoEntries
<1>6. NearNames(t, s)
  BY <1>1, <1>2, <1>3, <1>5 DEF NearNames, Far, Alike
<1>7. Listing(s)' <=> Listing(s)
  BY <1>1, <1>4 DEF Listing, Others
<1>8. Works(t, s)' /\ \A u \in SoTasks : Works(u, s)' => u = t
  BY <1>1, <1>4 DEF Works, Others
<1>9. s \notin so'.mixed => Clean(s)
  BY <1>1 DEF SoNamed
<1>10. QED BY <1>1, <1>3, <1>5, <1>6, <1>7, <1>8, <1>9 DEF Renames

LEMMA BindsNamed ==
    ASSUME SoStored, SoNamed, NEW t \in SoTasks, Done(t), NEW s \in SoNumbers, Binds(t, s)
    PROVE  SoNamed'
<1>0. PICK peer : peer = so.host[s].peer
  OBVIOUS
<1>1. PICK name, given :
         /\ Names(t, s, name, given, peer) /\ so.host[s].name = "" /\ name # ""
         /\ so'.doing[t].step = "upd" /\ so'.doing[t].name = given /\ so'.doing[t].peer = ""
  BY <1>0 DEF Binds
<1>2. /\ NearNames(t, s)
      /\ so'.host[s].name = name /\ so'.host[s].given = given /\ so'.host[s].peer = peer
      /\ so'.lost = so.lost /\ SoEntries(so', s) = SoEntries(so, s) /\ so'.entries = so.entries
      /\ (Listing(s)' <=> Listing(s)) /\ (\A u \in SoTasks : ~ Works(u, s)) /\ Works(t, s)'
      /\ \A u \in SoTasks : Works(u, s)' => u = t
      /\ s \notin so'.mixed => Clean(s)
  <2>1. Renames(t, s, name, given, peer)
    BY <1>1, NamesNear
  <2>2. QED BY <2>1 DEF Renames
<1>3. ASSUME s \notin so'.mixed PROVE Clean(s)'
  <2>1. Clean(s) /\ so.host[s].given = ""
    BY <1>1, <1>2, <1>3 DEF SoNamed, Unnamed
  <2>2. ASSUME NEW at \in SoEntries(so, s) PROVE EntryTrue(s, at)'
    <3>1. so.entries[at].name = "" /\ PeerOf(s, so.entries[at].peer)
      BY <1>1, <1>2, <2>1 DEF Clean, EntryTrue, NameOf, Told
    <3>2. QED BY <1>0, <1>2, <3>1 DEF EntryTrue, NameOf, PeerOf
  <2>3. TaskTrue(t, s)'
    BY <1>1, <1>2 DEF TaskTrue, NameOf, PeerOf
  <2>4. QED BY <1>2, <2>1, <2>2, <2>3 DEF Clean
<1>4. QED BY <1>2, <1>3, NearClean

LEMMA ConnectsNamed ==
    ASSUME SoStored, SoNamed, NEW t \in SoTasks, Done(t), NEW s \in SoNumbers, Connects(t, s)
    PROVE  SoNamed'
<1>0. PICK given : given = so.host[s].given
  OBVIOUS
<1>1. PICK name, peer :
         /\ Names(t, s, name, given, peer) /\ name # "" /\ (so.host[s].name # "" => name = so.host[s].name)
         /\ so'.doing[t].step = "conn" /\ so'.doing[t].name = "" /\ so'.doing[t].peer = peer
  BY <1>0 DEF Connects
<1>2. /\ NearNames(t, s)
      /\ so'.host[s].name = name /\ so'.host[s].given = given /\ so'.host[s].peer = peer
      /\ so'.lost = so.lost /\ SoEntries(so', s) = SoEntries(so, s) /\ so'.entries = so.entries
      /\ (Listing(s)' <=> Listing(s)) /\ Works(t, s)'
      /\ \A u \in SoTasks : Works(u, s)' => u = t
      /\ s \notin so'.mixed => Clean(s)
  <2>1. Renames(t, s, name, given, peer)
    BY <1>1, NamesNear
  <2>2. QED BY <2>1 DEF Renames
<1>3. ASSUME s \notin so'.mixed PROVE Clean(s)'
  <2>1. Clean(s)
    BY <1>2, <1>3
  <2>2. ASSUME NEW at \in SoEntries(so, s) PROVE EntryTrue(s, at)'
    <3>1. so.entries[at].name \in {"", so.host[s].name, so.host[s].given}
      BY <2>1 DEF Clean, EntryTrue, NameOf
    <3>2. NameOf(s, so.entries[at].name)'
      BY <1>0, <1>1, <1>2, <3>1 DEF NameOf
    <3>3. Told(t, s, at)'
      BY <1>1, <1>2 DEF Told
    <3>4. QED BY <1>2, <3>2, <3>3 DEF EntryTrue
  <2>3. TaskTrue(t, s)'
    BY <1>1, <1>2 DEF TaskTrue, NameOf
  <2>4. QED BY <1>2, <2>1, <2>2, <2>3 DEF Clean
<1>4. QED BY <1>2, <1>3, NearClean

LEMMA ClosesNamed ==
    ASSUME SoNamed, NEW t \in SoTasks, Done(t), NEW s \in SoNumbers, Closes(t, s)
    PROVE  SoNamed'
<1>1. /\ so.doing[t].step = "idle" /\ so'.doing[t].ss = s /\ so'.lost = so.lost \ {s}
      /\ so'.entries = so.entries /\ so'.mixed = so.mixed /\ so'.wild = so.wild
  BY DEF Closes, Same
<1>2. so'.host[s] = NotOpen /\ \A x \in SoNumbers \ {s} : so'.host[x] = so.host[x]
  BY DEF Closes, HostSet
<1>3. ~ so'.host[s].open /\ so'.host[s].given = ""
  <2>1. ~ NotOpen.open /\ NotOpen.given = ""
    BY DEF NotOpen
  <2>2. QED BY <1>2, <2>1
<1>4. NearNames(t, s)
  BY <1>1, <1>2, <1>3 DEF NearNames, Far, Alike, SoEntries
<1>5. QED BY <1>3, <1>4, NearClean

LEMMA UnlistsNamed == ASSUME SoStored, SoListed, SoNamed, NEW t \in SoTasks, Done(t), Unlists(t) PROVE SoNamed'
<1>1. PICK s : s = so.doing[t].ss
  OBVIOUS
<1>2. /\ so.doing[t].step = "del" /\ so'.doing[t].step = "idle" /\ so'.host = so.host /\ so'.wild = so.wild
      /\ IF SoEntries(so, s) = {} THEN so'.entries = so.entries ELSE \E at \in SoEntries(so, s) : Excludes(so, so', at)
      /\ so'.lost = IF so.host[s].open /\ SoEntries(so', s) = {} /\ ~ Listing(s) THEN so.lost \cup {s} ELSE so.lost
      /\ so'.mixed = IF so.host[s].open THEN so.mixed ELSE so.mixed \ {s}
  BY <1>1 DEF Unlists, Same
<1>3. s \in SoNumbers /\ Others(t)
  BY <1>1, <1>2 DEF SoListed, SoOpened, Ours, Done
<1>4. \A ss : ss # s => SoEntries(so', ss) = SoEntries(so, ss) /\ Alike(ss)
  <2>1. CASE so'.entries = so.entries
    BY <2>1 DEF SoEntries, Alike
  <2>2. CASE \E at \in SoEntries(so, s) : Excludes(so, so', at)
    BY <2>2 DEF SoEntries, Alike, Excludes
  <2>3. QED BY <1>2, <2>1, <2>2
<1>5. NearNames(t, s)
  <2>1. \A ss \in SoNumbers \ {s} : Far(t, ss)
    BY <1>1, <1>2, <1>4 DEF Far
  <2>2. so'.host[s].name = "" => so'.host[s].given = ""
    BY <1>2, <1>3 DEF SoNamed, Unnamed
  <2>3. QED BY <1>2, <1>4, <2>1, <2>2 DEF NearNames
<1>6. ASSUME s \notin so'.mixed, so'.host[s].open PROVE Clean(s)'
  <2>1. so.host[s].open /\ Clean(s)
    BY <1>2, <1>3, <1>6 DEF SoNamed
  <2>2. SoEntries(so', s) = {}
    <3>1. CASE SoEntries(so, s) = {}
      BY <1>2, <3>1 DEF SoEntries
    <3>2. CASE SoEntries(so, s) # {}
      <4>1. PICK at \in SoEntries(so, s) : Excludes(so, so', at)
        BY <1>2, <3>2
      <4>2. SoEntries(so, s) = {at}
        BY <2>1 DEF Clean
      <4>3. QED BY <4>1, <4>2 DEF SoEntries, Excludes
    <3>3. QED BY <3>1, <3>2
  <2>3. ASSUME NEW u \in SoTasks, Works(u, s)' PROVE TaskTrue(u, s)'
    <3>1. u # t /\ so'.doing[u] = so.doing[u]
      BY <1>2, <1>3, <2>3 DEF Works, Others
    <3>2. Works(u, s)
      BY <2>3, <3>1 DEF Works
    <3>3. TaskTrue(u, s)
      BY <2>1, <3>2 DEF Clean
    <3>4. so.doing[u].step = "put" /\ so.doing[u].at # NULL => s \in so'.lost
      <4>1. SoEntries(so, s) # {} => ~ Listing(s)
        BY <2>1 DEF Clean
      <4>2. so.doing[u].step = "put" /\ so.doing[u].at # NULL => SoEntries(so, s) # {} \/ s \in so.lost
        BY <3>3 DEF TaskTrue
      <4>3. QED BY <1>2, <2>1, <2>2, <4>1, <4>2
    <3>5. QED BY <1>2, <3>1, <3>3, <3>4 DEF TaskTrue, NameOf, PeerOf
  <2>4. QED BY <2>2, <2>3 DEF Clean
<1>7. QED BY <1>3, <1>5, <1>6, NearClean

LEMMA PutsNamed == ASSUME SoStored, SoListed, SoNamed, NEW t \in SoTasks, Done(t), Puts(t) PROVE SoNamed'
<1>1. PICK s : s = so.doing[t].ss
  OBVIOUS
<1>2. PICK d : d = so.doing[t]
  OBVIOUS
<1>3. /\ d.step = "put" /\ d.ss = s /\ so'.doing[t].step = "idle" /\ so'.host = so.host /\ so'.lost = so.lost
      /\ Wrote(so, so', d)
  BY <1>1, <1>2 DEF Puts, Same
<1>4. s \in SoNumbers /\ so.host[s].open /\ Works(t, s) /\ (\A u \in SoTasks \ {t} : ~ Works(u, s)) /\ Others(t)
  BY <1>1, <1>2, <1>3, Alone DEF Done
<1>5. ~ Listing(s)' /\ \A u \in SoTasks : ~ Works(u, s)'
  <2>1. \A u \in SoTasks : ~ Works(u, s)'
    BY <1>3, <1>4 DEF Works, Others
  <2>2. QED BY <2>1 DEF Works, Listing
<1>6. \A at : (\E u \in SoTasks : Told(u, s, at)) => at = d.at /\ d.peer = so.host[s].peer
  <2>1. \A at : \A u \in SoTasks : Told(u, s, at) => u = t
    BY <1>4 DEF Told
  <2>2. QED BY <1>2, <1>3, <2>1 DEF Told
<1>7. s \notin so.mixed => Clean(s) /\ TaskTrue(t, s)
  BY <1>4 DEF SoNamed, Clean
<1>8. so'.host[s].name = "" => so'.host[s].given = ""
  BY <1>3, <1>4 DEF SoNamed, Unnamed
<1>9. ASSUME d.at = NULL \/ d.at \notin DOMAIN so.entries, so'.entries = so.entries, so'.mixed = so.mixed, so'.wild => so.wild
      PROVE  SoNamed'
  <2>1. \A ss : SoEntries(so', ss) = SoEntries(so, ss) /\ Alike(ss)
    BY <1>9 DEF SoEntries, Alike
  <2>2. NearNames(t, s)
    BY <1>1, <1>3, <1>8, <1>9, <2>1 DEF NearNames, Far
  <2>3. ASSUME s \notin so'.mixed PROVE Clean(s)'
    <3>1. Clean(s)
      BY <1>7, <1>9, <2>3
    <3>2. NULL \notin SoEntries(so, s)
      BY NullFacts DEF SoStored, SoHolds, SoBlocks, SoEntries
    <3>3. ASSUME NEW at \in SoEntries(so, s) PROVE EntryTrue(s, at)'
      <4>1. at # d.at
        BY <1>9, <3>2 DEF SoEntries
      <4>2. NameOf(s, so.entries[at].name) /\ PeerOf(s, so.entries[at].peer)
        BY <1>6, <3>1, <4>1 DEF Clean, EntryTrue
      <4>3. QED BY <1>3, <1>9, <4>2 DEF EntryTrue, NameOf, PeerOf
    <3>4. QED BY <1>3, <1>5, <2>1, <3>1, <3>3 DEF Clean
  <2>4. QED BY <1>4, <2>2, <2>3, NearClean
<1>10. CASE d.at = NULL
  <2>1. ~ d.at \in DOMAIN so.entries
    BY <1>10, NullFacts DEF SoStored, SoHolds, SoBlocks
  <2>2. so'.entries = so.entries /\ so'.mixed = so.mixed /\ so'.wild = so.wild
    BY <1>3, <1>10, <2>1 DEF Wrote
  <2>3. QED BY <1>9, <1>10, <2>2
<1>11. CASE d.at # NULL /\ d.at \notin DOMAIN so.entries
  <2>1. so'.entries = so.entries /\ so'.mixed = so.mixed /\ so'.wild = (so.wild \/ s \notin so.mixed \cup so.lost)
    BY <1>3, <1>11 DEF Wrote
  <2>2. s \in so.mixed \cup so.lost
    BY <1>2, <1>3, <1>7, <1>11 DEF TaskTrue, SoEntries
  <2>3. so'.wild => so.wild
    BY <2>1, <2>2
  <2>4. QED BY <1>9, <1>11, <2>1, <2>3
<1>12. CASE d.at # NULL /\ d.at \in DOMAIN so.entries
  <2>1. PICK x : x = so.entries[d.at].socket
    OBVIOUS
  <2>2. /\ DOMAIN so'.entries = DOMAIN so.entries /\ so'.wild = so.wild
        /\ so'.entries[d.at] = Rewritten(so.entries[d.at], d.name, d.peer)
        /\ \A e \in DOMAIN so.entries \ {d.at} : so'.entries[e] = so.entries[e]
        /\ so'.mixed = so.mixed \cup IF x = s THEN {} ELSE {x}
    BY <1>3, <1>12, <2>1 DEF Wrote, Mixed
  <2>3. /\ so'.entries[d.at].socket = x
        /\ so'.entries[d.at].name = IF d.name = "" THEN so.entries[d.at].name ELSE d.name
        /\ so'.entries[d.at].peer = IF d.peer = "" THEN so.entries[d.at].peer ELSE d.peer
    <3>1. \A old : LET n == Rewritten(old, d.name, d.peer)
                   IN  /\ n.socket = old.socket
                       /\ n.name = IF d.name = "" THEN old.name ELSE d.name
                       /\ n.peer = IF d.peer = "" THEN old.peer ELSE d.peer
      BY DEF Rewritten, NewSocket
    <3>2. QED BY <2>1, <2>2, <3>1
  <2>4. \A ss : SoEntries(so', ss) = SoEntries(so, ss)
    BY <2>1, <2>2, <2>3 DEF SoEntries
  <2>5. \A ss : ss # x => Alike(ss)
    BY <2>1, <2>2 DEF SoEntries, Alike
  <2>6. NearNames(t, s)
    BY <1>1, <1>3, <1>8, <2>2, <2>4, <2>5 DEF NearNames, Far
  <2>7. ASSUME s \notin so'.mixed PROVE Clean(s)'
    <3>1. Clean(s) /\ TaskTrue(t, s)
      BY <1>7, <2>2, <2>7
    <3>2. ASSUME NEW at \in SoEntries(so, s) PROVE EntryTrue(s, at)'
      <4>1. d.at \in SoEntries(so, s)
        BY <1>2, <1>3, <1>12, <3>1, <3>2 DEF Clean, TaskTrue
      <4>2. at = d.at
        BY <3>1, <3>2, <4>1 DEF Clean
      <4>3. /\ NameOf(s, so.entries[at].name) /\ NameOf(s, d.name) /\ PeerOf(s, d.peer)
            /\ PeerOf(s, so.entries[at].peer) \/ d.peer = so.host[s].peer
        <5>1. EntryTrue(s, at)
          BY <3>1, <3>2 DEF Clean
        <5>2. NameOf(s, d.name) /\ PeerOf(s, d.peer)
          BY <1>2, <1>3, <3>1 DEF TaskTrue
        <5>3. QED BY <1>6, <5>1, <5>2 DEF EntryTrue
      <4>4. NameOf(s, so'.entries[at].name) /\ PeerOf(s, so'.entries[at].peer)
        BY <2>3, <4>2, <4>3 DEF NameOf, PeerOf
      <4>5. QED BY <1>3, <4>4 DEF EntryTrue, NameOf, PeerOf
    <3>3. QED BY <1>3, <1>5, <2>4, <3>1, <3>2 DEF Clean
  <2>8. QED BY <1>4, <2>6, <2>7, NearClean
<1>13. QED BY <1>10, <1>11, <1>12

LEMMA SameNamed ==
    ASSUME SoNamed, so'.host = so.host, so'.entries = so.entries, so'.lost = so.lost, so'.doing = so.doing,
           so'.mixed = so.mixed, so'.wild = so.wild
    PROVE  SoNamed'
<1>1. ASSUME NEW ss, Clean(ss) PROVE Clean(ss)'
  <2>1. (Listing(ss)' <=> Listing(ss)) /\ SoEntries(so', ss) = SoEntries(so, ss)
    BY DEF Listing, SoEntries
  <2>2. \A u \in SoTasks : (Works(u, ss)' <=> Works(u, ss)) /\ (TaskTrue(u, ss)' <=> TaskTrue(u, ss))
    BY <2>1 DEF Works, TaskTrue, NameOf, PeerOf
  <2>3. \A at : \A u \in SoTasks : Told(u, ss, at)' <=> Told(u, ss, at)
    BY DEF Told, Works
  <2>4. \A at : EntryTrue(ss, at)' <=> EntryTrue(ss, at)
    BY <2>3 DEF EntryTrue, NameOf, PeerOf
  <2>5. QED BY <1>1, <2>1, <2>2, <2>4 DEF Clean
<1>2. Unnamed'
  BY DEF SoNamed, Unnamed
<1>3. QED BY <1>1, <1>2 DEF SoNamed

LEMMA EmptyNamed ==
    ASSUME DOMAIN so.entries = {}, \A t \in SoTasks : so.doing[t].step = "idle", ~ so.wild, Unnamed
    PROVE  SoNamed
<1>1. \A ss : SoEntries(so, ss) = {} /\ \A u \in SoTasks : ~ Works(u, ss)
  BY DEF SoEntries, Works
<1>2. \A ss : Clean(ss)
  BY <1>1 DEF Clean
<1>3. QED BY <1>2 DEF SoNamed

LEMMA ClearNamed == so = SoClear => SoNamed
<1> SUFFICES ASSUME so = SoClear PROVE SoNamed
  OBVIOUS
<1>1. so.entries = <<>> /\ ~ so.wild /\ \A t \in SoTasks : so.doing[t].step = "idle"
  BY IdleFacts DEF SoClear
<1>2. DOMAIN so.entries = {}
  BY <1>1
<1>3. \A ss \in SoNumbers : so.host[ss] = IF ss \in SoForeign THEN [NotOpen EXCEPT !.open = TRUE] ELSE NotOpen
  BY DEF SoClear
<1>4. NotOpen.given = "" /\ [NotOpen EXCEPT !.open = TRUE].given = ""
  BY DEF NotOpen
<1>5. Unnamed
  BY <1>3, <1>4 DEF Unnamed
<1>6. QED BY <1>1, <1>2, <1>5, EmptyNamed

LEMMA ExitNamed == ASSUME SoNamed, Exits PROVE SoNamed'
<1>1. so'.doing = so.doing /\ so'.mixed = so.mixed /\ so'.wild = so.wild /\ \A t \in SoTasks : so.doing[t].step = "idle"
  BY IdleFacts DEF Exits, Same
<1>2. CASE ~ result'.closed
  <2>1. so'.host = so.host /\ so'.entries = so.entries /\ so'.lost = so.lost
    BY <1>2 DEF Exits, Same
  <2>2. QED BY <1>1, <2>1, SameNamed
<1>3. CASE result'.closed
  <2>1. /\ DOMAIN so'.entries = {}
        /\ \A ss \in SoNumbers : so'.host[ss] = IF ss \in ListedNumbers(so) THEN NotOpen ELSE so.host[ss]
    BY <1>3 DEF Exits
  <2>2. NotOpen.given = ""
    BY DEF NotOpen
  <2>3. Unnamed'
    BY <2>1, <2>2 DEF SoNamed, Unnamed
  <2>4. ~ so'.wild /\ \A t \in SoTasks : so'.doing[t].step = "idle"
    BY <1>1 DEF SoNamed
  <2>5. (DOMAIN so.entries = {} /\ (\A t \in SoTasks : so.doing[t].step = "idle") /\ ~ so.wild /\ Unnamed => SoNamed)'
    BY EmptyNamed, PTL
  <2>6. QED BY <2>1, <2>3, <2>4, <2>5
<1>4. QED BY <1>2, <1>3

LEMMA SoNamedStep ==
    ASSUME SoStored, SoListed, SoNamed, [SoNext]_<<ledger, result, so>>
    PROVE  SoNamed'
<1>1. ASSUME NEW t \in SoTasks, Done(t), Steps(t) PROVE SoNamed'
  <2>1. CASE Stays(t) \/ Asks(t) \/ Told1(t) \/ Meets(t) \/ Finds(t)
    BY <1>1, <2>1, StaysNamed, AsksNamed, ToldNamed, MeetsNamed, FindsNamed
  <2>2. CASE Lists(t) \/ Unlists(t) \/ Puts(t)
    BY <1>1, <2>2, ListsNamed, UnlistsNamed, PutsNamed
  <2>3. CASE \E ss \in SoNumbers : Opens(t, ss) \/ Binds(t, ss) \/ Connects(t, ss) \/ Closes(t, ss)
    BY <1>1, <2>3, OpensNamed, BindsNamed, ConnectsNamed, ClosesNamed
  <2>4. QED BY <1>1, <2>1, <2>2, <2>3 DEF Steps
<1>2. CASE Exits
  BY <1>2, ExitNamed
<1>3. CASE Restarts
  <2>1. so' = SoClear
    BY <1>3 DEF Restarts
  <2>2. (so = SoClear => SoNamed)'
    BY ClearNamed, PTL
  <2>3. QED BY <2>1, <2>2
<1>4. CASE Rests \/ UNCHANGED <<ledger, result, so>>
  <2>1. so' = so
    BY <1>4 DEF Rests
  <2>2. QED BY <2>1, SameNamed
<1>5. QED BY <1>1, <1>2, <1>3, <1>4, SoNextFacts

(* However the calls of the threads interleave, the list is what the       *)
(* emulator has open for the program, getsockname() and getpeername()      *)
(* answer with an address of the socket, and no freed block is written,    *)
(* but for the sockets so.mixed names and those that could not be listed   *)
(* (@@soadd.c, @@sodel.c, @@soupd.c, @@75snam.c, @@75pnam.c).              *)
THEOREM SocketsStayOwn == SoSpec => []SocketsAreOwn
<1> DEFINE IInv == SoStored /\ SoListed /\ SoClosed /\ SoNamed
<1>1. LedgerInit /\ SoInit => IInv
  <2> SUFFICES ASSUME LedgerInit, SoInit PROVE IInv
    OBVIOUS
  <2>1. SoStored /\ SoListed /\ SoNamed
    BY SoInitFacts, ClearListed, ClearNamed DEF SoInit
  <2>2. SoClosed
    BY DEF LedgerInit, Seen, SoClosed
  <2>3. QED BY <2>1, <2>2
<1>2. IInv /\ [SoNext]_<<ledger, result, so>> => IInv'
  BY SoStoredStep, SoListedStep, SoClosedStep, SoNamedStep
<1>3. IInv => SocketsAreOwn
  BY ListedFacts, NamesFollow DEF SocketsAreOwn
<1> HIDE DEF IInv
<1>4. QED BY <1>1, <1>2, <1>3, PTL DEF SoSpec
=============================================================================
