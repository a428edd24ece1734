------------------------------- MODULE Array --------------------------------
(***************************************************************************)
(* src/src/ext/array: an array of pointers that grows.                     *)
(*                                                                         *)
(* The array is one block: a header with the entries it has room for and   *)
(* the entries in use, then the entries.  The caller holds the address of  *)
(* the first entry, which changes when the array grows.  c.array is the    *)
(* array a call works on; the services that build lists use it too.        *)
(***************************************************************************)
EXTENDS Ledger

CONSTANTS
    ARRAY_DEFAULT,      \* the entries an array grows by
    MaxEntries          \* the longest array of the caller modelled here

ASSUME ArrayAssumption == ARRAY_DEFAULT \in Nat \ {0} /\ MaxEntries \in Nat

VARIABLE arr            \* the caller's array, and the list it stands for

NoArray == [block |-> NULL, size |-> 0, count |-> 0, slots |-> <<>>]
Empty(n) == [i \in 1 .. n |-> NULL]

\* arraynew(0) is arraynew(ARRAY_DEFAULT).
Made(c, room) ==
    IF c.got = NULL THEN c
    ELSE [c EXCEPT !.array = [block |-> c.got, size |-> room, count |-> 0, slots |-> Empty(room)]]
arraynew(c, size) == Made(Obtain(c, "array"), IF size = 0 THEN ARRAY_DEFAULT ELSE size)

\* A full array moves to a larger block, and the old one is freed.
Grown(a, block) ==
    [a EXCEPT !.block = block, !.size = @ + ARRAY_DEFAULT, !.slots = @ \o Empty(ARRAY_DEFAULT)]
Moved(c) ==
    IF c.got = NULL THEN c
    ELSE [Release(c, c.array.block) EXCEPT !.array = Grown(c.array, c.got)]
Full(c) == c.array.size =< c.array.count
Grow(c) == IF c.array.block # NULL /\ Full(c) THEN Moved(Obtain(c, "array")) ELSE c

\* Sets c.err.
Entered(a, item) == [a EXCEPT !.count = @ + 1, !.slots[a.count + 1] = item]
Store(c, item) ==
    IF Full(c) THEN [c EXCEPT !.err = -1] ELSE [c EXCEPT !.err = 0, !.array = Entered(c.array, item)]
arrayadd(c, item) == Store(Grow(IF c.array.block = NULL THEN arraynew(c, ARRAY_DEFAULT) ELSE c), item)

\* A fault: the string that cannot be added is dropped.
arrayaddf_Drops(c) ==
    LET s == Obtain(c, "string") IN IF s.got = NULL THEN [s EXCEPT !.err = -1] ELSE arrayadd(s, s.got)

\* The formatted string is freed when it cannot be added.
FreeUnadded(c, string) == IF c.err # 0 THEN Release(c, string) ELSE c
AddFormatted(c) == IF c.got = NULL THEN [c EXCEPT !.err = -1] ELSE FreeUnadded(arrayadd(c, c.got), c.got)
arrayaddf(c) == AddFormatted(Obtain(c, "string"))

arraycount(c) == c.array.count
arrayget(c, index) ==
    [c EXCEPT !.got = IF index \in 1 .. arraycount(c) THEN c.array.slots[index] ELSE NULL]

\* A fault: the pointer of the last entry stays behind.
arraydel_KeepsLast(c, index) ==
    LET n == arraycount(c)
    IN  IF index \notin 1 .. n THEN [c EXCEPT !.got = NULL]
        ELSE [c EXCEPT !.got = c.array.slots[index], !.array.count = n - 1,
                       !.array.slots = [i \in DOMAIN @ |-> IF i \in index .. n - 1 THEN @[i + 1] ELSE @[i]]]

\* The entries after the deleted one move down, and the last is cleared.
arraydel(c, index) ==
    LET n == arraycount(c)
        moved == [i \in DOMAIN c.array.slots |->
                     IF i \in index .. n - 1 THEN c.array.slots[i + 1]
                     ELSE IF i = n THEN NULL ELSE c.array.slots[i]]
    IN  IF index \notin 1 .. n THEN [c EXCEPT !.got = NULL]
        ELSE [c EXCEPT !.got = c.array.slots[index], !.array.slots = moved, !.array.count = n - 1]

Items(c) == [i \in 1 .. c.array.count |-> c.array.slots[i]]

\* fn sees the entries in order until it answers something else than 0.
arrayeach(c, stop) == SubSeq(Items(c), 1, IF stop \in 1 .. arraycount(c) THEN stop ELSE arraycount(c))

arrayfree(c) ==
    IF c.array.block = NULL THEN [c EXCEPT !.err = -1]
    ELSE [Release(c, c.array.block) EXCEPT !.array = NoArray, !.err = 0]

----------------------------------------------------------------------------
(* A caller that keeps strings in an array.                                *)

ArrayInit == arr = [array |-> NoArray, list |-> <<>>]
ArrayCall(faults) ==
    [held |-> ledger.held, twice |-> ledger.twice, n |-> 0, faults |-> faults, got |-> NULL,
     array |-> arr.array, err |-> 0]
ArrayEnd(c, op, got, list) ==
    /\ arr' = [array |-> c.array, list |-> list]
    /\ End(c, [op |-> op, err |-> c.err, got |-> got])

NewArray ==
    /\ Ready /\ arr.array = NoArray
    /\ \E size \in 0 .. MaxEntries, fault \in OneFault(1) :
          LET c == arraynew(ArrayCall(fault), size) IN ArrayEnd(c, "arraynew", c.got, <<>>)
AddString ==
    /\ Ready /\ Len(arr.list) < MaxEntries
    /\ \E fault \in OneFault(3) :
          LET c == arrayaddf(ArrayCall(fault))
              string == Obtain(ArrayCall(fault), "string").got
          IN  ArrayEnd(c, "arrayadd", string, IF c.err = 0 THEN Append(arr.list, string) ELSE arr.list)

\* The caller frees the string it took out.
Without(list, k) == [j \in 1 .. Len(list) - 1 |-> IF j < k THEN list[j] ELSE list[j + 1]]
DeleteString ==
    /\ Ready
    /\ \E index \in 0 .. MaxEntries + 1 :
          LET d == arraydel(ArrayCall({}), index)
          IN  ArrayEnd(Release(d, d.got), "arraydel", <<index, d.got>>,
                       IF d.got = NULL THEN arr.list ELSE Without(arr.list, index))
LookAtStrings ==
    /\ Ready
    /\ \E index \in 0 .. MaxEntries + 1 :
          ArrayEnd(ArrayCall({}), "arrayget",
                   [index |-> index, got |-> arrayget(ArrayCall({}), index).got,
                    each |-> arrayeach(ArrayCall({}), index)], arr.list)
FreeStrings ==
    /\ Ready
    /\ LET c == arrayfree(ReleaseAll(ArrayCall({}), Items(ArrayCall({}))))
       IN  ArrayEnd(c, "arrayfree", NULL, <<>>)

ArrayNext ==
    \/ NewArray \/ AddString \/ DeleteString \/ LookAtStrings \/ FreeStrings
    \/ See /\ UNCHANGED arr

ArraySpec == LedgerInit /\ ArrayInit /\ [][ArrayNext]_<<ledger, result, arr>>

ArrayOwns == ({arr.array.block} \cup {arr.list[i] : i \in DOMAIN arr.list}) \ {NULL}

\* What a look at the array found: the entry the list has there, and the
\* entries arrayeach shows, in the list's order.
LookIsTrue ==
    result.op = "arrayget" =>
       /\ result.got.got = IF result.got.index \in DOMAIN arr.list THEN arr.list[result.got.index] ELSE NULL
       /\ \E k \in 0 .. Len(arr.list) : result.got.each = SubSeq(arr.list, 1, k)

\* The array is the list its caller built, whatever it was refused on the
\* way: the entries in use are the list in order, the rest of the block is
\* cleared (arraydel does not leave the last pointer behind, nor write past
\* the block), and a look finds what the list has there.
ArrayIsList ==
    /\ Items(arr) = arr.list
    /\ Len(arr.array.slots) = arr.array.size /\ arr.array.count =< arr.array.size
    /\ \A i \in arr.array.count + 1 .. arr.array.size : arr.array.slots[i] = NULL
    /\ LookIsTrue
============================================================================
