------------------------------ MODULE Strings ------------------------------
(***************************************************************************)
(* src/src/string, src/src/strings and src/src/ext/strutil.  A string is a *)
(* sequence of character codes without the NUL that ends it; a pointer     *)
(* into it is an offset, and None is the null pointer.  Storage that is    *)
(* written is a sequence of bytes whose overlap matters (memmove) or whose *)
(* length bounds the write (strncpy, strcpyp).                             *)
(***************************************************************************)
EXTENDS Library
LOCAL INSTANCE SequencesExt
LOCAL INSTANCE FiniteSets

CONSTANTS
    Chars,          \* the character codes tried, all > 0
    Lower(_),       \* tolower(), as the character tables give it
    MaxString,      \* the longest string tried
    Star, Query, Blank      \* the codes of '*', '?' and ' ' for __patmat

None == -1
NUL == 0

\* s[i] of a C string: the bytes up to the NUL may be read, and the NUL.
At(s, i) == IF i < Len(s) THEN s[i + 1] ELSE NUL

\* for (i = from; i < limit && !stop(i); i++): where the loop ends.
Scan(from, limit, stop(_)) ==
    LET go[i \in Nat] == IF i < limit /\ ~stop(i) THEN go[i + 1] ELSE i IN go[from]

----------------------------------------------------------------------------
strlen(s) == Scan(0, Len(s) + 1, LAMBDA i : At(s, i) = NUL)

memchr(s, c, n) ==
    LET x == Scan(0, n, LAMBDA i : s[i + 1] = c) IN IF x < n THEN x ELSE None

Order(a, b) == IF a < b THEN -1 ELSE IF a > b THEN 1 ELSE 0

memcmp(s1, s2, n) ==
    LET x == Scan(0, n, LAMBDA i : s1[i + 1] # s2[i + 1])
    IN  IF x < n THEN Order(s1[x + 1], s2[x + 1]) ELSE 0

strchr(s, c) ==
    LET x == Scan(0, strlen(s), LAMBDA i : At(s, i) = c)
    IN  IF x < strlen(s) \/ c = NUL THEN x ELSE None

\* Compares until the first string ends; one that goes on after it is larger.
strcmp(s1, s2) ==
    LET x == Scan(0, strlen(s1), LAMBDA i : At(s1, i) # At(s2, i))
    IN  IF x < strlen(s1) THEN Order(At(s1, x), At(s2, x))
        ELSE IF At(s2, x) = NUL THEN 0 ELSE -1

strcoll(s1, s2) == strcmp(s1, s2)

strncmp(s1, s2, n) ==
    LET x == Scan(0, n, LAMBDA i : At(s1, i) # At(s2, i) \/ At(s1, i) = NUL)
    IN  IF x < n THEN Order(At(s1, x), At(s2, x)) ELSE 0

strcasecmp(s1, s2) ==
    LET x == Scan(0, strlen(s1), LAMBDA i : Lower(At(s1, i)) # Lower(At(s2, i)))
    IN  IF x < strlen(s1) THEN Order(Lower(At(s1, x)), Lower(At(s2, x)))
        ELSE IF At(s2, x) = NUL THEN 0 ELSE -1

strncasecmp(s1, s2, n) ==
    LET x == Scan(0, n, LAMBDA i : \/ Lower(At(s1, i)) # Lower(At(s2, i))
                                   \/ Lower(At(s1, i)) = NUL)
    IN  IF x < n THEN Order(Lower(At(s1, x)), Lower(At(s2, x))) ELSE 0

InSet(c, s2) == strchr(s2, c) # None /\ c # NUL

strspn(s1, s2) == Scan(0, strlen(s1), LAMBDA i : ~InSet(At(s1, i), s2))

strcspn(s1, s2) == Scan(0, strlen(s1), LAMBDA i : InSet(At(s1, i), s2))

strpbrk(s1, s2) ==
    LET x == Scan(0, strlen(s1), LAMBDA i : InSet(At(s1, i), s2))
    IN  IF x < strlen(s1) THEN x ELSE None

\* From the NUL back to the first character.
strrchr(s, c) ==
    LET back == Scan(0, strlen(s) + 1, LAMBDA k : At(s, strlen(s) - k) = c)
    IN  IF back =< strlen(s) THEN strlen(s) - back ELSE None

strstr(s1, s2) ==
    LET agree(i) == Scan(0, strlen(s2), LAMBDA k : At(s1, i + k) # At(s2, k)) = strlen(s2)
        x == Scan(0, strlen(s1), agree)
    IN  IF strlen(s2) = 0 THEN 0 ELSE IF x < strlen(s1) THEN x ELSE None

\* The storage at the target after the copy, the target having old in it.
Stored(old, bytes) == bytes \o SubSeq(old, Len(bytes) + 1, Len(old))

strcpy(old, s2) == Stored(old, Append(s2, NUL))

strcat(s1, s2) == s1 \o s2

strncat(s1, s2, n) ==
    LET x == Scan(0, n, LAMBDA i : At(s2, i) = NUL) IN s1 \o SubSeq(s2, 1, x)

strncpy(old, s2, n) ==
    LET x == Scan(0, n, LAMBDA i : At(s2, i) = NUL)
    IN  Stored(old, SubSeq(s2, 1, x) \o [i \in 1 .. n - x |-> NUL])

\* Returns the length; the target is written only when it has room.
strxfrm(old, s2, n) ==
    IF strlen(s2) < n THEN <<strlen(s2), Stored(old, Append(s2, NUL))>>
    ELSE <<strlen(s2), old>>

\* A copy with its NUL (calloc cleared it), or null when there is no storage.
strdup(s, storage) == IF storage THEN Append(s, NUL) ELSE <<>>

memset(old, c, n) == Stored(old, [i \in 1 .. n |-> c])
memcpy(old, s2, n) == Stored(old, SubSeq(s2, 1, n))

\* One byte at a time within one area, upward when the target is not above
\* the source and downward otherwise.
memmove(area, to, from, n) ==
    LET up[x \in 0 .. n] == IF x = 0 THEN area
                            ELSE [up[x - 1] EXCEPT ![to + x] = up[x - 1][from + x]]
        down[x \in 0 .. n] == IF x = n THEN area
                              ELSE [down[x + 1] EXCEPT ![to + x + 1] = down[x + 1][from + x + 1]]
    IN  IF to =< from THEN up[n] ELSE IF n # 0 THEN down[0] ELSE area

memcpyp(old, tlen, source, slen, pad) ==
    LET n == IF slen > tlen THEN tlen ELSE slen
        copied == IF n > 0 THEN SubSeq(source, 1, n) ELSE <<>>
    IN  Stored(old, copied \o [i \in 1 .. tlen - n |-> pad])

strcpyp(old, tlen, source, pad) == memcpyp(old, tlen, source, strlen(source), pad)

\* The saved pointer is per CRT (crtstrtk); area is the string from it on.
\* Returns the token and what is left to scan, None when the string is done.
strtok(old, delims) ==
    LET skip == strspn(old, delims)
        p == SubSeq(old, skip + 1, Len(old))
        len == strcspn(p, delims)
    IN  IF strlen(old) =< skip THEN <<<<>>, FALSE, <<>>>>
        ELSE IF strlen(p) =< len THEN <<p, FALSE, <<>>>>
        ELSE <<SubSeq(p, 1, len), TRUE, SubSeq(p, len + 2, Len(p))>>

\* The tokens of strtok(s, d), strtok(NULL, d), ... up to the null pointer.
RECURSIVE Tokens(_, _)
Tokens(s, delims) ==
    LET r == strtok(s, delims)
    IN  (IF r[1] = <<>> THEN <<>> ELSE <<r[1]>>)
        \o (IF r[2] THEN Tokens(r[3], delims) ELSE <<>>)

RECURSIVE __patmat(_, _)
__patmat(str, pat) ==
    LET Drop(s, n) == SubSeq(s, n + 1, Len(s))
        stars == Scan(1, Len(pat), LAMBDA i : At(pat, i) # Star)
        next == At(pat, stars)
    IN  CASE pat = <<>> -> \A i \in 1 .. Len(str) : str[i] = Blank
          [] At(pat, 0) = Star ->
                 \/ next = NUL
                 \/ \E k \in 1 .. Len(str) - 1 :
                        /\ At(str, k) = next \/ next = Query
                        /\ __patmat(Drop(str, k + 1), Drop(pat, stars + 1))
          [] str = <<>> -> FALSE
          [] OTHER -> /\ At(pat, 0) = Query \/ At(str, 0) = At(pat, 0)
                      /\ __patmat(Drop(str, 1), Drop(pat, 1))

----------------------------------------------------------------------------
Strs == UNION {[1 .. n -> Chars] : n \in 0 .. MaxString}
Fill == [i \in 1 .. 2 * MaxString |-> 99]       \* what the target held before

Searches ==
    \E s \in Strs :
        \/ \E c \in Chars \cup {NUL} :
               Finished("strings", "find", <<s, c>>,
                        [first |-> strchr(s, c), last |-> strrchr(s, c),
                         mem |-> memchr(Append(s, NUL), c, Len(s) + 1), len |-> strlen(s)])
        \/ \E t \in Strs :
               \/ Finished("strings", "span", <<s, t>>,
                           [spn |-> strspn(s, t), cspn |-> strcspn(s, t),
                            pbrk |-> strpbrk(s, t), str |-> strstr(s, t)])
               \/ Finished("strings", "tokens", <<s, t>>, Tokens(s, t))
               \/ Finished("strings", "match", <<s, t>>, __patmat(s, t))

Compares ==
    \E s \in Strs, t \in Strs, n \in 0 .. MaxString + 1 :
        Finished("strings", "order", <<s, t, n>>,
                 [cmp |-> strcmp(s, t), coll |-> strcoll(s, t), ncmp |-> strncmp(s, t, n),
                  casecmp |-> strcasecmp(s, t), ncasecmp |-> strncasecmp(s, t, n),
                  mem |-> IF n =< Len(s) /\ n =< Len(t) THEN memcmp(s, t, n) ELSE 2])

Copies ==
    \E s \in Strs, t \in Strs, n \in 0 .. MaxString + 1 :
        Finished("strings", "copy", <<s, t, n>>,
                 [cpy |-> strcpy(Fill, s), ncpy |-> strncpy(Fill, s, n),
                  cat |-> strcat(s, t), ncat |-> strncat(s, t, n), dup |-> strdup(s, TRUE),
                  xfrm |-> strxfrm(Fill, s, n), cpyp |-> strcpyp(Fill, n, s, Blank),
                  set |-> memset(Fill, Blank, n),
                  mem |-> IF n =< Len(s) THEN memcpy(Fill, s, n) ELSE Fill])

Moves ==
    \E to, from \in 0 .. MaxString, n \in 0 .. MaxString :
        LET area == [i \in 1 .. 2 * MaxString |-> i]
        IN  Finished("strings", "move", <<area, to, from, n>>, memmove(area, to, from, n))

StringsNext == Searches \/ Compares \/ Copies \/ Moves

----------------------------------------------------------------------------
(* The reference: sets of positions, and lexicographic order.              *)

MinOf(S) == IF S = {} THEN None ELSE CHOOSE x \in S : \A y \in S : x =< y
MaxOf(S) == IF S = {} THEN None ELSE CHOOSE x \in S : \A y \in S : x >= y
Hits(s, c) == {i \in 0 .. Len(s) : At(s, i) = c}
Outside(s, t) == {i \in 0 .. Len(s) : At(s, i) = NUL \/ ~\E k \in DOMAIN t : t[k] = At(s, i)}
Inside(s, t) == {i \in 0 .. Len(s) - 1 : \E k \in DOMAIN t : t[k] = At(s, i)}

Lexical(s, t) ==
    IF s = t THEN 0
    ELSE IF \/ IsPrefix(s, t)
            \/ \E i \in DOMAIN s \cap DOMAIN t :
                   s[i] < t[i] /\ SubSeq(s, 1, i - 1) = SubSeq(t, 1, i - 1)
         THEN -1 ELSE 1
Cut(s, n) == SubSeq(s, 1, IF n < Len(s) THEN n ELSE Len(s))
Folded(s) == [i \in DOMAIN s |-> Lower(s[i])]

\* The maximal runs of characters that are not delimiters, in order.
Run(s, d, i, j) == /\ \A k \in i .. j : s[k] \notin Range(d)
                   /\ i = 1 \/ s[i - 1] \in Range(d)
                   /\ j = Len(s) \/ s[j + 1] \in Range(d)
Runs(s, d) ==
    LET starts == {i \in DOMAIN s : \E j \in i .. Len(s) : Run(s, d, i, j)}
        ordered == SetToSortSeq(starts, <)
    IN  [n \in DOMAIN ordered |->
            LET i == ordered[n] IN SubSeq(s, i, CHOOSE j \in i .. Len(s) : Run(s, d, i, j))]

\* What a pattern matches, '*' standing for one character or more, and for
\* none only at the end of the pattern; trailing blanks are ignored.
RECURSIVE Matches(_, _)
Matches(s, p) ==
    IF p = <<>> THEN \A i \in DOMAIN s : s[i] = Blank
    ELSE IF Head(p) = Star
         THEN \/ \A i \in DOMAIN p : p[i] = Star
              \/ \E k \in 1 .. Len(s) : Matches(SubSeq(s, k + 1, Len(s)), Tail(p))
              \/ Len(p) > 1 /\ p[2] = Star /\ Matches(s, Tail(p))
    ELSE s # <<>> /\ Head(p) \in {Head(s), Query} /\ Matches(Tail(s), Tail(p))

Window(old, bytes) == bytes \o [i \in 1 .. Len(old) - Len(bytes) |-> old[1]]

\* The searches find the first, last or longest of what C99 says; the
\* comparisons are lexicographic, on unsigned characters and up to n; the
\* copies write the bytes they have to and not one more; memmove copies an
\* overlapping area as if through a buffer; strtok yields the maximal runs
\* of characters that are no delimiters, whatever the delimiters between.
StringsExact ==
    call.of = "strings" =>
        LET s == call.in[1] t == call.in[2] r == call.out
        IN  CASE call.op = "find" -> /\ r.first = MinOf(Hits(s, t))
                                     /\ r.last = MaxOf(Hits(s, t))
                                     /\ r.mem = r.first
                                     /\ r.len = Len(s)
              [] call.op = "span" -> /\ r.spn = MinOf(Outside(s, t))
                                     /\ r.cspn = MinOf(Inside(s, t) \cup {Len(s)})
                                     /\ r.pbrk = MinOf(Inside(s, t))
                                     /\ r.str = MinOf({i \in 0 .. Len(s) - Len(t) :
                                            SubSeq(s, i + 1, i + Len(t)) = t})
              [] call.op = "tokens" -> r = Runs(s, t)
              [] call.op = "match" -> r = Matches(s, t)
              [] call.op = "order" ->
                     LET n == call.in[3]
                     IN  /\ r.cmp = Lexical(s, t) /\ r.coll = r.cmp
                         /\ r.ncmp = Lexical(Cut(s, n), Cut(t, n))
                         /\ r.casecmp = Lexical(Folded(s), Folded(t))
                         /\ r.ncasecmp = Lexical(Folded(Cut(s, n)), Folded(Cut(t, n)))
                         /\ r.mem \in {2, r.ncmp}
              [] call.op = "copy" ->
                     LET n == call.in[3]
                         pad(c, k) == [i \in 1 .. k |-> c]
                     IN  /\ r.cpy = Window(Fill, Append(s, NUL))
                         /\ r.ncpy = Window(Fill, Cut(s, n) \o pad(NUL, n - Len(Cut(s, n))))
                         /\ r.cat = s \o t /\ r.ncat = s \o Cut(t, n)
                         /\ r.dup = Append(s, NUL)
                         /\ r.xfrm[1] = Len(s)
                         /\ r.xfrm[2] = IF Len(s) < n THEN r.cpy ELSE Fill
                         /\ r.cpyp = Window(Fill, Cut(s, n) \o pad(Blank, n - Len(Cut(s, n))))
                         /\ r.set = Window(Fill, pad(Blank, n))
                         /\ r.mem \in {Fill, Window(Fill, Cut(s, n))}
              [] call.op = "move" ->
                     LET from == call.in[3] n == call.in[4]
                     IN  r = [i \in DOMAIN s |-> IF i - t \in 1 .. n
                                                 THEN s[from + i - t] ELSE s[i]]
============================================================================
