------------------------------- MODULE Stdlib -------------------------------
(***************************************************************************)
(* The pure functions of src/src/stdlib: text to numbers, sorting and      *)
(* searching, wide characters and integer arithmetic.  A text is a         *)
(* sequence of characters without its NUL; an end pointer is an offset.    *)
(* LONG_MAX and LLONG_MAX, the digits a double holds and its exponent      *)
(* range are parameters; the code's loops and limits are written in them.  *)
(***************************************************************************)
EXTENDS Library
LOCAL INSTANCE SequencesExt
LOCAL INSTANCE FiniteSets

CONSTANTS
    LONG_MAX, LLONG_MAX,    \* 2^31 - 1 and 2^63 - 1
    SIGDIGITS,              \* decimal digits a double holds (17)
    MaxExp, MinExp,         \* decimal exponents strtod lets through (75, -79)
    DblMax,                 \* the largest double, as <<digits, exponent>>
    Texts, Bases,           \* given to the strto family
    Reals,                  \* texts given to strtod
    Keys, MaxArray          \* arrays of up to MaxArray keys are sorted

Space == {" "}
digits == <<"0", "1", "2", "3", "4", "5", "6", "7", "8", "9", "a", "b", "c", "d",
            "e", "f", "g", "h", "i", "j", "k", "l", "m", "n", "o", "p", "q", "r",
            "s", "t", "u", "v", "w", "x", "y", "z">>
tolower(c) == IF c = "X" THEN "x" ELSE IF c = "F" THEN "f" ELSE c

\* The value of a digit in bases up to 36, or 36.
__digval(c) ==
    LET hits == {i \in 1 .. 36 : digits[i] = tolower(c)}
    IN  IF hits = {} THEN 36 ELSE (CHOOSE i \in hits : TRUE) - 1

Char(s, i) == IF i < Len(s) THEN s[i + 1] ELSE "NUL"
SkipWhile(s, from, ok(_)) ==
    LET go[i \in Nat] == IF ok(Char(s, i)) THEN go[i + 1] ELSE i IN go[from]

\* Where the digits begin, the sign and the base: white space, one sign and
\* a 0x that a hexadecimal digit follows are skipped.
IsHex(s, p, base) == /\ base \in {0, 16} /\ Char(s, p) = "0"
                     /\ tolower(Char(s, p + 1)) = "x" /\ __digval(Char(s, p + 2)) < 16
DigitsAt(s, neg, p, base) ==
    IF IsHex(s, p, base) THEN [neg |-> neg, at |-> p + 2, base |-> 16]
    ELSE [neg |-> neg, at |-> p, base |-> IF base # 0 THEN base
                                          ELSE IF Char(s, p) = "0" THEN 8 ELSE 10]
SignAt(s, p, base) ==
    DigitsAt(s, Char(s, p) = "-", IF Char(s, p) \in {"-", "+"} THEN p + 1 ELSE p, base)
Subject(s, base) == SignAt(s, SkipWhile(s, 0, LAMBDA c : c \in Space), base)

\* The digit loop: once it has overflowed it still passes over the digits.
Accumulate(s, from, base, limit) ==
    LET cutoff == limit \div base
        cutlim == limit % base
        go[i \in Nat, x \in Nat, over \in BOOLEAN] ==
            LET d == __digval(Char(s, i))
            IN  IF d >= base THEN [end |-> i, x |-> x, over |-> over]
                ELSE IF over \/ x > cutoff \/ (x = cutoff /\ d > cutlim)
                     THEN go[i + 1, x, TRUE]
                ELSE go[i + 1, x * base + d, FALSE]
    IN  go[from, 0, FALSE]

BadBase(base) == base < 0 \/ base = 1 \/ base > 36
Converted(value, end, error) == [value |-> value, end |-> end, errno |-> error]

EndOf(sub, acc) == IF acc.end > sub.at THEN acc.end ELSE 0
SignedOf(sub, acc, max) ==
    IF acc.over THEN Converted(IF sub.neg THEN -max - 1 ELSE max, EndOf(sub, acc), "ERANGE")
    ELSE Converted(IF sub.neg THEN -acc.x ELSE acc.x, EndOf(sub, acc), "none")
SignedFrom(s, sub, max) ==
    SignedOf(sub, Accumulate(s, sub.at, sub.base, IF sub.neg THEN max + 1 ELSE max), max)
SignedLong(s, base, max) ==
    IF BadBase(base) THEN Converted(0, 0, "EINVAL") ELSE SignedFrom(s, Subject(s, base), max)

UnsignedOf(sub, acc, max) ==
    IF acc.over THEN Converted(max, EndOf(sub, acc), "ERANGE")
    ELSE Converted(IF sub.neg THEN (-acc.x) % (max + 1) ELSE acc.x, EndOf(sub, acc), "none")
UnsignedFrom(s, sub, max) == UnsignedOf(sub, Accumulate(s, sub.at, sub.base, max), max)
Unsigned(s, base, max) ==
    IF BadBase(base) THEN Converted(0, 0, "EINVAL") ELSE UnsignedFrom(s, Subject(s, base), max)

strtol(s, base) == SignedLong(s, base, LONG_MAX)
strtoll(s, base) == SignedLong(s, base, LLONG_MAX)
strtoul(s, base) == Unsigned(s, base, 2 * LONG_MAX + 1)
strtoull(s, base) == Unsigned(s, base, 2 * LLONG_MAX + 1)

atol(s) == strtol(s, 10).value
atoi(s) == strtol(s, 10).value
atoll(s) == strtoll(s, 10).value

----------------------------------------------------------------------------
(* strtod: x * 10^e, its digits limited and its exponent checked before    *)
(* any product that could overflow is formed.                              *)

IsDigit(c) == __digval(c) < 10

\* The digits from an offset on: x, the significant digits in it, and dexp,
\* the exponent of its last digit; point says they follow the point.
Mantissa(s, from, point, m0) ==
    LET go[i \in Nat, m \in [x : Nat, nd : Nat, dexp : Int]] ==
            LET c == Char(s, i)
                less == IF point THEN m.dexp - 1 ELSE m.dexp
            IN  IF ~IsDigit(c) THEN [end |-> i, m |-> m]
                ELSE IF m.nd = 0 /\ c = "0" THEN go[i + 1, [m EXCEPT !.dexp = less]]
                ELSE IF m.nd < SIGDIGITS
                     THEN go[i + 1, [x |-> m.x * 10 + __digval(c), nd |-> m.nd + 1, dexp |-> less]]
                ELSE go[i + 1, IF point THEN m ELSE [m EXCEPT !.dexp = @ + 1]]
    IN  go[from, m0]

\* The exponent part at an offset: it counts only with a digit in it.
Exponent(s, at) ==
    LET signed == Char(s, at + 1) \in {"-", "+"}
        first == IF signed THEN at + 2 ELSE at + 1
        last == SkipWhile(s, first, IsDigit)
        value[i \in Nat] == IF i = first THEN 0
                            ELSE IF value[i - 1] < 10000
                                 THEN value[i - 1] * 10 + __digval(Char(s, i - 1))
                            ELSE value[i - 1]
    IN  IF tolower(Char(s, at)) # "e" \/ last = first THEN [end |-> at, e |-> 0]
        ELSE [end |-> last, e |-> IF Char(s, at + 1) = "-" THEN -value[last] ELSE value[last]]

\* x * 10^e is above the largest double.
TooLarge(x, e) ==
    LET up(v, n) == v * (10 ^ n)
    IN  IF e > DblMax[2] THEN up(x, e - DblMax[2]) > DblMax[1]
        ELSE x > up(DblMax[1], DblMax[2] - e)

Real(neg, kind, m, e, end, error) ==
    [neg |-> neg, kind |-> kind, x |-> m.x, e |-> e, end |-> end, errno |-> error]
RealOf(neg, m, e, top, end) ==
    CASE m.nd = 0 -> Real(neg, "zero", m, e, end, "none")
      [] m.nd > 0 /\ top > MaxExp -> Real(neg, "huge", m, e, end, "ERANGE")
      [] m.nd > 0 /\ top < MinExp -> Real(neg, "zero", m, e, end, "ERANGE")
      [] OTHER -> IF e >= 0 /\ TooLarge(m.x, e) THEN Real(neg, "huge", m, e, end, "ERANGE")
                  ELSE Real(neg, "finite", m, e, end, "none")
WithPower(neg, m, exp) ==
    RealOf(neg, m, m.dexp + exp.e, m.dexp + exp.e + m.nd - 1, exp.end)
\* No digit at all is no number.
AfterDigits(s, neg, all, any) ==
    IF any THEN WithPower(neg, all.m, Exponent(s, all.end))
    ELSE Real(FALSE, "zero", all.m, all.m.dexp, 0, "none")
FractionAt(s, neg, p, all) == AfterDigits(s, neg, all, all.end > p + 1)
AfterWhole(s, neg, p, whole) ==
    IF Char(s, whole.end) # "." THEN AfterDigits(s, neg, whole, whole.end > p)
    ELSE FractionAt(s, neg, p, Mantissa(s, whole.end + 1, TRUE, whole.m))
AfterSign(s, neg, p) ==
    AfterWhole(s, neg, p, Mantissa(s, p, FALSE, [x |-> 0, nd |-> 0, dexp |-> 0]))
AfterSpace(s, i) ==
    AfterSign(s, Char(s, i) = "-", IF Char(s, i) \in {"-", "+"} THEN i + 1 ELSE i)
strtod(s) == AfterSpace(s, SkipWhile(s, 0, LAMBDA c : c \in Space))

----------------------------------------------------------------------------
(* Sorting and searching; compar compares the keys of the elements.        *)

compar(x, y) == x.key - y.key

RECURSIVE Up(_, _, _, _)
Up(A, lo, c, a) == IF compar(A[lo + c], A[lo + a]) > 0 THEN Up(A, lo, c, a + 1) ELSE a

RECURSIVE Down(_, _, _, _)
Down(A, lo, c, b) == IF compar(A[lo + c], A[lo + b]) < 0 THEN Down(A, lo, c, b - 1) ELSE b

\* The for (;;) of qsort: swaps pairs about the middle element, whose place
\* c is kept track of, and returns the array and where the left part ends.
RECURSIVE Partition(_, _, _, _, _)
Moved(c, a, b) == IF c = a THEN b ELSE IF c = b THEN a ELSE c
Swapped(A, i, j) == [A EXCEPT ![i] = A[j], ![j] = A[i]]
Pair(A, lo, c, a, b) ==
    IF a >= b THEN <<A, b + 1>>
    ELSE Partition(Swapped(A, lo + a, lo + b), lo, Moved(c, a, b), a + 1, b - 1)
Partition(A, lo, c, a, b) == Pair(A, lo, c, Up(A, lo, c, a), Down(A, lo, c, b))

\* Recursion on the smaller part, iteration on the larger one.
RECURSIVE qsort(_, _, _)
Halves(A, b, lo, nmemb) ==
    IF b < nmemb - b THEN qsort(qsort(A, lo, b), lo + b, nmemb - b)
    ELSE qsort(qsort(A, lo + b, nmemb - b), lo, b)
Parted(p, lo, nmemb) == Halves(p[1], p[2], lo, nmemb)
qsort(A, lo, nmemb) ==
    IF nmemb =< 1 THEN A
    ELSE Parted(Partition(A, lo, (nmemb - 1) \div 2, 0, nmemb - 1), lo, nmemb)

RECURSIVE bsearch(_, _, _, _)
bsearch(key, A, base, nmemb) ==
    LET try == nmemb \div 2
        res == compar(key, A[base + try])
    IN  IF nmemb = 0 THEN -1
        ELSE IF res = 0 THEN base + try
        ELSE IF res > 0 THEN bsearch(key, A, base + try + 1, nmemb - try - 1)
        ELSE bsearch(key, A, base, try)

----------------------------------------------------------------------------
(* Arithmetic and wide characters (one byte each).                         *)

labs(j) == IF j < 0 THEN -j ELSE j
abs(j) == IF j < 0 THEN -j ELSE j
llabs(j) == IF j < 0 THEN -j ELSE j
div(numer, denom) == <<Quot(numer, denom), Rem(numer, denom)>>
ldiv(numer, denom) == <<Quot(numer, denom), Rem(numer, denom)>>
lldiv(numer, denom) == <<Quot(numer, denom), Rem(numer, denom)>>

UCHAR_MAX == 255
WNUL == 0

mblen(s, n) == IF n = 0 THEN -1 ELSE IF s[1] = WNUL THEN 0 ELSE 1
mbtowc(s, n) == IF n = 0 THEN <<-1, -1>> ELSE <<IF s[1] = WNUL THEN 0 ELSE 1, s[1]>>
wctomb(wchar) == IF wchar < 0 \/ wchar > UCHAR_MAX THEN <<-1, -1>> ELSE <<1, wchar>>

\* Both return the count and what was stored; s and pwcs end with a null.
mbstowcs(s, n, null) ==
    LET go[i \in Nat] == IF i >= n THEN <<n, SubSeq(s, 1, n)>>
                         ELSE IF s[i + 1] = WNUL THEN <<i, SubSeq(s, 1, i + 1)>> ELSE go[i + 1]
    IN  IF null THEN <<Len(s) - 1, <<>>>> ELSE go[0]

wcstombs(pwcs, n, null) ==
    LET stored(i) == IF null THEN <<>> ELSE SubSeq(pwcs, 1, i)
        go[i \in Nat] ==
            IF ~null /\ i >= n THEN <<n, stored(n)>>
            ELSE IF pwcs[i + 1] = WNUL THEN <<i, stored(i + 1)>>
            ELSE IF pwcs[i + 1] < 0 \/ pwcs[i + 1] > UCHAR_MAX THEN <<-1, stored(i)>>
            ELSE go[i + 1]
    IN  go[0]

----------------------------------------------------------------------------
Arrays == UNION {[1 .. n -> Keys] : n \in 0 .. MaxArray}
Elements(ks) == [i \in DOMAIN ks |-> [key |-> ks[i], id |-> i]]

Converts ==
    \/ \E s \in Texts, base \in Bases :
           \/ Finished("stdlib", "signed", <<s, base, LONG_MAX>>, strtol(s, base))
           \/ Finished("stdlib", "signed", <<s, base, LLONG_MAX>>, strtoll(s, base))
           \/ Finished("stdlib", "unsigned", <<s, base, 2 * LONG_MAX + 1>>, strtoul(s, base))
           \/ Finished("stdlib", "unsigned", <<s, base, 2 * LLONG_MAX + 1>>, strtoull(s, base))
    \/ \E s \in Texts :
           Finished("stdlib", "equal", <<atoi(s), atol(s), atoll(s)>>,
                    <<strtol(s, 10).value, strtol(s, 10).value, strtoll(s, 10).value>>)
    \/ \E s \in Reals : Finished("stdlib", "real", s, strtod(s))

Sorts ==
    \E ks \in Arrays :
        \/ Finished("stdlib", "sort", Elements(ks), qsort(Elements(ks), 1, Len(ks)))
        \/ \E k \in Keys : LET A == qsort(Elements(ks), 1, Len(ks))
                           IN  Finished("stdlib", "search", <<A, k>>,
                                        bsearch([key |-> k, id |-> 0], A, 1, Len(A)))

Divides ==
    \/ \E a \in {-7, -6, -1, 0, 5, 6} : Finished("stdlib", "equal", <<abs(a), labs(a), llabs(a)>>,
                    <<abs(-a), labs(-a), llabs(-a)>>)
    \/ \E a \in {-7, -6, -1, 0, 5, 6}, b \in {-3, -1, 1, 2} :
           Finished("stdlib", "div", <<a, b>>, <<div(a, b), ldiv(a, b), lldiv(a, b)>>)

Wides ==
    \/ \E s \in {<<WNUL>>, <<65, WNUL>>, <<255, 1, WNUL>>}, n \in 0 .. 4, null \in BOOLEAN :
           LET w == mbstowcs(s, n, null)
           IN  /\ null \/ n > Len(s) - 1
               /\ \/ Finished("stdlib", "wide", <<s, null>>, <<w, wcstombs(s, n, null)>>)
                  \/ Finished("stdlib", "equal", <<mblen(s, n)>>, <<mbtowc(s, n)[1]>>)
    \/ \E w \in {-1, 0, 255, 256} :
           Finished("stdlib", "narrow", w, <<wctomb(w), wcstombs(<<w, 7, WNUL>>, 2, FALSE)>>)

StdlibNext == Converts \/ Sorts \/ Divides \/ Wides

----------------------------------------------------------------------------
(* The reference.  A text is read as white space, a sign, a prefix and the *)
(* longest run of digits; its value is a sum of digits.                    *)

Sum(seq, base) == LET v[n \in 0 .. Len(seq)] == IF n = 0 THEN 0 ELSE v[n - 1] * base + seq[n]
                  IN  v[Len(seq)]

\* The longest number that begins at an offset after the white space: how
\* much of the text it takes, its sign and its magnitude.
IsNumber(s, from, to, base) ==
    \E sign \in 0 .. 1, prefix \in {0, 2} :
        LET d == from + sign + prefix
        IN  /\ d < to
            /\ sign = 1 <=> Char(s, from) \in {"-", "+"}
            /\ prefix = 2 => /\ base \in {0, 16} /\ Char(s, from + sign) = "0"
                             /\ Char(s, from + sign + 1) \in {"x", "X"}
            /\ \A i \in d .. to - 1 : __digval(Char(s, i)) <
                   (IF prefix = 2 THEN 16 ELSE IF base # 0 THEN base
                    ELSE IF Char(s, from + sign) = "0" THEN 8 ELSE 10)
NumberEnd(s, base) ==
    LET from == CHOOSE i \in 0 .. Len(s) : /\ \A k \in 0 .. i - 1 : Char(s, k) \in Space
                                           /\ Char(s, i) \notin Space
        ends == {to \in 1 .. Len(s) : IsNumber(s, from, to, base)}
    IN  IF ends = {} THEN 0 ELSE CHOOSE to \in ends : \A other \in ends : other =< to

NumberValue(s, base, end) ==
    LET sub == Subject(s, base)
        v == Sum([i \in 1 .. end - sub.at |-> __digval(Char(s, sub.at + i - 1))], sub.base)
    IN  IF sub.neg THEN -v ELSE v

\* What strtod returned for a text, against the digits it took.
RealExact(s, r) ==
    LET t == SelectSeq(SubSeq(s, 1, r.end), LAMBDA c : c # "-" /\ c # " " /\ c # "+")
        ats == {i \in DOMAIN t : t[i] = "e"}
        m == IF ats = {} THEN t ELSE SubSeq(t, 1, (CHOOSE i \in ats : TRUE) - 1)
        ds == SelectSeq(m, IsDigit)
        dots == {i \in DOMAIN m : m[i] = "."}
        after == IF dots = {} THEN 0 ELSE Len(m) - (CHOOSE i \in dots : TRUE)
        taken == SubSeq(s, 1, r.end)
        exp == Exponent(taken, SkipWhile(taken, 0, LAMBDA c : c # "e" /\ c # "NUL")).e
        all == Sum([i \in DOMAIN ds |-> __digval(ds[i])], 10)
        shift == r.e - (exp - after)     \* digits dropped from all
    IN  /\ r.kind = "finite" => /\ r.x # 0 /\ shift >= 0
                                /\ all \div (10 ^ shift) = r.x
                                /\ ~TooLarge(r.x, r.e)
        /\ r.kind = "zero" /\ r.errno = "none" => all = 0 \/ r.end = 0
        /\ r.kind = "huge" => exp > 0 \/ Len(ds) > SIGDIGITS

\* The strto family takes the longest number C99 lets it take and stores
\* where it ends, answers a value out of range with the nearest limit and
\* ERANGE (never with a wrapped value) and takes all its digits; strtod keeps
\* the magnitude of every text, however many digits it has, and lets no
\* exponent out of range through; qsort returns an ordered permutation for
\* every comparison with ties, and bsearch finds a key that is there.
StdlibExact ==
    call.of = "stdlib" =>
        LET r == call.out
        IN  CASE call.op = "equal" -> r = call.in
              [] call.op \in {"signed", "unsigned"} ->
                     LET s == call.in[1] base == call.in[2] max == call.in[3]
                         end == NumberEnd(s, base)
                         v == IF end = 0 THEN 0 ELSE NumberValue(s, base, end)
                     IN  IF BadBase(base) THEN r = Converted(0, 0, "EINVAL")
                         ELSE /\ r.end = end
                              /\ IF call.op = "signed"
                                 THEN CASE v > max -> r.value = max /\ r.errno = "ERANGE"
                                        [] v < -max - 1 -> r.value = -max - 1 /\ r.errno = "ERANGE"
                                        [] OTHER -> r.value = v /\ r.errno = "none"
                                 ELSE IF labs(v) > max THEN r.value = max /\ r.errno = "ERANGE"
                                      ELSE r.value = v % (max + 1) /\ r.errno = "none"
              [] call.op = "real" -> RealExact(call.in, r)
              [] call.op = "sort" ->
                     /\ Len(r) = Len(call.in)
                     /\ {r[i] : i \in DOMAIN r} = {call.in[i] : i \in DOMAIN r}
                     /\ \A i \in 1 .. Len(r) - 1 : r[i].key =< r[i + 1].key
              [] call.op = "search" ->
                     LET A == call.in[1]
                     IN  IF \E i \in DOMAIN A : A[i].key = call.in[2]
                         THEN r \in DOMAIN A /\ A[r].key = call.in[2] ELSE r = -1
              [] call.op = "div" ->
                     \A i \in DOMAIN r : /\ r[i][1] * call.in[2] + r[i][2] = call.in[1]
                                         /\ labs(r[i][2]) < labs(call.in[2])
                                         /\ r[i][2] * call.in[1] >= 0
              [] call.op = "wide" ->
                     /\ \A i \in 1 .. 2 : r[i][1] = Len(call.in[1]) - 1
                     /\ ~call.in[2] => \A i \in 1 .. 2 : r[i][2] = call.in[1]
              [] call.op = "narrow" ->
                     (r[1][1] = -1) = (r[2][1] = -1) /\ (r[1][1] = -1) = (call.in \notin 0 .. 255)
============================================================================
