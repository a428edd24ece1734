------------------------------- MODULE Scanf -------------------------------
(***************************************************************************)
(* src/src/stdio/vvscanf.c, behind scanf, fscanf and sscanf.  The input is *)
(* a text and ch the character at a position of it, AT_END past its end; a *)
(* format is a sequence of items, a blank, an ordinary character or a      *)
(* conversion with its field width (NoWidth when there is none), length    *)
(* modifier and the * that skips the variable.  What a conversion stores   *)
(* is appended to a list; an integer is what the type named by the length  *)
(* modifier keeps of it, a double <<negative, digits, exponent>> as strtod *)
(* gets it (module Stdlib is about strtod).                                *)
(***************************************************************************)
EXTENDS Printf
LOCAL INSTANCE SequencesExt

CONSTANTS
    NoWidth,        \* 0x7FFFFFFF
    SIGD,           \* 17: the significant digits handed to strtod
    ScanWidths,     \* the field widths tried
    ScanTexts       \* the inputs tried

EOF == -1
Blanks == {" "}
Scanned(conv, size, width, skipvar, set) ==
    [conv |-> conv, size |-> size, width |-> width, skipvar |-> skipvar, set |-> set]

\* The state of the scan: i is the position of ch in the input s.
AtEnd(s, i) == i > Len(s)
Ch(s, i) == IF AtEnd(s, i) THEN "END" ELSE s[i]
SkipBlanks(s, i) ==
    LET go[k \in Nat] == IF Ch(s, k) \in Blanks THEN go[k + 1] ELSE k IN go[i]
\* The characters from i that satisfy Ok, at most width of them.
Span(s, i, width, Ok(_)) ==
    LET go[k \in Nat] == IF k - i < width /\ ~AtEnd(s, k) /\ Ok(s[k]) THEN go[k + 1] ELSE k
    IN  go[i]


\* One more item matched: what it stored, unless it was skipped.
Matched(st, c, i, value) ==
    [st EXCEPT !.i = i, !.cnt = @ + (IF c.skipvar THEN 0 ELSE 1),
               !.stored = IF c.skipvar THEN @ ELSE Append(@, value)]
\* No match: the scan is over, an input failure if the input has ended.
Stopped(st, i, failed) == [st EXCEPT !.i = i, !.failed = failed, !.over = TRUE]

\* The characters from i up to j, as a string.
Found(s, st, c, i, j) == Matched(st, c, j, SubSeq(s, i, j - 1))

ScanWord(s, st, c, i) ==
    IF AtEnd(s, i) THEN Stopped(st, i, TRUE)
    ELSE Found(s, st, c, i, Span(s, i, c.width, LAMBDA ch : ch \notin Blanks))
ScanString(s, st, c) == ScanWord(s, st, c, SkipBlanks(s, st.i))

\* %[ and %[^: c.set holds the characters between the brackets.
SetOrStop(s, st, c, j) ==
    IF j > st.i THEN Found(s, st, c, st.i, j) ELSE Stopped(st, st.i, AtEnd(s, st.i))
ScanSet(s, st, c) ==
    SetOrStop(s, st, c, Span(s, st.i, c.width,
        LAMBDA ch : IF c.conv = "[^" THEN ch \notin c.set ELSE ch \in c.set))

CharsOrStop(s, st, c, width, j) ==
    IF j - st.i < width THEN Stopped(st, j, TRUE) ELSE Found(s, st, c, st.i, j)
CharsOf(s, st, c, width) ==
    CharsOrStop(s, st, c, width, Span(s, st.i, width, LAMBDA ch : TRUE))
ScanChars(s, st, c) == CharsOf(s, st, c, IF c.width = NoWidth THEN 1 ELSE c.width)

\* The value an item's type keeps, signed or not.
Kept(c, x) == Narrowed([conv |-> IF c.conv \in {"d", "i"} THEN "d" ELSE "u",
                        size |-> c.size], x % LongLongRange)

\* One more character of a number q: base 0 is decided by the first digit,
\* and x is a prefix right after one leading 0.
HexValue(ch) == IF ch \in Range(Hex) THEN DigitValue(ch) ELSE 99
Decided(q, ch) == IF q.base # 0 THEN q.base
                  ELSE IF HexValue(ch) >= 10 THEN 0 ELSE IF ch = "0" THEN 8 ELSE 10
TakeDigit(q, ch, base) ==
    IF HexValue(ch) >= base THEN q
    ELSE [q EXCEPT !.base = base, !.undecided = @ /\ base # 10,
                   !.x = (@ * base + HexValue(ch)) % LongLongRange,
                   !.width = @ - 1, !.i = @ + 1, !.mcnt = @ + 1]
OneDigit(s, q, ch) ==
    IF q.width = 0 \/ AtEnd(s, q.i) THEN q
    ELSE IF /\ ch = "x" /\ q.mcnt = 1 /\ q.x = 0
            /\ q.base = 16 \/ (q.base = 8 /\ q.undecided)
    THEN [q EXCEPT !.base = 16, !.undecided = FALSE, !.width = @ - 1, !.i = @ + 1]
    ELSE TakeDigit(q, ch, Decided(q, ch))
ScanDigits(s, from, room, ibase) ==
    LET More(q) == OneDigit(s, q, Ch(s, q.i))
        step[n \in 0 .. Len(s) + 1] ==
            IF n = 0 THEN [i |-> from, width |-> room, base |-> ibase, undecided |-> ibase = 0,
                           x |-> 0, mcnt |-> 0]
            ELSE More(step[n - 1])
    IN  step[Len(s) + 1]

Numbered(s, st, c, neg, r) ==
    IF r.mcnt = 0 THEN Stopped(st, r.i, AtEnd(s, r.i))
    ELSE Matched(st, c, r.i, Kept(c, IF neg THEN -r.x ELSE r.x))
ScanBase(c) == CASE c.conv \in {"x", "p"} -> 16 [] c.conv = "o" -> 8
                 [] c.conv = "i" -> 0 [] OTHER -> 10
IntegerAt(s, st, c, i) ==
    Numbered(s, st, c, Ch(s, i) = "-",
             IF Ch(s, i) \in {"-", "+"} THEN ScanDigits(s, i + 1, c.width - 1, ScanBase(c))
             ELSE ScanDigits(s, i, c.width, ScanBase(c)))
ScanInteger(s, st, c) == IntegerAt(s, st, c, SkipBlanks(s, st.i))

\* Digits with one point, then e, a sign and digits.  The phase is 0 in the
\* digits, 1 after the point, 2 after e, 3 after its sign or digit and -1
\* where the number has ended.
Dec(ch) == DigitValue(ch) \in 0 .. 9
Phase(was, ch) ==
    CASE was = -1 -> -1
      [] was # -1 /\ ch = "." -> IF was = 0 THEN 1 ELSE -1
      [] was # -1 /\ ch = "e" -> IF was \in {0, 1} THEN 2 ELSE -1
      [] was # -1 /\ ch \in {"+", "-"} -> IF was = 2 THEN 3 ELSE -1
      [] OTHER -> IF ~Dec(ch) THEN -1 ELSE IF was = 2 THEN 3 ELSE was
RealEnd(s, from, room) ==
    LET phase[k \in 0 .. Len(s) + 1] ==
            IF k = 0 THEN 0 ELSE IF k > room THEN -1 ELSE Phase(phase[k - 1], Ch(s, from + k - 1))
    IN  from + CHOOSE k \in 0 .. Len(s) : phase[k] >= 0 /\ phase[k + 1] = -1

\* At most SIGD digits from the first that is not 0 are kept, the others
\* count in the exponent; adj is what the point takes from it.
Significant(neg, ds, exp) ==
    <<neg, NumberIn(10, First(ds, SIGD)), exp + Most(Len(ds) - SIGD, 0)>>
RealValue(neg, ds, lead, exp) ==
    IF lead = 0 THEN <<FALSE, 0, 0>> ELSE Significant(neg, SubSeq(ds, lead, Len(ds)), exp)
RealMatched(s, st, c, neg, end, mant, ds, exptext, expds) ==
    IF ds = <<>> \/ (exptext # <<>> /\ expds = <<>>)
    THEN Stopped(st, end, ds = <<>> /\ AtEnd(s, end))
    ELSE Matched(st, c, end,
                 RealValue(neg, ds, SelectInSeq(ds, LAMBDA ch : ch # "0"),
                           SignOf(SubSeq(exptext, 2, Len(exptext))) * NumberIn(10, expds)
                           - Fraction(mant, SelectInSeq(mant, LAMBDA ch : ch = "."))))
RealParts(s, st, c, neg, end, mant, exptext) ==
    RealMatched(s, st, c, neg, end, mant, SelectSeq(mant, LAMBDA ch : ch # "."), exptext,
                SelectSeq(exptext, Dec))
RealPieces(s, st, c, neg, end, t, e) ==
    IF e = 0 THEN RealParts(s, st, c, neg, end, t, <<>>)
    ELSE RealParts(s, st, c, neg, end, SubSeq(t, 1, e - 1), SubSeq(t, e, Len(t)))
RealFound(s, st, c, neg, end, t) ==
    RealPieces(s, st, c, neg, end, t, SelectInSeq(t, LAMBDA ch : ch = "e"))
RealTaken(s, st, c, neg, from, end) == RealFound(s, st, c, neg, end, SubSeq(s, from, end - 1))
RealAt(s, st, c, i) ==
    IF Ch(s, i) \in {"-", "+"}
    THEN RealTaken(s, st, c, Ch(s, i) = "-", i + 1, RealEnd(s, i + 1, c.width - 1))
    ELSE RealTaken(s, st, c, FALSE, i, RealEnd(s, i, c.width))
ScanReal(s, st, c) == RealAt(s, st, c, SkipBlanks(s, st.i))

ScanItem(s, st, c) ==
    CASE st.over -> st
      [] ~st.over /\ c.conv = "blank" -> [st EXCEPT !.i = SkipBlanks(s, @)]
      [] ~st.over /\ c.conv = "literal" ->
             IF Ch(s, st.i) = c.arg THEN [st EXCEPT !.i = @ + 1]
             ELSE Stopped(st, st.i, AtEnd(s, st.i))
      [] ~st.over /\ c.conv = "%" ->
             IF Ch(s, st.i) = "%" THEN [st EXCEPT !.i = @ + 1] ELSE Stopped(st, st.i, FALSE)
      [] ~st.over /\ c.conv = "s" -> ScanString(s, st, c)
      [] ~st.over /\ c.conv \in {"[", "[^"} -> ScanSet(s, st, c)
      [] ~st.over /\ c.conv = "c" -> ScanChars(s, st, c)
      [] ~st.over /\ c.conv = "n" -> [st EXCEPT !.stored = Append(@, st.i - 1)]
      [] ~st.over /\ c.conv \in {"d", "u", "x", "o", "p", "i"} -> ScanInteger(s, st, c)
      [] ~st.over /\ c.conv \in {"e", "f", "g"} -> ScanReal(s, st, c)

\* The character at i is not part of an item: ungetc gives it back, so the
\* stream stands before it.
ScanResult(s, end) ==
    [rc |-> IF end.cnt = 0 /\ end.failed THEN EOF ELSE end.cnt,
     stored |-> end.stored, left |-> SubSeq(s, end.i, Len(s))]
vvscanf(s, format) ==
    ScanResult(s, FoldLeft(LAMBDA st, c : ScanItem(s, st, c),
        [i |-> 1, cnt |-> 0, stored |-> <<>>, failed |-> FALSE, over |-> FALSE], format))

----------------------------------------------------------------------------
WhiteSpace == [conv |-> "blank"]

\* One item and the count of what it read.
Items ==
    {Scanned(conv, size, w, skip, {}) : conv \in {"d", "u", "x", "o", "i"}, size \in {"", "hh"},
                                        w \in ScanWidths, skip \in BOOLEAN}
    \cup {Scanned(conv, "", w, skip, {"1", " "}) : conv \in {"s", "[", "[^", "c", "f"},
                                                   w \in ScanWidths, skip \in BOOLEAN}
Count == Scanned("n", "", NoWidth, FALSE, {})

ScanOne ==
    \E c \in Items, text \in ScanTexts :
        Finished("scanf", "one", <<c, text>>, vvscanf(text, <<c, Count>>))

ScanPercent ==
    \E text \in ScanTexts :
        Finished("scanf", "percent", text,
                 vvscanf(text, <<Scanned("%", "", NoWidth, FALSE, {}), Count>>))

\* Two numbers and a word, printed by vsnprintf and read back.
ScanBack ==
    \E v, w \in Ints, t \in Words, base \in {"d", "x", "o"}, flags \in {{}, {"0"}, {"+"}, {"#"}} :
        /\ t # <<>>
        /\ Finished("scanf", "back", <<v, w, t, base>>,
               vvscanf(Written(<<Conversion(base, v, "", flags, 5, -1), Ordinary("<"),
                                 Conversion("d", w, "hh", {}, -3, -1),
                                 Conversion("s", t, "", {}, 3, -1)>>),
                       <<Scanned(base, "", NoWidth, FALSE, {}), Ordinary("<"),
                         Scanned("d", "hh", NoWidth, FALSE, {}), WhiteSpace,
                         Scanned("s", "", NoWidth, FALSE, {})>>))

ReadBack(c) ==
    Finished("scanf", "real", c, vvscanf(Item(c), <<Scanned("f", "", NoWidth, FALSE, {})>>))

ScanRealBack ==
    \E v \in Doubles, conv \in {"e", "f", "g"}, p \in Precisions :
        ReadBack(Conversion(conv, v, "", {"+"}, 9, p))

ScanfNext == ScanOne \/ ScanPercent \/ ScanBack \/ ScanRealBack

----------------------------------------------------------------------------
SameValue(d, got, shift) ==
    IF d[1] = 0 THEN got[2] = 0
    ELSE IF shift >= 0 THEN got[2] = d[1] \div Ten(shift) ELSE got[2] = d[1] * Ten(-shift)
SameReal(sign, d, got) ==
    got[1] = (sign = -1 /\ d[1] > 0) /\ SameValue(d, got, got[3] - (d[3] - d[2]))
RealBack(text, got) == SameReal(SignOf(text), Decimal(SansSign(text), 10, "e"), got)

\* One item c of a text: used characters are gone, blanks came before it.
OneExact(c, text, r, used, blanks) ==
    /\ r.rc \in {EOF, 0, 1}
    /\ IsSuffix(r.left, text)
    /\ r.rc = 1 => /\ r.stored # <<>> /\ Last(r.stored) = used
                   /\ Len(r.stored) = 2 /\ ~c.skipvar
    /\ c.width # NoWidth =>
           used =< c.width + (IF c.conv \in {"[", "[^", "c"} THEN 0 ELSE blanks)
    /\ r.rc = EOF => r.left = <<>> /\ r.stored = <<>>
    /\ r.rc = 1 /\ c.conv \in {"s", "[", "[^", "c"} =>
           r.stored[1] = SubSeq(text, (IF c.conv = "s" THEN blanks ELSE 0) + 1, used)
    /\ r.rc = 1 /\ c.conv \in {"d", "u"} =>
           r.stored[1] = Kept(c, SignOf(SubSeq(text, blanks + 1, used))
                                 * NumberIn(10, SansSign(SubSeq(text, blanks + 1, used))))

\* A text that vsnprintf wrote is read back by vvscanf as the values that
\* were printed, whatever the base, the flags and the padding (a double as
\* the rounded value its text shows).  An item reads a piece of the input,
\* no longer than its width after the blanks, gives back what it did not
\* use, and %n says how much it read; an item that is skipped stores and
\* counts nothing; EOF is returned exactly when the input ended before the
\* first item could match.
ScanfExact ==
    call.of = "scanf" =>
        LET r == call.out
        IN  CASE call.op = "back" ->
                     LET t == IF call.in[3] = NullPointer THEN Null ELSE call.in[3]
                     IN  /\ r.rc = 3
                         /\ r.stored = <<Narrowed([conv |-> IF call.in[4] = "d" THEN "d" ELSE "u",
                                                   size |-> ""], call.in[1]),
                                         Narrowed([conv |-> "d", size |-> "hh"], call.in[2]), t>>
                         /\ r.left = <<>>
              [] call.op = "real" ->
                     /\ r.rc = 1 /\ r.left = <<>>
                     /\ RealBack(Trimmed(Item(call.in)), r.stored[1])
              [] call.op = "one" ->
                     OneExact(call.in[1], call.in[2], r, Len(call.in[2]) - Len(r.left),
                              SkipBlanks(call.in[2], 1) - 1)
              [] call.op = "percent" -> (r.stored = <<1>>) = (Ch(call.in, 1) = "%") /\ r.rc = 0
============================================================================
