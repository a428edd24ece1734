------------------------------- MODULE Printf -------------------------------
(***************************************************************************)
(* The printf family: vsnprintf, vvprintf (behind printf, fprintf and      *)
(* sprintf), __examin for a conversion with flags, width, precision or     *)
(* length modifier, and __dblcvx for the digits of a floating point value. *)
(*                                                                         *)
(* A text is a sequence of characters.  A format is a sequence of items,   *)
(* an ordinary character or a conversion; a conversion is the record that  *)
(* the parsing at the top of __examin leaves, with the arguments of a * in *)
(* place of a number.  The ranges of the integer types are parameters.  A  *)
(* double is <<negative, n, e>> for n * 10^e with n below 10^NumDigits,    *)
(* computed with exactly: hexadecimal floating point rounding is left out. *)
(***************************************************************************)
EXTENDS Library
LOCAL INSTANCE SequencesExt
LOCAL INSTANCE FiniteSetsExt

CONSTANTS
    CharRange, ShortRange, IntRange, LongLongRange,     \* 2^8, 2^16, 2^32, 2^64
    NumDigits,      \* the decimal digits of the doubles tried
    HexDigits,      \* of the fraction of a double: 14
    WorkSize,       \* sizeof(work) - 1 = 127: what a double's text fits in
    Ints, Doubles, Fractions, Words,    \* the arguments tried
    Widths, Precisions,     \* and the widths and precisions, -1 for none
    PrintRooms      \* buffer sizes given to vsnprintf

Rep(c, n) == [i \in 1 .. (IF n < 0 THEN 0 ELSE n) |-> c]     \* n times c
Hex == <<"0", "1", "2", "3", "4", "5", "6", "7", "8", "9", "a", "b", "c", "d", "e", "f">>
Digit(d) == Hex[d + 1]
Least(a, b) == IF a < b THEN a ELSE b
Most(a, b) == IF a > b THEN a ELSE b
First(s, n) == SubSeq(s, 1, Least(n, Len(s)))

\* The digits of v, none of zero.
DigitsIn(v, base) ==
    LET ds[x \in Nat] == IF x = 0 THEN <<>> ELSE Append(ds[x \div base], Digit(x % base))
    IN  ds[v]

----------------------------------------------------------------------------
(* __examin.                                                               *)

\* After the flags: a negative * width is the - flag, + wins over blank and
\* - over 0.
Flags(c) ==
    [c EXCEPT !.minus = @ \/ c.width < 0,
              !.width = IF @ < 0 THEN -@ ELSE @,
              !.space = @ /\ ~c.plus,
              !.zero = @ /\ ~c.minus /\ c.width >= 0]

IsSigned(c) == c.conv \in {"d", "i"}
TypeRange(c) == CASE c.size = "hh" -> CharRange [] c.size = "h" -> ShortRange
                  [] c.size = "ll" -> LongLongRange [] OTHER -> IntRange

\* The argument as the type that the length modifier names.
Narrowed(c, v) ==
    LET r == TypeRange(c) IN
    IF IsSigned(c) /\ 2 * (v % r) >= r THEN (v % r) - r ELSE v % r

\* The text in its field: the blanks last with the - flag, else first.
Padded(c, text) ==
    IF c.minus THEN text \o Rep(" ", c.width - Len(text))
    ELSE Rep(" ", c.width - Len(text)) \o text

BaseOf(c) == IF c.conv \in {"x", "p"} THEN 16 ELSE IF c.conv = "o" THEN 8 ELSE 10
SignText(c, negative) ==
    IF negative THEN <<"-">> ELSE IF c.plus THEN <<"+">> ELSE IF c.space THEN <<" ">> ELSE <<>>

\* Blanks, sign and 0x (front), zeros and digits (work): the 0 flag fills the
\* width with zeros, # makes the first octal digit a 0.
Octal(c, work, zeros) ==
    IF c.hash /\ c.conv = "o" /\ zeros = 0 /\ (work = <<>> \/ work[1] # "0") THEN 1 ELSE zeros
Filled(c, taken, zeros) == IF c.zero /\ taken + zeros < c.width THEN c.width - taken ELSE zeros
Numeral(c, front, work, zeros) ==
    Padded(c, front \o Rep("0", Filled(c, Len(front \o work), Octal(c, work, zeros))) \o work)
SignedDigits(c, negative, work) ==
    Numeral(c, SignText(c, negative)
               \o (IF c.hash /\ c.conv = "x" /\ work # <<>> THEN <<"0", "x">> ELSE <<>>),
            work,
            Most((IF c.conv = "p" THEN 8 ELSE IF c.precision < 0 THEN 1 ELSE c.precision)
                 - Len(work), 0))
Magnitude(c, value) ==
    SignedDigits(c, value < 0, DigitsIn(IF value < 0 THEN -value ELSE value, BaseOf(c)))
Integer(f, v) == Magnitude([Flags(f) EXCEPT !.zero = @ /\ f.precision < 0], Narrowed(f, v))

\* A floating point text: the sign and the 0x of %a come before the zeros.
Padding(c, sign, body, pfx, pad) ==
    (IF ~c.minus /\ ~c.zero THEN Rep(" ", pad) ELSE <<>>)
    \o sign \o First(body, pfx)
    \o (IF ~c.minus /\ c.zero THEN Rep("0", pad) ELSE <<>>)
    \o SubSeq(body, pfx + 1, Len(body))
    \o (IF c.minus THEN Rep(" ", pad) ELSE <<>>)
SignedText(c, sign, body, pfx) ==
    Padding(c, sign, body, pfx, Most(c.width - Len(body) - Len(sign), 0))
Layout(c, text, pfx) ==
    IF text # <<>> /\ text[1] = "-" THEN SignedText(c, <<"-">>, Tail(text), pfx)
    ELSE SignedText(c, SignText(c, FALSE), text, pfx)

Null == <<"(", "n", "u", "l", "l", ")">>
NullPointer == <<"NULL">>

CutTo(c, text) == IF c.precision < 0 THEN text ELSE First(text, c.precision)
String(c, s) == Padded(c, CutTo(c, IF s = NullPointer THEN Null ELSE s))

Character(c, ch) == Padded(c, <<ch>>)

----------------------------------------------------------------------------
(* __dblcvx.  b, scaled into [1, 10), is the integer b * 10^(NumDigits+1). *)

Ten(n) == 10 ^ n
Unit == Ten(NumDigits + 1)

ScaledBy(n, e, d) == [b |-> n * Ten(NumDigits + 2 - d), exp |-> d - 1 + e]
scale(n, e) == IF n = 0 THEN [b |-> 0, exp |-> 0] ELSE ScaledBy(n, e, Len(DigitsIn(n, 10)))

\* Half a unit of fractional digit j of b; below the digits kept it adds
\* nothing that is printed.
HalfUnit(j) == IF j > NumDigits THEN 0 ELSE 5 * Ten(NumDigits - j)

StyleOf(x, p) == IF x < p /\ x >= -4 THEN [style |-> "f", prec |-> p - 1 - x]
                 ELSE [style |-> "e", prec |-> p - 1]
gstyle(s, p) ==
    StyleOf(s.exp + (IF s.b # 0 /\ s.b + HalfUnit(p - 1) >= 10 * Unit THEN 1 ELSE 0), p)

\* b is a digit longer when half a unit was added to 9.99.
Carried(up, s, format) ==
    IF up >= 10 * Unit THEN [b |-> up \div 10, exp |-> s.exp + 1, format |-> format]
    ELSE [b |-> up, exp |-> s.exp, format |-> format]

\* Mutant: 9.99 rounds to 10.0 and stays there.
RoundAt_NoCarry(s, format, j) ==
    IF j >= 0 THEN [b |-> s.b + HalfUnit(j), exp |-> s.exp, format |-> format]
    ELSE [b |-> 0, exp |-> 0, format |-> 1]

RoundAt(s, format, j) ==
    CASE j >= 0 /\ s.b = 0 -> [b |-> 0, exp |-> s.exp, format |-> format]
      [] j >= 0 /\ s.b # 0 -> Carried(s.b + HalfUnit(j), s, format)
      [] j = -1 /\ s.b >= 5 * Unit -> [b |-> Unit, exp |-> s.exp + 1, format |-> format]
      [] OTHER -> [b |-> 0, exp |-> 0, format |-> 1]
roundb(s, format, nprecision) ==
    RoundAt(s, format, IF format = 0 THEN nprecision ELSE s.exp + nprecision)

\* Digit k of b, 0 the one before the point.
nextdigit(b, k) == Digit(IF k > NumDigits + 1 THEN 0 ELSE (b \div Ten(NumDigits + 1 - k)) % 10)
DigitsFrom(b, i, k) == [n \in 1 .. k - i + 1 |-> nextdigit(b, i + n - 1)]

fbelow1(s, nprecision) ==
    <<"0", ".">> \o Rep("0", -s.exp - 1) \o DigitsFrom(s.b, 0, nprecision + s.exp)

fabove1(s, nprecision, alt) ==
    DigitsFrom(s.b, 0, s.exp)
    \o (IF nprecision > 0 \/ alt THEN <<".">> ELSE <<>>)
    \o DigitsFrom(s.b, s.exp + 1, s.exp + nprecision)

emant(s, nprecision, alt) ==
    <<nextdigit(s.b, 0)>> \o (IF nprecision > 0 \/ alt THEN <<".">> ELSE <<>>)
    \o DigitsFrom(s.b, 1, nprecision)

Stripped(text, p, last) == IF p = 0 THEN text ELSE First(text, IF last = p THEN p - 1 ELSE last)
gstrip(text) == Stripped(text, SelectInSeq(text, LAMBDA c : c = "."),
                         SelectLastInSeq(text, LAMBDA c : c # "0"))

Abs(n) == IF n < 0 THEN -n ELSE n
expo(exp) == <<"e", IF exp < 0 THEN "-" ELSE "+",
               Digit((Abs(exp) \div 10) % 10), Digit(Abs(exp) % 10)>>

\* The text stays below rsize: the digits of an e style (shape 0) stop four
\* short of it, so that the exponent always fits.  r is what is asked for.
Significand(s, shape, prec, alt) ==
    CASE shape = -1 -> fbelow1(s, prec)
      [] shape = 1 -> fabove1(s, prec, alt)
      [] OTHER -> emant(s, prec, alt)
Justified(r, lim, text) == Rep(" ", Least(r.nwidth, lim) - Len(text)) \o text
WithExponent(r, s, shape, lim, digits) ==
    Justified(r, lim, First((IF r.cnvtype = "g" /\ ~r.alt THEN gstrip(digits) ELSE digits)
                            \o (IF shape = 0 THEN expo(s.exp) ELSE <<>>), lim))
InShape(r, s, shape, prec, lim) ==
    WithExponent(r, s, shape, lim,
        First((IF r.neg THEN <<"-">> ELSE <<>>) \o Significand(s, shape, prec, r.alt),
              IF shape # 0 THEN lim ELSE Most(lim - 4, 0)))
OfRounded(r, s, prec, lim) ==
    InShape(r, s, IF s.format = -1 /\ s.exp >= 0 THEN 1 ELSE s.format, prec, lim)
InStyle(r, scaled, style, lim) ==
    OfRounded(r, roundb(scaled, IF style.style = "e" THEN 0 ELSE IF scaled.exp >= 0 THEN 1 ELSE -1,
                        style.prec), style.prec, lim)
OfScaled(r, scaled, nprecision, lim) ==
    InStyle(r, scaled, IF r.cnvtype = "g" THEN gstyle(scaled, Most(nprecision, 1))
                       ELSE [style |-> r.cnvtype, prec |-> nprecision], lim)
__dblcvx(num, cnvtype, nwidth, nprecision, alt, rsize) ==
    IF rsize = 0 THEN <<>>
    ELSE OfScaled([neg |-> num[1] /\ num[2] > 0, cnvtype |-> cnvtype, nwidth |-> nwidth,
                   alt |-> alt], scale(num[2], num[3]), nprecision, rsize - 1)

__dblcvt(num, cnvtype, nwidth, nprecision, rsize) ==
    __dblcvx(num, cnvtype, nwidth, nprecision, FALSE, rsize)

\* %a: w is <<negative, exponent, digits of the fraction>>.
HexExponent(e) == <<"p", IF e < 0 THEN "-" ELSE "+">>
                  \o (IF e = 0 THEN <<"0">> ELSE DigitsIn(Abs(e), 10))
HexForm(neg, d, e, nd, alt, carry) ==
    (IF neg THEN <<"-">> ELSE <<>>)
    \o <<"0", "x", Digit(IF carry[0] = 1 THEN 1 ELSE (d[1] + carry[1]) % 16)>>
    \o (IF nd > 0 \/ alt THEN <<".">> ELSE <<>>)
    \o [i \in 1 .. nd |-> Digit(IF i + 1 > HexDigits THEN 0 ELSE (d[i + 1] + carry[i + 1]) % 16)]
    \o HexExponent(4 * (e + carry[0]))

\* The carries into digit i (1 is the first) when digit nd + 2 rounds up.
HexCarry(d, nd) ==
    LET carry[i \in 0 .. Most(nd, 0) + 1] ==
            IF nd >= HexDigits - 1 \/ d[nd + 2] < 8 THEN 0
            ELSE IF i = nd + 1 THEN 1
            ELSE IF d[i + 1] + carry[i + 1] = 16 THEN 1 ELSE 0
    IN  carry
HexRounded(neg, d, e, nd, alt) == HexForm(neg, d, e, nd, alt, HexCarry(d, nd))
HexNormal(w, lead, d, prec, alt) ==
    HexRounded(w[1], d, IF lead = 0 THEN 0 ELSE w[2] - 64 - lead,
               IF prec >= 0 THEN prec ELSE SelectLastInSeq(d, LAMBDA x : x # 0) - 1, alt)
HexLead(w, lead, prec, alt) ==
    HexNormal(w, lead, IF lead = 0 THEN w[3] ELSE SubSeq(w[3], lead, HexDigits) \o Rep(0, lead - 1),
              prec, alt)
hexflt(w, prec, alt) == HexLead(w, SelectInSeq(w[3], LAMBDA d : d # 0), prec, alt)

----------------------------------------------------------------------------
(* Formats.  A conversion has neither flags, width, precision nor length   *)
(* modifier when it is Plain.                                              *)

Ordinary(ch) == [conv |-> "literal", arg |-> ch]
Plain(c) == ~c.minus /\ ~c.plus /\ ~c.space /\ ~c.hash /\ ~c.zero /\ c.width = 0
            /\ c.precision < 0 /\ c.size = ""

\* What one call of __examin writes; %n writes nothing, and a conversion
\* that means nothing is written as it stands.
__examin(c) ==
    CASE c.conv \in {"d", "i", "u", "x", "o", "p"} -> Integer(c, c.arg)
      [] c.conv \in {"e", "f", "g"} ->
             Layout(Flags(c), __dblcvx(c.arg, c.conv, 0, IF c.precision < 0 THEN 6 ELSE c.precision,
                                c.hash, WorkSize), 0)
      [] c.conv = "a" -> Layout(Flags(c), hexflt(c.arg, c.precision, c.hash), 2)
      [] c.conv = "s" -> String(Flags(c), c.arg)
      [] c.conv = "c" -> Character(Flags(c), c.arg)
      [] c.conv = "n" -> <<>>
      [] c.conv = "%" -> <<"%">>
      [] OTHER -> <<"%", c.conv>>

\* %d without more: the digits are written straight.
outdec(v) == (IF v < 0 THEN <<"-">> ELSE <<>>) \o (IF v = 0 THEN <<"0">> ELSE DigitsIn(Abs(v), 10))

onespec(c) ==
    CASE c.conv = "d" -> outdec(Narrowed(c, c.arg))
      [] c.conv \in {"e", "f", "g"} -> __dblcvt(c.arg, c.conv, 0, 6, WorkSize)
      [] c.conv = "s" -> IF c.arg = NullPointer THEN Null ELSE c.arg
      [] c.conv = "c" -> <<c.arg>>
      [] c.conv = "n" -> <<>>
      [] c.conv = "%" -> <<"%">>
      [] OTHER -> __examin(c)

Item(c) == IF c.conv = "literal" THEN <<c.arg>> ELSE IF Plain(c) THEN onespec(c) ELSE __examin(c)

\* chcount counts every character, s gets those below lim; %n stores the
\* count so far, as the type its modifier names.
PutText(st, c, text, lim) ==
    [s |-> st.s \o First(text, Most(lim - st.chcount, 0)),
     chcount |-> st.chcount + Len(text),
     stored |-> IF c.conv = "n" THEN Narrowed([c EXCEPT !.conv = "d"], st.chcount) ELSE st.stored]
Printed(end, n) ==
    [s |-> end.s \o (IF n > 0 THEN <<"NUL">> ELSE <<>>), rc |-> end.chcount, stored |-> end.stored]
vsnprintf(n, format) ==
    Printed(FoldLeft(LAMBDA st, c : PutText(st, c, Item(c), Most(n - 1, 0)),
                     [s |-> <<>>, chcount |-> 0, stored |-> -1], format), n)

\* All that a format writes.
Written(format) == FlattenSeq([i \in DOMAIN format |-> Item(format[i])])

\* To a stream that is open for writing or not and refuses the bytes past
\* room: __fputc then sets the error indicator and the result is -1.
Taken(text, room) ==
    [out |-> First(text, room), rc |-> IF Len(text) > room THEN -1 ELSE Len(text)]
vvprintf(writable, room, format) ==
    IF ~writable THEN [out |-> <<>>, rc |-> -1] ELSE Taken(Written(format), room)

----------------------------------------------------------------------------
Conversion(conv, arg, size, flags, width, precision) ==
    [conv |-> conv, arg |-> arg, size |-> size, width |-> width, precision |-> precision,
     minus |-> "-" \in flags, plus |-> "+" \in flags, space |-> " " \in flags,
     hash |-> "#" \in flags, zero |-> "0" \in flags]

FlagSets == {{}, {"-"}, {"0"}, {"+"}, {" ", "0"}, {"#"}, {"#", "0"}, {"+", " ", "-", "0"}}

NumberItems ==
    {Conversion(conv, v, size, fl, w, p) :
         conv \in {"d", "u", "x", "o"}, v \in Ints, size \in {"", "hh", "ll"},
         fl \in FlagSets, w \in Widths, p \in Precisions}
    \cup {Conversion(conv, v, "h", {}, 0, -1) : conv \in {"i", "p"}, v \in Ints}
RealItems ==
    {Conversion(conv, v, "", fl, w, p) :
         conv \in {"e", "f", "g"}, v \in Doubles, fl \in {{}, {"#"}, {"0"}, {"-", "+"}},
         w \in Widths, p \in Precisions}
HexItems ==
    {Conversion("a", v, "", fl, w, p) : v \in Fractions, fl \in {{}, {"#", "0"}},
                                        w \in Widths, p \in Precisions}
WordItems ==
    {Conversion("s", t, "", fl, w, p) : t \in Words, fl \in {{}, {"-"}},
                                        w \in Widths, p \in Precisions}
CharItems ==
    {Conversion("c", "c", "", fl, w, -1) : fl \in {{}, {"-"}}, w \in Widths}
    \cup {Conversion(conv, "c", "", {}, 0, -1) : conv \in {"%", "y"}}

PrintItem(c) ==
    \/ Finished("printf", "examin", c, __examin(c))
    \/ Plain(c) /\ c.conv # "n" /\ Finished("printf", "plain", c, onespec(c))
PrintOne ==
    \/ \E c \in NumberItems : PrintItem(c)
    \/ \E c \in RealItems : PrintItem(c)
    \/ \E c \in HexItems : PrintItem(c)
    \/ \E c \in WordItems : PrintItem(c)
    \/ \E c \in CharItems : PrintItem(c)

\* A literal, a number, a count and a string, into a small buffer and into
\* a stream.
Lines ==
    {<<Ordinary("<"), Conversion("d", v, "", fl, 4, -1), Conversion("n", 0, size, {}, 0, -1),
       Conversion("s", t, "", {}, 0, -1)>> :
         v \in Ints, fl \in {{}, {"-"}}, size \in {"", "hh"}, t \in Words}

PrintLine ==
    \E line \in Lines, n \in PrintRooms, writable \in BOOLEAN :
        Finished("printf", "line", <<line, n, writable>>,
                 <<vsnprintf(n, line), vvprintf(writable, n, line)>>)

PrintfNext == PrintOne \/ PrintLine

----------------------------------------------------------------------------
(* Reading a text back, by the rules of C and not by the code.             *)

DigitValue(ch) == SelectInSeq(Hex, LAMBDA d : d = ch) - 1
NumberIn(base, ds) == FoldLeft(LAMBDA n, ch : n * base + DigitValue(ch), 0, ds)
Piece(text, a, b) == IF a = 0 THEN <<>> ELSE SubSeq(text, a, b)
Trimmed(text) == Piece(text, SelectInSeq(text, LAMBDA ch : ch # " "),
                       SelectLastInSeq(text, LAMBDA ch : ch # " "))
SignOf(t) == IF t # <<>> /\ t[1] = "-" THEN -1 ELSE 1
SansSign(t) == IF t # <<>> /\ t[1] \in {"-", "+"} THEN Tail(t) ELSE t
AfterPrefix(t) == IF Len(t) > 1 /\ t[2] = "x" THEN SubSeq(t, 3, Len(t)) ELSE t

\* <<mantissa, digits after the point, exponent>> of [digits][.digits][e[+-]digits]
Fraction(mant, point) == IF point = 0 THEN 0 ELSE Len(mant) - point
Parts(mant, exptext, base) ==
    <<NumberIn(base, SelectSeq(mant, LAMBDA ch : ch # ".")),
      Fraction(mant, SelectInSeq(mant, LAMBDA ch : ch = ".")),
      IF exptext = <<>> THEN 0 ELSE SignOf(exptext) * NumberIn(10, Tail(exptext))>>
SplitAt(t, e, base) ==
    IF e = 0 THEN Parts(t, <<>>, base)
    ELSE Parts(SubSeq(t, 1, e - 1), SubSeq(t, e + 1, Len(t)), base)
Decimal(t, base, letter) == SplitAt(t, SelectInSeq(t, LAMBDA ch : ch = letter), base)

\* n * 10^e rounded half up to a multiple of 10^place, in those units.
RoundedTo(n, e, place) ==
    IF e >= place THEN n * Ten(e - place)
    ELSE IF place - e > NumDigits + 1 THEN 0
    ELSE (2 * n + Ten(place - e)) \div (2 * Ten(place - e))

\* The exponent of n * 10^e in the e style once it has k significant digits.
StyleExpOf(n, e, k, x) ==
    IF n = 0 THEN 0 ELSE IF RoundedTo(n, e, x - k + 1) >= Ten(k) THEN x + 1 ELSE x
StyleExp(n, e, k) == StyleExpOf(n, e, k, Len(DigitsIn(n, 10)) - 1 + e)

IntegerDigits(c, text, sign, ds) ==
    /\ sign * NumberIn(BaseOf(c), ds) = Narrowed(c, c.arg)
    /\ \A i \in DOMAIN ds : DigitValue(ds[i]) \in 0 .. BaseOf(c) - 1
    /\ Len(ds) >= c.precision
    /\ Len(text) >= (IF c.width < 0 THEN -c.width ELSE c.width)
    /\ c.hash /\ c.conv = "o" => ds[1] = "0"
IntegerText(c, text) ==
    IntegerDigits(c, text, SignOf(Trimmed(text)), AfterPrefix(SansSign(Trimmed(text))))

\* d is the text's <<mantissa, digits after the point, exponent>>, shift how
\* far its last place is above the place the value is rounded at.
RealPlace(c, d, place, shift) ==
    /\ shift >= 0 \/ d[1] = 0
    /\ (IF d[1] = 0 THEN 0 ELSE d[1] * Ten(shift)) = RoundedTo(c.arg[2], c.arg[3], place)
RealDigits(c, style, d, p, k, x) ==
    /\ IF c.conv = "f" THEN RealPlace(c, d, -p, d[3] - d[2] + p)
       ELSE RealPlace(c, d, x - k + 1, d[3] - d[2] - (x - k + 1))
    /\ c.conv # "g" => d[2] = p
    /\ c.conv = "g" => /\ style = (x < -4 \/ x >= k)
                       /\ ~c.hash /\ d[2] > 0 => d[1] % 10 # 0
RealStyle(c, t, d, p, k) ==
    RealDigits(c, SelectInSeq(t, LAMBDA ch : ch = "e") > 0, d, p, k,
               StyleExp(c.arg[2], c.arg[3], k))
RealUnsigned(c, t, p) ==
    RealStyle(c, t, Decimal(t, 10, "e"), p, IF c.conv = "e" THEN p + 1 ELSE Most(p, 1))
RealText(c, t) ==
    /\ SignOf(t) = IF c.arg[1] /\ c.arg[2] > 0 THEN -1 ELSE 1
    /\ RealUnsigned(c, SansSign(t), IF c.precision < 0 THEN 6 ELSE c.precision)

HexDropped(d, all, drop) ==
    all # 0 => d[1] = IF drop =< 0 THEN all * (16 ^ (-drop))
                      ELSE (2 * all + 16 ^ drop) \div (2 * (16 ^ drop))
HexParts(c, d) == HexDropped(d, FoldLeft(LAMBDA n, x : n * 16 + x, 0, c.arg[3]),
                             HexDigits - 1 - d[2] + ((d[3] \div 4) - (c.arg[2] - 65)))
HexText(c, text) == HexParts(c, Decimal(AfterPrefix(SansSign(Trimmed(text))), 16, "p"))

Width(c) == IF c.width < 0 THEN -c.width ELSE c.width

\* A line of items into a buffer of a size, and into a stream.
LineExact(c, line, buffer, stream) ==
    /\ Len(buffer.s) = Least(c[2], Len(line) + 1)
    /\ c[2] > 0 => Last(buffer.s) = "NUL" /\ IsPrefix(Front(buffer.s), line)
    /\ buffer.rc = Len(line)
    /\ buffer.stored = 1 + Most(4, Len(outdec(Narrowed(c[1][2], c[1][2].arg))))
    /\ IsPrefix(stream.out, line)
    /\ (stream.rc = Len(line)) = (stream.out = line /\ c[3])
    /\ stream.rc \in {-1, Len(line)}
StringExact(c, text, cut) == Trimmed(text) = cut /\ Len(text) = Most(Len(cut), Width(c))

\* Whatever the flags, width and precision: an integer's text reads back as
\* the value, in its base, with the digits asked for; a double's text is the
\* value rounded at the last place printed, in the style C99 chooses, and
\* %a's the same in hexadecimal; the text is as wide as the width and only
\* blanks or zeros fill it.  A plain conversion, which has code of its own,
\* prints what __examin would.  vsnprintf stores the beginning of the line
\* and a NUL and nothing past the buffer, returns the length of the whole
\* line, and %n counts what came before it; a stream gets the same line, and
\* -1 is returned exactly when it did not take it all.
PrintfExact ==
    call.of = "printf" =>
        LET c == call.in text == call.out
        IN  CASE call.op = "examin" /\ c.conv \in {"d", "i", "u", "x", "o", "p"} ->
                     IntegerText(c, text)
              [] call.op = "examin" /\ c.conv \in {"e", "f", "g"} ->
                     RealText(c, Trimmed(text)) /\ Len(text) >= Width(c)
              [] call.op = "examin" /\ c.conv = "a" ->
                     HexText(c, text) /\ Len(text) >= Width(c)
              [] call.op = "examin" /\ c.conv = "s" ->
                     StringExact(c, text, CutTo(c, IF c.arg = NullPointer THEN Null ELSE c.arg))
              [] call.op = "examin" /\ c.conv \in {"c", "%", "y"} -> Len(text) >= 1
              [] call.op = "plain" -> text = __examin(c)
              [] call.op = "line" ->
                     LineExact(c, Written(c[1]), text[1], text[2])
============================================================================
