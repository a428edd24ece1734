----------------------------- MODULE MCLibrary -----------------------------
(* The instance of the pure functions of the library for TLC: the          *)
(* arguments they are called with.                                         *)
EXTENDS Integers, Sequences

VARIABLE call           \* the last finished call of a pure function, or Lib!Idle

\* Int64: operands next to every carry, borrow and sign boundary.
V64 == {0, 1, 9, 16, 255, 256, 509, 4660, 32767, 32768, 61440, 65279, 65535}
V32 == {-128, -16, -1, 0, 1, 10, 16, 127}

\* Calendar: the days around every rule of the calendar.
Days == {1970, 1972, 1999, 2000, 2001, 2037, 2038, 2100, 2105, 2106, 2400, 9998}
        \X {<<1, 1>>, <<2, 28>>, <<3, 1>>, <<12, 31>>}
DateSet == {<<x[1], x[2][1], x[2][2]>> : x \in Days}
Zones == {-5, 0, 4}
Conversions == {"a", "A", "b", "B", "c", "d", "H", "I", "j", "m", "M", "p", "S", "U", "w",
                "W", "x", "X", "y", "Y", "Z", "%", "?"}

\* 1970 and the end of the clock, the borrow between the words (around
\* 2^16 * 77) and the carries of the two divisions.
Tods == {5000000 + 97 * k : k \in 0 .. 400} \cup {16777215 - 1201 * k : k \in 0 .. 400}

\* Strings: 5 is the lower case of 2.
LowerOf(c) == IF c = 2 THEN 5 ELSE c

\* Stdlib
TextChars == {"0", "1", "7", "9", "f", "x", "-", " "}
NumberTexts ==
    {<<>>} \cup UNION {[1 .. n -> TextChars] : n \in 1 .. 3}
    \cup {<<"-">> \o t : t \in [1 .. 3 -> {"1", "2", "7", "8"}]}
    \cup {<<"1">> \o t : t \in [1 .. 3 -> {"0", "2", "7", "8"}]}
RealTexts ==
    UNION {[1 .. n -> {"0", "1", "9", ".", "e", "-"}] : n \in 0 .. 4}
    \cup {<<"1", "2", "3", "4", "5", "e", "-", "2">>, <<"9", "e", "9", "9", "9", "9">>,
          <<"0", ".", "0", "0", "1", "2">>, <<"9", "9", "9", "e", "3">>,
          <<"9", "9", "9", "e", "4">>}
BaseSet == {-1, 0, 1, 8, 10, 16, 36, 37}
LeastExp == -4
LargestDouble == <<721, 2>>

\* Printf and Scanf: numbers at the ends of the types and at every change
\* of length, doubles that round up into another digit or another style.
IntArgs == {-128, -13, -1, 0, 7, 8, 15, 100, 255, 2047, 3000}
NumArgs == {<<FALSE, 0, 0>>, <<TRUE, 1, 0>>, <<FALSE, 5, -1>>, <<FALSE, 95, -2>>,
            <<FALSE, 999, -3>>, <<TRUE, 999, -2>>, <<FALSE, 125, -3>>, <<FALSE, 123, -5>>,
            <<FALSE, 96, -7>>, <<FALSE, 1, -6>>, <<FALSE, 100, 0>>, <<FALSE, 99, 1>>,
            <<FALSE, 5, 2>>, <<FALSE, 4, -4>>, <<FALSE, 996, -7>>}
FracArgs == {<<FALSE, 65, <<1, 0, 0, 0>>>>, <<TRUE, 64, <<15, 15, 15, 8>>>>,
             <<FALSE, 66, <<0, 10, 7, 9>>>>, <<FALSE, 62, <<8, 8, 8, 8>>>>,
             <<FALSE, 64, <<0, 0, 0, 0>>>>}
WordArgs == {<<>>, <<"a", "b">>, <<"NULL">>, <<"a", "b", "c", "d", "e">>}
WidthArgs == {-5, 0, 2, 6}
PrecArgs == {-1, 0, 1, 3}
ScanInputs == UNION {[1 .. n -> {"0", "1", "9", "x", "-", " ", ".", "e"}] : n \in 0 .. 3}
          \cup {<<"%">>}

Lib == INSTANCE LibraryCalls WITH
    Bits <- 4, Values64 <- V64, Values32 <- V32, SecsPerMin <- 2, MinsPerHour <- 2,
    HoursPerDay <- 3, TimeRange <- 596523, Dates <- DateSet, Offsets <- Zones,
    FormatYears <- {1970, 2000, 2038}, Formats <- Conversions, Rooms <- {0, 1, 4, 30},
    WordBits <- 12, TodShift <- 4, TodEven <- 4, TodOdd <- 25, TodMilli <- 20,
    TodEpoch <- 5000000, Clocks <- Tods, Chars <- {1, 2, 5}, Lower <- LowerOf, MaxString <- 3,
    Star <- 1, Query <- 5, Blank <- 2, LONG_MAX <- 127, LLONG_MAX <- 2047, SIGDIGITS <- 3,
    MaxExp <- 4, MinExp <- LeastExp, DblMax <- LargestDouble, Texts <- NumberTexts,
    Bases <- BaseSet, Reals <- RealTexts, Keys <- {1, 2, 3}, MaxArray <- 5, CharRange <- 16,
    ShortRange <- 64, IntRange <- 256, LongLongRange <- 4096, NumDigits <- 3,
    HexDigits <- 4, WorkSize <- 40, Ints <- IntArgs, Doubles <- NumArgs,
    Fractions <- FracArgs, Words <- WordArgs, Widths <- WidthArgs, Precisions <- PrecArgs,
    PrintRooms <- {0, 1, 2, 6, 9, 20}, NoWidth <- 1000, SIGD <- 4,
    ScanWidths <- {1, 2, 1000}, ScanTexts <- ScanInputs

\* Every function, called with arguments at its boundaries, returned what a
\* definition written from the standard, and not from the code, says.  Of
\* the arithmetic on two words (__64_add() ... __64_isqrt()) and of text made
\* a number (strtol() ... strtod()), with bsearch() and qsort():
NumbersAreExact == Lib!Int64Exact /\ Lib!StdlibExact

\* Of the days and dates: mktime(), gmtime(), strftime(), their 64-bit
\* counterparts, and the clocks read from the TOD clock's two words:
TimesAreExact == Lib!CalendarExact

\* Of strings and memory, overlapping moves, patterns and strtok() over
\* several calls included, of the classes and cases of characters, and of
\* printf() and scanf(): flags, width, precision and rounding, the bounded
\* buffer of snprintf(), and what an input that does not match leaves unread:
TextIsExact == Lib!StringsExact /\ Lib!CtypeExact /\ Lib!PrintfExact /\ Lib!ScanfExact
============================================================================
