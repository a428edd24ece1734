------------------------------- MODULE Ctype -------------------------------
(***************************************************************************)
(* src/src/ctype: the character classes and cases of code page 037, read   *)
(* from the tables __isbuf, __tolow and __toup.  A row of __isbuf is the   *)
(* set of the bits its mask has set, by the name of the function that      *)
(* tests the bit.  Code EOFCode indexes the entry before the table.        *)
(***************************************************************************)
EXTENDS Library
LOCAL INSTANCE FiniteSets

EOFCode == -1
Codes == EOFCode .. 255

UpperCodes == (193 .. 201) \cup (209 .. 217) \cup (226 .. 233)
LowerCodes == (129 .. 137) \cup (145 .. 153) \cup (162 .. 169)
DigitCodes == 240 .. 249
PunctCodes == (74 .. 80) \cup (90 .. 97) \cup (106 .. 111) \cup (121 .. 127)
              \cup {161, 173, 176, 186, 187, 189, 192, 208, 224}
CntrlCodes == (0 .. 63) \ {41, 48, 49, 62}

__isbuf(c) ==
    CASE c = 5 -> {"cntrl", "space", "blank"}
      [] c \in {11, 12, 13, 21} -> {"cntrl", "space"}
      [] c \in CntrlCodes \ {5, 11, 12, 13, 21} -> {"cntrl"}
      [] c = 64 -> {"print", "space", "blank"}
      [] c \in PunctCodes -> {"graph", "print", "punct"}
      [] c \in DigitCodes -> {"alnum", "digit", "graph", "print", "xdigit"}
      [] c \in 129 .. 134 -> {"alnum", "alpha", "graph", "lower", "print", "xdigit"}
      [] c \in LowerCodes \ (129 .. 134) -> {"alnum", "alpha", "graph", "lower", "print"}
      [] c \in 193 .. 198 -> {"alnum", "alpha", "graph", "upper", "print", "xdigit"}
      [] c \in UpperCodes \ (193 .. 198) -> {"alnum", "alpha", "graph", "upper", "print"}
      [] OTHER -> {}

__tolow(c) == IF c \in UpperCodes THEN c - 64 ELSE c

__toup(c) == IF c \in LowerCodes THEN c + 64 ELSE c

toupper(c) == __toup(c)

isalnum(c) == "alnum" \in __isbuf(c)
isalpha(c) == "alpha" \in __isbuf(c)
isblank(c) == "blank" \in __isbuf(c)
iscntrl(c) == "cntrl" \in __isbuf(c)
isdigit(c) == "digit" \in __isbuf(c)
isgraph(c) == "graph" \in __isbuf(c)
islower(c) == "lower" \in __isbuf(c)
isprint(c) == "print" \in __isbuf(c)
ispunct(c) == "punct" \in __isbuf(c)
isspace(c) == "space" \in __isbuf(c)
isupper(c) == "upper" \in __isbuf(c)
isxdigit(c) == "xdigit" \in __isbuf(c)

CtypeNext ==
    \E c \in Codes :
        Finished("ctype", "class", c,
                 [alnum |-> isalnum(c), alpha |-> isalpha(c), blank |-> isblank(c),
                  cntrl |-> iscntrl(c), digit |-> isdigit(c), graph |-> isgraph(c),
                  lower |-> islower(c), print |-> isprint(c), punct |-> ispunct(c),
                  space |-> isspace(c), upper |-> isupper(c), xdigit |-> isxdigit(c),
                  low |-> __tolow(c), up |-> toupper(c)])

\* C99 7.4 for every code and EOF: the classes are built from each other as
\* the standard says, no code is both a control and a printing character,
\* and the two case tables are inverse on the letters, map a letter to a
\* letter of the other case and leave everything else alone.
CtypeExact ==
    call.of = "ctype" =>
        LET c == call.in r == call.out
        IN  /\ r.alpha = (r.upper \/ r.lower)
            /\ r.alnum = (r.alpha \/ r.digit)
            /\ r.graph = (r.alnum \/ r.punct)
            /\ r.print = (r.graph \/ c = 64)
            /\ ~(r.print /\ r.cntrl)
            /\ ~(r.alnum /\ r.punct) /\ ~(r.upper /\ r.lower) /\ ~(r.alpha /\ r.digit)
            /\ r.digit => r.xdigit
            /\ r.blank => r.space
            /\ r.space => r.blank \/ r.cntrl
            /\ r.upper = (r.low # c)
            /\ r.lower = (r.up # c)
            /\ r.upper => islower(r.low) /\ __toup(r.low) = c
            /\ r.lower => isupper(r.up) /\ __tolow(r.up) = c
            /\ isxdigit(c) = (r.digit \/ \E k \in 0 .. 5 : c \in {129 + k, 193 + k})
            /\ c = EOFCode => __isbuf(c) = {} /\ r.low = c /\ r.up = c
============================================================================
