------------------------------- MODULE Int64 -------------------------------
(***************************************************************************)
(* src/src/ext/int64: the 64-bit integers of a library whose machine has   *)
(* 32-bit registers.  A __64 is a union of one u64, two u32 and four       *)
(* halfwords array[0..3], array[0] the most significant; carries, borrows, *)
(* partial products and shifts are done on the halfwords.                  *)
(*                                                                         *)
(* The algorithms do not depend on the width of a halfword, which is the   *)
(* parameter Bits (16 in the code): a __64 has 4 * Bits bits, an i32 or    *)
(* u32 has 2 * Bits.  The functions are pure: a state is one finished call *)
(* with its operands and its result.  Pointers are not null and the result *)
(* of __64_pow is not one of its operands (it is cleared first).           *)
(***************************************************************************)
EXTENDS Library
LOCAL INSTANCE Bitwise
LOCAL INSTANCE SequencesExt

CONSTANTS
    Bits,       \* of a halfword: __64_WORD_SIZE * 8
    Values64,   \* the __64 operands tried, as numbers
    Values32    \* the 32-bit operands tried, signed

Idx == 0 .. 3                               \* __64_ARRAY_SIZE = 4
Base == 2 ^ Bits                            \* __64_MAX_VAL + 1
Word == Base * Base                         \* 2^32
M == Word * Word                            \* 2^64

\* The three views of the union: array[], u32[] and u64 of the same bytes.
Value(n) == ((n[0] * Base + n[1]) * Base + n[2]) * Base + n[3]
OfU64(v) == [i \in Idx |-> (v \div (Base ^ (3 - i))) % Base]
High(n) == n[0] * Base + n[1]
Low(n) == n[2] * Base + n[3]
Views(h, l) == [i \in Idx |-> <<h \div Base, h % Base, l \div Base, l % Base>>[i + 1]]
Quad == [Idx -> Nat]

Uns32(i) == i % Word                        \* (uint32_t) i

----------------------------------------------------------------------------
(* Initialization and conversion.                                          *)

__64_init == Views(0, 0)

__64_copy(src) == OfU64(Value(src))

__64_from_u32(i) == Views(0, i)

__64_from_u64(u) == OfU64(u)

__64_to_i32(n) == Low(n) % (Word \div 2)    \* & 0x7FFFFFFF

__64_to_u32(n) == Low(n)

__64_to_u64(n) == Value(n)

----------------------------------------------------------------------------
(* Addition and subtraction: one pass from the least significant halfword. *)

\* Mutant: the carry out of a halfword is lost.
__64_add_NoCarry(a, b) == [i \in Idx |-> (a[i] + b[i]) % Base]

__64_add(a, b) ==
    LET tmp[i \in Idx] ==
            a[i] + b[i] + (IF i < 3 /\ tmp[i + 1] >= Base THEN 1 ELSE 0)
    IN  [i \in Idx |-> tmp[i] % Base]

__64_sub(a, b) ==
    LET res[i \in Idx] ==
            a[i] + Base - (b[i] + IF i < 3 /\ res[i + 1] < Base THEN 1 ELSE 0)
    IN  [i \in Idx |-> res[i] % Base]

__64_add_u32(a, b) == __64_add(a, __64_from_u32(b))

__64_add_u64(a, b) == __64_add(a, __64_from_u64(b))

__64_sub_u32(a, b) == __64_sub(a, __64_from_u32(b))

__64_sub_u64(a, b) == __64_sub(a, __64_from_u64(b))

\* A negative i is subtracted from zero as a positive number; -i of the
\* smallest i32 is that i32 again and the cast makes it 2^31.
__64_from_i32(i) ==
    IF i < 0 THEN __64_sub_u32(__64_init, Uns32(-i)) ELSE Views(0, i)

__64_add_i32(a, b) ==
    IF b < 0 THEN __64_sub(a, __64_from_u32(Uns32(-b)))
             ELSE __64_add(a, __64_from_u32(b))

__64_sub_i32(a, b) ==
    IF b < 0 THEN __64_add(a, __64_from_u32(Uns32(-b)))
             ELSE __64_sub(a, __64_from_u32(b))

\* Adding one, or taking one away, stops at the first halfword that does
\* not wrap.
__64_inc(n) ==
    [i \in Idx |-> IF \A j \in i + 1 .. 3 : n[j] = Base - 1
                   THEN (n[i] + 1) % Base ELSE n[i]]

__64_dec(n) ==
    [i \in Idx |-> IF \A j \in i + 1 .. 3 : n[j] = 0
                   THEN (n[i] - 1) % Base ELSE n[i]]

----------------------------------------------------------------------------
(* Bits, shifts and comparison.                                            *)

__64_and(a, b) == OfU64(Value(a) & Value(b))

__64_or(a, b) == OfU64(Value(a) | Value(b))

__64_xor(a, b) == OfU64(Value(a) ^^ Value(b))

__64_and_i32(a, b) == OfU64(Value(a) & Value(__64_from_i32(b)))

__64_and_u32(a, b) == OfU64(Value(a) & Value(__64_from_u32(b)))

__64_and_u64(a, b) == OfU64(Value(a) & Value(__64_from_u64(b)))

__64_or_i32(a, b) == OfU64(Value(a) | Value(__64_from_i32(b)))

__64_or_u32(a, b) == OfU64(Value(a) | Value(__64_from_u32(b)))

__64_or_u64(a, b) == OfU64(Value(a) | Value(__64_from_u64(b)))

__64_xor_i32(a, b) == OfU64(Value(a) ^^ Value(__64_from_i32(b)))

__64_xor_u32(a, b) == OfU64(Value(a) ^^ Value(__64_from_u32(b)))

__64_xor_u64(a, b) == OfU64(Value(a) ^^ Value(__64_from_u64(b)))

__64_is_zero(n) == Value(n) = 0

__64_cmp(a, b) ==
    IF Value(a) > Value(b) THEN 1 ELSE IF Value(a) < Value(b) THEN -1 ELSE 0

__64_cmp_i32(a, b) == __64_cmp(a, __64_from_i32(b))

__64_cmp_u32(a, b) == __64_cmp(a, __64_from_u32(b))

__64_cmp_u64(a, b) == __64_cmp(a, __64_from_u64(b))

\* Two 32-bit shifts, the bit between them carried over.
__64_lshift_one_bit(a) ==
    Views(((High(a) * 2) % Word) + (Low(a) \div (Word \div 2)), (Low(a) * 2) % Word)

\* From the least significant halfword up, so each one still finds the
\* halfword above it unshifted.
__64_rshift_one_bit(a) ==
    [i \in Idx |-> (a[i] \div 2) + IF i = 0 THEN 0
                                   ELSE (a[i - 1] * (Base \div 2)) % Base]

\* Whole halfwords; a count outside 0..4 is corrected and reported.
Clamp(nwords) == IF nwords < 0 THEN 0 ELSE IF nwords > 4 THEN 4 ELSE nwords

__64_lshift_word(a, nwords) ==
    [i \in Idx |-> IF i + Clamp(nwords) \in Idx THEN a[i + Clamp(nwords)] ELSE 0]

__64_rshift_word(a, nwords) ==
    IF nwords < 0 THEN a
    ELSE [i \in Idx |-> IF i - Clamp(nwords) \in Idx
                        THEN a[i - Clamp(nwords)] ELSE 0]

__64_lshift(a, nbits) ==
    LET b == IF nbits \div Bits # 0 THEN __64_lshift_word(a, nbits \div Bits) ELSE a
        n == nbits % Bits
    IN  IF n = 0 THEN b
        ELSE [i \in Idx |-> ((b[i] * 2 ^ n) % Base)
                            + IF i = 3 THEN 0 ELSE b[i + 1] \div (2 ^ (Bits - n))]

__64_rshift(a, nbits) ==
    LET b == IF nbits \div Bits # 0 THEN __64_rshift_word(a, nbits \div Bits) ELSE a
        n == nbits % Bits
    IN  IF n = 0 THEN b
        ELSE [i \in Idx |-> (b[i] \div (2 ^ n))
                            + IF i = 0 THEN 0 ELSE (b[i - 1] * 2 ^ (Bits - n)) % Base]

----------------------------------------------------------------------------
(* Multiplication and division.                                            *)

\* Row i adds a[i] * b[j], shifted to its place, for the j that stay inside
\* the four halfwords.
MulRow(a, b, i) ==
    LET row[j \in 0 .. 4] ==
            IF j = 4 THEN __64_init
            ELSE IF i + j > 2 /\ a[i] * b[j] # 0
                 THEN __64_add(__64_lshift_word(__64_from_u32(a[i] * b[j]), 6 - (i + j)),
                               row[j + 1])
                 ELSE row[j + 1]
    IN  row[0]

__64_mul(a, b) ==
    LET result[i \in 0 .. 4] ==
            IF i = 4 THEN __64_init ELSE __64_add(result[i + 1], MulRow(a, b, i))
    IN  result[0]

\* The first loop of __64_div: denom and current are doubled while denom is
\* not larger than a and its top bit is free.
Doubled(a, b) ==
    LET more(s) == Value(s.denom) =< Value(a) /\ s.denom[0] < Base \div 2
        step[s \in [denom : Quad, current : Quad]] ==
            IF more(s)
            THEN step[[denom |-> __64_lshift_one_bit(s.denom),
                       current |-> __64_lshift_one_bit(s.current)]]
            ELSE s
    IN  step[[denom |-> b, current |-> __64_from_i32(1)]]

\* The second loop: subtract and set the quotient bit, halving denom and
\* current until current is zero.
Subtracted(tmp, denom, current) ==
    LET step[s \in [tmp : Quad, denom : Quad, current : Quad, c : Quad]] ==
            IF __64_is_zero(s.current) THEN s.c
            ELSE LET fits == __64_cmp(s.tmp, s.denom) # -1
                 IN  step[[tmp |-> IF fits THEN __64_sub(s.tmp, s.denom) ELSE s.tmp,
                           denom |-> __64_rshift_one_bit(s.denom),
                           current |-> __64_rshift_one_bit(s.current),
                           c |-> IF fits THEN __64_or(s.c, s.current) ELSE s.c]]
    IN  step[[tmp |-> tmp, denom |-> denom, current |-> current, c |-> __64_init]]

\* A zero divisor gives zero (and EDOM).  When the doubling ended because
\* denom had become larger than a, one step is taken back.
__64_div(a, b) ==
    IF __64_is_zero(b) THEN __64_init
    ELSE LET s == Doubled(a, b)
             overflow == Value(s.denom) =< Value(a)
         IN  IF overflow THEN Subtracted(a, s.denom, s.current)
             ELSE Subtracted(a, __64_rshift_one_bit(s.denom),
                             __64_rshift_one_bit(s.current))

\* <<a / b, a % b>>
__64_divmod(a, b) ==
    LET tmpc == __64_div(a, b)
    IN  <<tmpc, __64_sub(a, __64_mul(tmpc, b))>>

__64_mod(a, b) == __64_divmod(a, b)[2]

__64_mul_i32(a, b) == __64_mul(a, __64_from_i32(b))

__64_mul_u32(a, b) == __64_mul(a, __64_from_u32(b))

__64_mul_u64(a, b) == __64_mul(a, __64_from_u64(b))

__64_div_i32(a, b) == __64_div(a, __64_from_i32(b))

__64_div_u32(a, b) == __64_div(a, __64_from_u32(b))

__64_div_u64(a, b) == __64_div(a, __64_from_u64(b))

__64_mod_i32(a, b) == __64_mod(a, __64_from_i32(b))

__64_mod_u32(a, b) == __64_mod(a, __64_from_u32(b))

__64_mod_u64(a, b) == __64_mod(a, __64_from_u64(b))

__64_divmod_i32(a, b) == __64_divmod(a, __64_from_i32(b))

__64_divmod_u32(a, b) == __64_divmod(a, __64_from_u32(b))

__64_divmod_u64(a, b) == __64_divmod(a, __64_from_u64(b))

\* b - 1 multiplications by a
__64_pow(a, b) ==
    IF __64_is_zero(b) THEN __64_inc(__64_init)
    ELSE LET tmp[n \in 0 .. Value(__64_dec(b))] ==
                 IF n = 0 THEN a ELSE __64_mul(tmp[n - 1], a)
         IN  tmp[Value(__64_dec(b))]

\* A search between low and high for the largest number whose square is not
\* larger than a; the square is taken modulo 2^64.
__64_isqrt(a) ==
    LET Mid(low, high) ==
            __64_inc(__64_add(low, __64_rshift_one_bit(__64_sub(high, low))))
        search[s \in [low : Quad, high : Quad, mid : Quad]] ==
            IF __64_cmp(s.high, s.low) # 1 THEN s.low
            ELSE LET above == __64_cmp(__64_mul(s.mid, s.mid), a) = 1
                     low == IF above THEN s.low ELSE s.mid
                     high == IF above THEN __64_dec(s.mid) ELSE s.high
                 IN  search[[low |-> low, high |-> high, mid |-> Mid(low, high)]]
    IN  search[[low |-> __64_init, high |-> a, mid |-> __64_inc(__64_rshift(a, 1))]]

----------------------------------------------------------------------------
(* Strings are sequences of characters.                                    *)

hexstr == <<"0", "1", "2", "3", "4", "5", "6", "7", "8", "9",
            "a", "b", "c", "d", "e", "f">>

\* work[] holds the digits from the least significant, as many as fit;
\* str[] gets them in the other order and a NUL when there is room.
__64_to_string(n, nbytes) ==
    LET digits[s \in [tmp : Quad, x : 0 .. nbytes]] ==
            IF __64_is_zero(s.tmp) \/ s.x = nbytes THEN <<>>
            ELSE LET dm == __64_divmod(s.tmp, __64_from_i32(10))
                 IN  Append(digits[[tmp |-> dm[1], x |-> s.x + 1]], hexstr[dm[2][3] + 1])
        work == digits[[tmp |-> n, x |-> 0]]
        str == IF work = <<>> /\ nbytes > 0 THEN <<"0">> ELSE work
    IN  IF Len(str) < nbytes THEN Append(str, "NUL") ELSE str

\* Leading blanks are skipped, 0x and 0b choose the table; the digits up to
\* the first character that is not in the table are taken in with a carry.
__64_from_string(str) ==
    LET s == SelectInSeq(str, LAMBDA c : c # " ")
        p == IF s = 0 THEN <<>> ELSE SubSeq(str, s, Len(str))
        base == IF Len(p) > 1 /\ p[1] = "0" /\ p[2] = "x" THEN 16
                ELSE IF Len(p) > 1 /\ p[1] = "0" /\ p[2] = "b" THEN 2 ELSE 10
        rest == IF base = 10 THEN p ELSE SubSeq(p, 3, Len(p))
        At(c) == SelectInSeq(SubSeq(hexstr, 1, base), LAMBDA d : d = c)
        stop == SelectInSeq(rest, LAMBDA c : At(c) = 0)
        number == IF stop = 0 THEN rest ELSE SubSeq(rest, 1, stop - 1)
    IN  FoldLeft(LAMBDA n, c : __64_add_u32(__64_mul(n, __64_from_i32(base)), At(c) - 1),
                 __64_init, number)

----------------------------------------------------------------------------
Call(op, a, b, r) == Finished("int64", op, <<a, b>>, r)

Both(r) == <<Value(r[1]), Value(r[2])>>

Longs == {OfU64(v) : v \in Values64}
Uns == {Uns32(v) : v \in Values32}
Exponents == {OfU64(v) : v \in 0 .. Bits + 1}

Two64(a, b) ==
    \/ Call("add", Value(a), Value(b), Value(__64_add(a, b)))
    \/ Call("sub", Value(a), Value(b), Value(__64_sub(a, b)))
    \/ Call("mul", Value(a), Value(b), Value(__64_mul(a, b)))
    \/ Call("div", Value(a), Value(b), Value(__64_div(a, b)))
    \/ Call("mod", Value(a), Value(b), Value(__64_mod(a, b)))
    \/ Call("divmod", Value(a), Value(b), Both(__64_divmod(a, b)))
    \/ Call("and", Value(a), Value(b), Value(__64_and(a, b)))
    \/ Call("or", Value(a), Value(b), Value(__64_or(a, b)))
    \/ Call("xor", Value(a), Value(b), Value(__64_xor(a, b)))
    \/ Call("cmp", Value(a), Value(b), __64_cmp(a, b))

TwoI32(a, b) ==
    \/ Call("add", Value(a), b, Value(__64_add_i32(a, b)))
    \/ Call("sub", Value(a), b, Value(__64_sub_i32(a, b)))
    \/ Call("mul", Value(a), b, Value(__64_mul_i32(a, b)))
    \/ Call("div", Value(a), b, Value(__64_div_i32(a, b)))
    \/ Call("mod", Value(a), b, Value(__64_mod_i32(a, b)))
    \/ Call("divmod", Value(a), b, Both(__64_divmod_i32(a, b)))
    \/ Call("and", Value(a), b, Value(__64_and_i32(a, b)))
    \/ Call("or", Value(a), b, Value(__64_or_i32(a, b)))
    \/ Call("xor", Value(a), b, Value(__64_xor_i32(a, b)))
    \/ Call("cmp", Value(a), b, __64_cmp_i32(a, b))

TwoU32(a, b) ==
    \/ Call("add", Value(a), b, Value(__64_add_u32(a, b)))
    \/ Call("sub", Value(a), b, Value(__64_sub_u32(a, b)))
    \/ Call("mul", Value(a), b, Value(__64_mul_u32(a, b)))
    \/ Call("div", Value(a), b, Value(__64_div_u32(a, b)))
    \/ Call("mod", Value(a), b, Value(__64_mod_u32(a, b)))
    \/ Call("divmod", Value(a), b, Both(__64_divmod_u32(a, b)))
    \/ Call("and", Value(a), b, Value(__64_and_u32(a, b)))
    \/ Call("or", Value(a), b, Value(__64_or_u32(a, b)))
    \/ Call("xor", Value(a), b, Value(__64_xor_u32(a, b)))
    \/ Call("cmp", Value(a), b, __64_cmp_u32(a, b))

TwoU64(a, b) ==
    \/ Call("add", Value(a), b, Value(__64_add_u64(a, b)))
    \/ Call("sub", Value(a), b, Value(__64_sub_u64(a, b)))
    \/ Call("mul", Value(a), b, Value(__64_mul_u64(a, b)))
    \/ Call("div", Value(a), b, Value(__64_div_u64(a, b)))
    \/ Call("mod", Value(a), b, Value(__64_mod_u64(a, b)))
    \/ Call("divmod", Value(a), b, Both(__64_divmod_u64(a, b)))
    \/ Call("and", Value(a), b, Value(__64_and_u64(a, b)))
    \/ Call("or", Value(a), b, Value(__64_or_u64(a, b)))
    \/ Call("xor", Value(a), b, Value(__64_xor_u64(a, b)))
    \/ Call("cmp", Value(a), b, __64_cmp_u64(a, b))

Shift(a, n) ==
    \/ Call("lshift", Value(a), n, Value(__64_lshift(a, n)))
    \/ Call("rshift", Value(a), n, Value(__64_rshift(a, n)))

One(a) ==
    \/ Call("add", Value(a), 1, Value(__64_inc(a)))
    \/ Call("sub", Value(a), 1, Value(__64_dec(a)))
    \/ Call("lshift", Value(a), 1, Value(__64_lshift_one_bit(a)))
    \/ Call("rshift", Value(a), 1, Value(__64_rshift_one_bit(a)))
    \/ Call("isqrt", Value(a), 0, Value(__64_isqrt(a)))
    \/ Call("low", Value(a), Word \div 2, __64_to_i32(a))
    \/ Call("low", Value(a), Word, __64_to_u32(a))
    \/ Call("low", Value(a), M, __64_to_u64(__64_copy(a)))
    \/ Call("equal", Value(a), __64_is_zero(a), Value(a) = 0)
    \/ \E nbytes \in 0 .. 7 : Call("string", Value(a), nbytes, __64_to_string(a, nbytes))

\* The digits of v in a base, the least significant last.
DigitsOf(v, base) ==
    LET n == CHOOSE k \in 1 .. 4 * Bits : base ^ k > v
                                          /\ (k = 1 \/ base ^ (k - 1) =< v)
    IN  [i \in 1 .. n |-> hexstr[((v \div (base ^ (n - i))) % base) + 1]]

FromString(a) ==
    \E tail \in {<<>>, <<" ", "1">>} :
        \/ Call("equal", Value(a), Value(__64_from_string(
                <<" ">> \o DigitsOf(Value(a), 10) \o tail)), Value(a))
        \/ Call("equal", Value(a), Value(__64_from_string(
                <<"0", "x">> \o DigitsOf(Value(a), 16) \o tail)), Value(a))
        \/ Call("equal", Value(a), Value(__64_from_string(
                <<"0", "b">> \o DigitsOf(Value(a), 2) \o tail)), Value(a))

Int64Next ==
    \E a \in Longs :
           \/ \E b \in Longs : Two64(a, b)
           \/ \E b \in Values32 : TwoI32(a, b)
           \/ \E b \in Uns : TwoU32(a, b)
           \/ \E b \in Values64 : TwoU64(a, b)
           \/ \E n \in 0 .. 5 * Bits + 1 : Shift(a, n)
           \/ \E b \in Exponents : Call("pow", Value(a), Value(b), Value(__64_pow(a, b)))
           \/ One(a)
           \/ FromString(a)

----------------------------------------------------------------------------
\* The product of two numbers below M modulo M, without a product that is
\* larger than the numbers TLC computes with.
Signed(v) == IF 2 * v >= M THEN v - M ELSE v
TimesMod(x, y) == (Signed(x) * Signed(y)) % M

\* What a call has to return, in the arithmetic of the integers modulo 2^64.
Expected(op, x, b) ==
    LET y == b % M
        quotient == IF y = 0 THEN 0 ELSE x \div y
        pow[n \in 0 .. y] == IF n = 0 THEN 1 ELSE TimesMod(pow[n - 1], x)
    IN  CASE op = "add" -> (x + y) % M
          [] op = "sub" -> (x - y) % M
          [] op = "mul" -> TimesMod(x, y)
          [] op = "div" -> quotient
          [] op = "mod" -> IF y = 0 THEN x ELSE x % y
          [] op = "and" -> x & y
          [] op = "or" -> x | y
          [] op = "xor" -> x ^^ y
          [] op = "cmp" -> IF x > y THEN 1 ELSE IF x < y THEN -1 ELSE 0
          [] op = "lshift" -> IF y >= 4 * Bits THEN 0 ELSE (x % (2 ^ (4 * Bits - y))) * (2 ^ y)
          [] op = "rshift" -> IF y >= 4 * Bits THEN 0 ELSE x \div (2 ^ y)
          [] op = "pow" -> pow[y]
          [] op = "low" -> x % b

\* Every function of src/src/ext/int64 computes what its name says in the
\* arithmetic modulo 2^64, for operands next to every carry, borrow and
\* sign boundary; a/b and a%b fit together; a decimal string that has room
\* for all the digits and the NUL reads back as the number, a shorter one
\* has the low-order digits.
Int64Exact ==
    call.of = "int64" =>
        LET x == call.in[1] b == call.in[2] r == call.out
        IN  CASE call.op = "equal" -> b = r
              [] call.op = "divmod" -> /\ r[1] = Expected("div", x, b)
                                       /\ r[2] = Expected("mod", x, b)
              [] call.op = "string" ->
                     LET all == DigitsOf(x, 10)
                     IN  r = IF b > Len(all) THEN Append(all, "NUL")
                             ELSE SubSeq(all, Len(all) - b + 1, Len(all))
              [] call.op = "isqrt" ->
                     x < 2 * Word - 2 => r * r =< x /\ (r + 1) * (r + 1) > x
              [] OTHER -> r = Expected(call.op, x, b)
============================================================================
