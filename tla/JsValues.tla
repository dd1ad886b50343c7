------------------------------ MODULE JsValues ------------------------------
(***************************************************************************)
(* MuonJS values and their conversions, as the bytecode VM uses them.  A   *)
(* number is a JSValue int when it is an integer of the int range and a    *)
(* heap float otherwise (number_to_value); a float that is no integer is   *)
(* only known to be one, and -0 is not told from 0.  A string is a         *)
(* sequence of symbols: digits, the sign, letters, and whole words for     *)
(* the texts of the constants.                                             *)
(***************************************************************************)
EXTENDS Integers, Sequences, FiniteSets

CONSTANT MaxInt     \* i32::MAX

Num(n) == [num |-> n]
NaN == [nan |-> TRUE]
Fraction == [frac |-> TRUE]       \* a float that is no integer, or infinite
Str(s) == [str |-> s]
Bool(b) == [bool |-> b]
Undefined == [undef |-> TRUE]
Null == [null |-> TRUE]
HostFunction(f) == [fn |-> f]
HostObject(o) == [obj |-> o]

Is(v, tag) == tag \in DOMAIN v
IsInt(v) == Is(v, "num") /\ v.num \in (-MaxInt - 1)..MaxInt
\* n modulo the number of ints (wrapping_add, and the language's ToInt32).
Wrapped(n) == ((n + MaxInt + 1) % (2 * MaxInt + 2)) - MaxInt - 1
IsNumber(v) == Is(v, "num") \/ Is(v, "nan") \/ Is(v, "frac")

Digit == <<"0", "1", "2", "3", "4", "5", "6", "7", "8", "9">>
DigitValue(c) == (CHOOSE i \in 1..10 : Digit[i] = c) - 1
AllDigits(s) == s # <<>> /\ \A i \in DOMAIN s : s[i] \in {Digit[d] : d \in 1..10}

\* int_to_decimal_bytes.
Decimal(n) ==
    LET digits[k \in Nat] == IF k < 10 THEN <<Digit[k + 1]>>
                             ELSE digits[k \div 10] \o <<Digit[(k % 10) + 1]>>
    IN  IF n < 0 THEN <<"-">> \o digits[-n] ELSE digits[n]

\* The digits of s read from the left (js_to_number's fast path).
Read(s) == LET upto[i \in 0..Len(s)] ==
                   IF i = 0 THEN 0 ELSE 10 * upto[i - 1] + DigitValue(s[i])
           IN  upto[Len(s)]

TextToNumber(s) ==
    IF s = <<>> THEN Num(0)
    ELSE IF AllDigits(s) THEN Num(Read(s))
    ELSE IF s[1] = "-" /\ AllDigits(Tail(s)) THEN Num(-Read(Tail(s)))
    ELSE NaN

ToNumber(v) ==
    CASE IsNumber(v) -> v
      [] Is(v, "bool") -> Num(IF v.bool THEN 1 ELSE 0)
      [] Is(v, "null") -> Num(0)
      [] Is(v, "str") -> TextToNumber(v.str)
      [] OTHER -> NaN

ToText(v) ==
    CASE Is(v, "num") -> Decimal(v.num)
      [] Is(v, "str") -> v.str
      [] Is(v, "bool") -> <<IF v.bool THEN "true" ELSE "false">>
      [] Is(v, "null") -> <<"null">>
      [] Is(v, "undef") -> <<"undefined">>
      [] Is(v, "nan") -> <<"NaN">>
      [] OTHER -> <<"?">>

Truthy(v) ==
    CASE Is(v, "bool") -> v.bool
      [] Is(v, "num") -> v.num # 0
      [] Is(v, "str") -> v.str # <<>>
      [] OTHER -> ~(Is(v, "null") \/ Is(v, "undef") \/ Is(v, "nan"))

\* Rust's % and /, which round towards zero.
Abs(n) == IF n < 0 THEN -n ELSE n
Remainder(a, b) == IF a < 0 THEN -(Abs(a) % Abs(b)) ELSE a % Abs(b)
Quotient(a, b) == LET q == Abs(a) \div Abs(b) IN IF (a < 0) = (b < 0) THEN q ELSE -q

\* IEEE arithmetic on the integers, which are all small enough to be exact.
Float(op, a, b) ==
    CASE Is(a, "nan") \/ Is(b, "nan") -> NaN
      [] Is(a, "frac") \/ Is(b, "frac") -> Fraction
      [] op = "+" -> Num(a.num + b.num)
      [] op = "-" -> Num(a.num - b.num)
      [] op = "*" -> Num(a.num * b.num)
      [] b.num = 0 -> IF op = "/" /\ a.num # 0 THEN Fraction ELSE NaN
      [] op = "%" -> Num(Remainder(a.num, b.num))
      [] OTHER -> IF Remainder(a.num, b.num) = 0 THEN Num(Quotient(a.num, b.num)) ELSE Fraction

\* Comparison of two numbers, false when one is not a number.
Below(a, b) == Is(a, "num") /\ Is(b, "num") /\ a.num < b.num
SameNumber(a, b) == Is(a, "num") /\ Is(b, "num") /\ a.num = b.num

Order == <<"-">> \o Digit \o <<"a", "b">>
Rank(c) == CHOOSE i \in DOMAIN Order : Order[i] = c
\* The order of two byte strings.
TextBelow(s, t) ==
    \E n \in 0..Len(s) : /\ n < Len(t)
                         /\ SubSeq(s, 1, n) = SubSeq(t, 1, n)
                         /\ n = Len(s) \/ Rank(s[n + 1]) < Rank(t[n + 1])
=============================================================================
