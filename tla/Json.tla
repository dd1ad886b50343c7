-------------------------------- MODULE Json --------------------------------
(***************************************************************************)
(* JSON.parse and JSON.stringify (json.rs): a recursive-descent parser     *)
(* over bytes with a position, and the writer.  A value is a record; an    *)
(* object keeps its properties in insertion order; a number that is not an *)
(* integer stays its literal.                                              *)
(***************************************************************************)
EXTENDS Integers, Sequences, SequencesExt

Quote == 34
Slash == 92       \* a backslash
Comma == 44
Colon == 58
OpenArr == 91
CloseArr == 93
OpenObj == 123
CloseObj == 125
Dot == 46
Hyphen == 45
Plus == 43
Digit == 48..57
Exponent == {69, 101}
Newline == 10
Return == 13
Tab == 9
White == {32, Newline, Return, Tab}
LitTrue == <<116, 114, 117, 101>>
LitFalse == <<102, 97, 108, 115, 101>>
LitNull == <<110, 117, 108, 108>>

Str(s) == [t |-> "str", s |-> s]
Num(n) == [t |-> "num", n |-> n]
Fractional(s) == [t |-> "frac", s |-> s]
Const(w) == [t |-> w]          \* "true", "false", "null", "undefined", "infinite" (or NaN)
Arr(items) == [t |-> "arr", items |-> items]
Obj(props) == [t |-> "obj", props |-> props]      \* Seq of <<key, value>>

\* A step of the parser: the value and the position after it, or None.
Ok(v, i) == [ok |-> TRUE, v |-> v, i |-> i]
None == [ok |-> FALSE]

Peek(s, i) == IF i <= Len(s) THEN s[i] ELSE 0
RECURSIVE SkipWs(_, _)
SkipWs(s, i) == IF Peek(s, i) \in White THEN SkipWs(s, i + 1) ELSE i
ConsumeLiteral(s, i, lit) == SubSeq(s, i, i + Len(lit) - 1) = lit

RECURSIVE SkipDigits(_, _)
SkipDigits(s, i) == IF Peek(s, i) \in Digit THEN SkipDigits(s, i + 1) ELSE i

\* parse_number: each stage gives the position after it, or 0.
IntegerPart(s, i) ==
    LET j == IF Peek(s, i) = Hyphen THEN i + 1 ELSE i IN
    IF Peek(s, j) = 48 THEN j + 1
    ELSE IF Peek(s, j) \in Digit THEN SkipDigits(s, j + 1) ELSE 0
FractionPart(s, i) ==
    IF i = 0 \/ Peek(s, i) # Dot THEN i
    ELSE IF Peek(s, i + 1) \in Digit THEN SkipDigits(s, i + 1) ELSE 0
ExponentPart(s, i) ==
    IF i = 0 \/ Peek(s, i) \notin Exponent THEN i
    ELSE LET j == IF Peek(s, i + 1) \in {Plus, Hyphen} THEN i + 2 ELSE i + 1
         IN  IF Peek(s, j) \in Digit THEN SkipDigits(s, j) ELSE 0

RECURSIVE Decimal(_, _)
Decimal(s, acc) == IF s = <<>> THEN acc ELSE Decimal(Tail(s), acc * 10 + (s[1] - 48))
ParseNumber(s, i) ==
    LET int == IntegerPart(s, i)
        end == ExponentPart(s, FractionPart(s, int))
        lit == SubSeq(s, i, end - 1)
    IN  IF end = 0 THEN None
        ELSE IF end # int THEN Ok(Fractional(lit), end)
        ELSE Ok(Num(IF lit[1] = Hyphen THEN -Decimal(Tail(lit), 0) ELSE Decimal(lit, 0)), end)

\* parse_string_bytes after the opening quote.  \u escapes are left out.
Unescaped(c) ==
    CASE c = 110 -> Newline [] c = 114 -> Return [] c = 116 -> Tab
      [] c = 98 -> 8 [] c = 102 -> 12
      [] c \in {Quote, Slash, 47} -> c
      [] OTHER -> 0
RECURSIVE StringBytes(_, _, _)
StringBytes(s, i, out) ==
    LET c == Peek(s, i) IN
    IF i > Len(s) THEN None
    ELSE IF c = Quote THEN Ok(out, i + 1)
    ELSE IF c = Slash
      THEN LET e == Unescaped(Peek(s, i + 1)) IN
           IF e = 0 THEN None ELSE StringBytes(s, i + 2, Append(out, e))
    ELSE IF c < 32 THEN None
    ELSE StringBytes(s, i + 1, Append(out, c))
ParseString(s, i) == IF Peek(s, i) = Quote THEN StringBytes(s, i + 1, <<>>) ELSE None

\* js_set_property_str on a fresh object: the last of two equal keys wins.
SetProperty(props, k, v) ==
    LET at == {i \in DOMAIN props : props[i][1] = k} IN
    IF at = {} THEN Append(props, <<k, v>>)
    ELSE [i \in DOMAIN props |-> IF i \in at THEN <<k, v>> ELSE props[i]]

RECURSIVE ParseValue(_, _), ParseItems(_, _, _), ParseProps(_, _, _)
ParseValue(s, at) ==
    LET i == SkipWs(s, at)
        c == Peek(s, i)
        literal(lit, w) == IF ConsumeLiteral(s, i, lit) THEN Ok(Const(w), i + Len(lit)) ELSE None
    IN  CASE c = OpenObj -> LET j == SkipWs(s, i + 1) IN
                            IF Peek(s, j) = CloseObj THEN Ok(Obj(<<>>), j + 1) ELSE ParseProps(s, j, <<>>)
          [] c = OpenArr -> LET j == SkipWs(s, i + 1) IN
                            IF Peek(s, j) = CloseArr THEN Ok(Arr(<<>>), j + 1) ELSE ParseItems(s, j, <<>>)
          [] c = Quote -> LET r == ParseString(s, i) IN IF r.ok THEN Ok(Str(r.v), r.i) ELSE None
          [] c = Hyphen \/ c \in Digit -> ParseNumber(s, i)
          [] c = LitTrue[1] -> literal(LitTrue, "true")
          [] c = LitFalse[1] -> literal(LitFalse, "false")
          [] c = LitNull[1] -> literal(LitNull, "null")
          [] OTHER -> None
ParseItems(s, i, items) ==
    LET r == ParseValue(s, i)
        j == SkipWs(s, r.i)
        all == Append(items, r.v)
    IN  IF ~r.ok THEN None
        ELSE IF Peek(s, j) = Comma THEN ParseItems(s, SkipWs(s, j + 1), all)
        ELSE IF Peek(s, j) = CloseArr THEN Ok(Arr(all), j + 1) ELSE None
ParseProps(s, i, props) ==
    LET k == ParseString(s, SkipWs(s, i))
        c == SkipWs(s, k.i)
        r == ParseValue(s, c + 1)
        j == SkipWs(s, r.i)
        all == SetProperty(props, k.v, r.v)
    IN  IF ~k.ok THEN None
        ELSE IF Peek(s, c) # Colon THEN None
        ELSE IF ~r.ok THEN None
        ELSE IF Peek(s, j) = Comma THEN ParseProps(s, j + 1, all)
        ELSE IF Peek(s, j) = CloseObj THEN Ok(Obj(all), j + 1) ELSE None

\* parse_json: nothing may follow the value.
ParseJson(s) ==
    LET r == ParseValue(s, 1) IN
    IF r.ok /\ SkipWs(s, r.i) = Len(s) + 1 THEN r ELSE None

-----------------------------------------------------------------------------
\* Mutant: a backslash is written as it is.
EscapedButSlash(c) ==
    CASE c = Quote -> <<Slash, Quote>> [] c = Newline -> <<Slash, 110>>
      [] c = Return -> <<Slash, 114>> [] c = Tab -> <<Slash, 116>> [] OTHER -> <<c>>
Escaped(c) ==
    CASE c = Quote -> <<Slash, Quote>> [] c = Slash -> <<Slash, Slash>>
      [] c = Newline -> <<Slash, 110>> [] c = Return -> <<Slash, 114>>
      [] c = Tab -> <<Slash, 116>> [] OTHER -> <<c>>
Quoted(bytes) == <<Quote>> \o bytes \o <<Quote>>
RECURSIVE Digits(_)
Digits(n) == IF n < 10 THEN <<48 + n>> ELSE Digits(n \div 10) \o <<48 + (n % 10)>>

Separated(parts) ==
    FlattenSeq([i \in DOMAIN parts |-> IF i = 1 THEN parts[i] ELSE <<Comma>> \o parts[i]])

\* json_stringify_value_inner; <<>> stands for None, which only undefined and
\* functions give, and only outside an array.  Keys are written as they are, and
\* so are control bytes other than the three that Escaped names.
RECURSIVE Stringify(_, _)
Stringify(v, inArray) ==
    CASE v.t = "str" -> Quoted(FlattenSeq([i \in DOMAIN v.s |-> Escaped(v.s[i])]))
      [] v.t = "num" -> IF v.n < 0 THEN <<Hyphen>> \o Digits(-v.n) ELSE Digits(v.n)
      [] v.t = "frac" -> v.s
      [] v.t = "true" -> LitTrue
      [] v.t = "false" -> LitFalse
      [] v.t \in {"null", "infinite"} -> LitNull
      [] v.t = "undefined" -> IF inArray THEN LitNull ELSE <<>>
      [] v.t = "arr" -> <<OpenArr>>
            \o Separated([i \in DOMAIN v.items |-> Stringify(v.items[i], TRUE)]) \o <<CloseArr>>
      [] v.t = "obj" ->
            LET written == SelectSeq(v.props, LAMBDA p : Stringify(p[2], FALSE) # <<>>)
                text(p) == Quoted(p[1]) \o <<Colon>> \o Stringify(p[2], FALSE)
            IN  <<OpenObj>> \o Separated([i \in DOMAIN written |-> text(written[i])]) \o <<CloseObj>>

\* What the writer keeps of a value: a number that is not finite becomes null,
\* undefined becomes null in an array and vanishes from an object.
RECURSIVE Kept(_)
Kept(v) ==
    CASE v.t = "arr" -> Arr([i \in DOMAIN v.items |->
                            IF v.items[i].t = "undefined" THEN Const("null") ELSE Kept(v.items[i])])
      [] v.t = "obj" -> LET ps == SelectSeq(v.props, LAMBDA p : p[2].t # "undefined")
                        IN  Obj([i \in DOMAIN ps |-> <<ps[i][1], Kept(ps[i][2])>>])
      [] v.t = "infinite" -> Const("null")
      [] OTHER -> v

\* The strings and the keys of what is kept.
RECURSIVE StringsOf(_), KeysOf(_)
StringsOf(v) ==
    CASE v.t = "str" -> {v.s}
      [] v.t = "arr" -> UNION {StringsOf(v.items[i]) : i \in DOMAIN v.items}
      [] v.t = "obj" -> UNION {StringsOf(v.props[i][2]) : i \in DOMAIN v.props}
      [] OTHER -> {}
KeysOf(v) ==
    CASE v.t = "arr" -> UNION {KeysOf(v.items[i]) : i \in DOMAIN v.items}
      [] v.t = "obj" -> UNION {{v.props[i][1]} \union KeysOf(v.props[i][2]) : i \in DOMAIN v.props}
      [] OTHER -> {}
Control == 0..31
\* No string holds a control byte that has no escape, and no key a byte that needs one.
PlainStrings(v) == \A s \in StringsOf(v) : ToSet(s) \intersect Control \subseteq {Newline, Return, Tab}
PlainKeys(v) == \A k \in KeysOf(v) : ToSet(k) \intersect (Control \union {Quote, Slash}) = {}

\* The number grammar of JSON, as a set: -? (0 | [1-9][0-9]*) (. [0-9]+)? ([eE][+-]?[0-9]+)?
IsDigits(s) == s # <<>> /\ \A i \in DOMAIN s : s[i] \in Digit
IsInteger(s) == LET d == IF s # <<>> /\ s[1] = Hyphen THEN Tail(s) ELSE s
                IN  IsDigits(d) /\ (d[1] = 48 => Len(d) = 1)
IsSignedDigits(s) == IsDigits(s) \/ (s # <<>> /\ s[1] \in {Plus, Hyphen} /\ IsDigits(Tail(s)))
IsNumber(s) ==
    \E i, j \in 0..Len(s) :
        /\ i <= j
        /\ IsInteger(SubSeq(s, 1, i))
        /\ i = j \/ (s[i + 1] = Dot /\ IsDigits(SubSeq(s, i + 2, j)))
        /\ j = Len(s) \/ (s[j + 1] \in Exponent /\ IsSignedDigits(SubSeq(s, j + 2, Len(s))))
=============================================================================
