-------------------------------- MODULE Resp --------------------------------
(***************************************************************************)
(* The RESP codec (resp.rs): `encode`, and `read_value` with its stack of  *)
(* half-read arrays.  A stream is the sequence of bytes still to come      *)
(* before the end of the input.  Integers have the width -MaxI-1..MaxI, in *)
(* the code that of i64.                                                   *)
(***************************************************************************)
EXTENDS Integers, Sequences, SequencesExt

CONSTANT MaxI       \* i64::MAX

CR == 13
LF == 10
Space == 32
Crlf == <<CR, LF>>
Zero == 48
Minus == 45
\* The tags + - : _ $ * .
TagSimple == 43
TagError == 45
TagInteger == 58
TagNull == 95
TagBlob == 36
TagArray == 42

Simple(s) == [t |-> "simple", s |-> s]
Err(s) == [t |-> "error", s |-> s]
Integer(n) == [t |-> "integer", n |-> n]
Blob(b) == [t |-> "blob", s |-> b]
Null == [t |-> "null"]
Array(items) == [t |-> "array", items |-> items]

\* push_usize, push_i64.
RECURSIVE PushUsize(_)
PushUsize(n) == IF n < 10 THEN <<Zero + n>> ELSE PushUsize(n \div 10) \o <<Zero + (n % 10)>>
PushI64(n) == IF n < 0 THEN <<Minus>> \o PushUsize(-n) ELSE PushUsize(n)

RECURSIVE Encode(_)
Encode(v) ==
    CASE v.t = "simple"  -> <<TagSimple>> \o v.s \o Crlf
      [] v.t = "error"   -> <<TagError>> \o v.s \o Crlf
      [] v.t = "integer" -> <<TagInteger>> \o PushI64(v.n) \o Crlf
      [] v.t = "blob"    -> <<TagBlob>> \o PushUsize(Len(v.s)) \o Crlf \o v.s \o Crlf
      [] v.t = "null"    -> <<TagNull>> \o Crlf
      [] v.t = "array"   -> <<TagArray>> \o PushUsize(Len(v.items)) \o Crlf
                              \o FlattenSeq([i \in DOMAIN v.items |-> Encode(v.items[i])])

\* parse_i64_bytes: checked multiplication and addition of a positive number, so
\* that the smallest integer does not parse.  Nothing stands for None.
Nothing == MaxI + 1
RECURSIVE ParseDigits(_, _)
ParseDigits(s, acc) ==
    IF s = <<>> THEN acc
    ELSE LET d == s[1] - Zero IN
         IF d \notin 0..9 \/ acc * 10 + d > MaxI THEN Nothing ELSE ParseDigits(Tail(s), acc * 10 + d)
ParseI64(s) ==
    LET neg == s # <<>> /\ s[1] = Minus
        digits == IF neg THEN Tail(s) ELSE s
        n == ParseDigits(digits, 0)
    IN  IF digits = <<>> \/ n = Nothing THEN Nothing ELSE IF neg THEN -n ELSE n
UnwrapOr(n, default) == IF n = Nothing THEN default ELSE n

-----------------------------------------------------------------------------
\* Reading.  A result has the value (or none, or an I/O error) and the stream left.
Got(v, rest) == [out |-> "value", v |-> v, rest |-> rest]
End == [out |-> "none"]
IoError == [out |-> "error"]

\* read_until('\n') and the stripping of the line's end.  At the end of the input
\* the line is what there is.
LineLen(s) == LET nl == {i \in DOMAIN s : s[i] = LF}
              IN  IF nl = {} THEN Len(s) ELSE CHOOSE i \in nl : \A j \in nl : i <= j
Line(s) == LET l == SubSeq(s, 1, LineLen(s)) IN
           IF IsSuffix(Crlf, l) THEN SubSeq(l, 1, Len(l) - 2)
           ELSE IF IsSuffix(<<LF>>, l) THEN SubSeq(l, 1, Len(l) - 1) ELSE l
AfterLine(s) == SubSeq(s, LineLen(s) + 1, Len(s))

\* Mutant: the CRLF after a blob's bytes is skipped, not waited for.
BlobEndLoose(len) == len
\* read_exact of the bytes and of the CRLF.
BlobEnd(len) == len + 2

ReadBlob(s) ==
    LET len == UnwrapOr(ParseI64(Line(s)), -1)
        r == AfterLine(s)
    IN  IF len < 0 THEN Got(Null, r)
        ELSE IF Len(r) < BlobEnd(len) THEN IoError
        ELSE Got(Blob(SubSeq(r, 1, len)), SubSeq(r, len + 3, Len(r)))

\* read_inline_command: the words of a line.
RECURSIVE Words(_, _)
Words(s, word) ==
    LET done == IF word = <<>> THEN <<>> ELSE <<Blob(word)>> IN
    IF s = <<>> THEN done
    ELSE IF s[1] \in {Space, CR, LF, 9, 12} THEN done \o Words(Tail(s), <<>>)
    ELSE Words(Tail(s), Append(word, s[1]))

ReadSingle(tag, s, inline) ==
    CASE tag = TagSimple  -> Got(Simple(Line(s)), AfterLine(s))
      [] tag = TagError   -> Got(Err(Line(s)), AfterLine(s))
      [] tag = TagInteger -> Got(Integer(UnwrapOr(ParseI64(Line(s)), 0)), AfterLine(s))
      [] tag = TagNull    -> Got(Null, AfterLine(s))
      [] tag = TagBlob    -> ReadBlob(s)
      [] OTHER -> IF inline THEN Got(Array(Words(Line(<<tag>> \o s), <<>>)), AfterLine(<<tag>> \o s))
                            ELSE Got(Err(<<>>), s)      \* "ERR unknown RESP type"

Frame(len) == [remaining |-> len, items |-> <<>>]
\* Mutant: an array inside an array is not counted.
PutNestedUncounted(frame, v) == [frame EXCEPT !.items = Append(@, v)]
Put(frame, v) == [frame EXCEPT !.items = Append(@, v), !.remaining = @ - 1]
PutNested(frame, v) == Put(frame, v)

\* The loop of read_value_from_tag: the array being read and the arrays around it.
RECURSIVE ReadArray(_, _, _)
ReadArray(current, stack, s) ==
    IF current.remaining = 0
      THEN IF stack = <<>> THEN Got(Array(current.items), s)
           ELSE ReadArray(PutNested(Last(stack), Array(current.items)), Front(stack), s)
    ELSE IF s = <<>> THEN End
    ELSE IF s[1] = TagArray
      THEN LET r == Tail(s)
               len == UnwrapOr(ParseI64(Line(r)), -1)
           IN  IF len < 0 THEN ReadArray(Put(current, Null), stack, AfterLine(r))
               ELSE ReadArray(Frame(len), Append(stack, current), AfterLine(r))
    ELSE LET e == ReadSingle(s[1], Tail(s), FALSE) IN
         IF e.out = "value" THEN ReadArray(Put(current, e.v), stack, e.rest) ELSE e

ReadValue(s) ==
    IF s = <<>> THEN End
    ELSE IF s[1] # TagArray THEN ReadSingle(s[1], Tail(s), TRUE)
    ELSE LET r == Tail(s)
             len == UnwrapOr(ParseI64(Line(r)), -1)
         IN  IF len < 0 THEN Got(Null, AfterLine(r)) ELSE ReadArray(Frame(len), <<>>, AfterLine(r))

\* value_to_args: the arguments of a command, or an error reply.
IsArg(v) == v.t \in {"blob", "simple", "integer"}
Runs(r) == r.out = "value" /\ r.v.t = "array" /\ r.v.items # <<>>
             /\ \A i \in DOMAIN r.v.items : IsArg(r.v.items[i])
=============================================================================
