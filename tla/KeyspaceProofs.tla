--------------------------- MODULE KeyspaceProofs ---------------------------
(***************************************************************************)
(* For any keys, values, deadlines and sequence of commands: no collection *)
(* is left empty, commands that fail change nothing, deadlines change only *)
(* when a command says so, integers and strings cannot be told apart, and  *)
(* every value is of its type.  (ExpiryProofs: expiration is invisible.)   *)
(***************************************************************************)
EXTENDS LazyExpiry, SequenceTheorems, FiniteSetTheorems, TLAPS

----------------------------------------------------------------------------
(* Results and replies.                                                    *)

LEMMA ResultParts ==
    ASSUME NEW d, NEW r
    PROVE  Result(d, r).data = d /\ Result(d, r).reply = r
  BY DEF Result

LEMMA ReplyKinds ==
    /\ \A n : ~IsError(Integer(n)) /\ ~IsError(Blob(n)) /\ ~IsError(Member(n)) /\ ~IsError(Array(n))
    /\ \A n : ~IsError(Bag(n)) /\ ~IsError(Pairs(n)) /\ ~IsError(Simple(n))
    /\ ~IsError(Null) /\ ~IsError(Panic) /\ ~IsError(OK)
  BY DEF IsError, Integer, Blob, Member, Array, Bag, Pairs, Simple, Null, Panic, OK

----------------------------------------------------------------------------
(* Entries and stores.                                                     *)

IsSeq(s) == \E S : s \in Seq(S)

\* A value as the methods leave it: a collection has something in it, and lists
\* and streams are sequences.
Filled(v) ==
    /\ v.type = "list" => IsSeq(v.items) /\ v.items # <<>>
    /\ v.type = "set" => v.members # {}
    /\ v.type = "hash" => DOMAIN v.fields # {}
    /\ v.type = "zset" => DOMAIN v.scores # {}
    /\ v.type = "stream" => IsSeq(v.entries)

IsEntry(e) ==
    /\ e = Entry(e.value, e.expires_at)
    /\ Filled(e.value)
    /\ e.expires_at \in Int \cup {None}

IsStore(d) == DOMAIN d \subseteq Keys /\ \A k \in DOMAIN d : IsEntry(d[k])

\* What a method on key k may have done to the store when it answers.
Shape(d, k, r) ==
    \/ r.data = d
    \/ r.data = Drop(d, k) /\ ~IsError(r.reply)
    \/ ~Has(d, k) /\ ~IsError(r.reply) /\ \E v : Filled(v) /\ r.data = Insert(d, k, v, None)
    \/ Has(d, k) /\ ~IsError(r.reply) /\ \E v : Filled(v) /\ r.data = Update(d, k, v)

LEMMA ShapeSame ==
    ASSUME NEW d, NEW k, NEW x
    PROVE  Shape(d, k, Result(d, x))
  BY ResultParts DEF Shape

LEMMA ShapeInsert ==
    ASSUME NEW d, NEW k, NEW v, NEW x, ~Has(d, k), Filled(v), ~IsError(x)
    PROVE  Shape(d, k, Result(Insert(d, k, v, None), x))
  BY ResultParts DEF Shape

LEMMA ShapeUpdate ==
    ASSUME NEW d, NEW k, NEW v, NEW x, Has(d, k), Filled(v), ~IsError(x)
    PROVE  Shape(d, k, Result(Update(d, k, v), x))
  BY ResultParts DEF Shape

LEMMA ShapeDrop ==
    ASSUME NEW d, NEW k, NEW x, ~IsError(x)
    PROVE  Shape(d, k, Result(Drop(d, k), x))
  BY ResultParts DEF Shape

----------------------------------------------------------------------------
(* Strings and integers.                                                   *)

LEMMA FilledScalars ==
    /\ \A b : Filled(StringValue(b)) /\ Filled(IntValue(b))
    /\ \A s : IsSeq(s) => Filled(StreamValue(s))
    /\ \A s : s # {} => Filled(SetValue(s))
    /\ \A f : DOMAIN f # {} => Filled(HashValue(f)) /\ Filled(ZSetValue(f))
    /\ \A s : IsSeq(s) /\ s # <<>> => Filled(ListValue(s))
  BY DEF Filled, StringValue, IntValue, StreamValue, SetValue, HashValue, ZSetValue, ListValue

LEMMA StringShapes ==
    ASSUME NEW d, NEW k
    PROVE  /\ Shape(d, k, GetString(d, k)) /\ Shape(d, k, StrLen(d, k))
           /\ \A b : Shape(d, k, SetNx(d, k, b))
           /\ \A n : Shape(d, k, AppendBytes(d, k, n))
           /\ \A n : Shape(d, k, IncrBy(d, k, n))
<1>1. Shape(d, k, GetString(d, k)) /\ Shape(d, k, StrLen(d, k))
  BY ShapeSame DEF GetString, StrLen, WrongType
<1>2. \A b : Shape(d, k, SetNx(d, k, b))
  BY ShapeSame, ShapeInsert, FilledScalars, ReplyKinds DEF SetNx
<1>3. \A n : Shape(d, k, AppendBytes(d, k, n))
  BY ShapeSame, ShapeInsert, ShapeUpdate, FilledScalars, ReplyKinds DEF AppendBytes, WrongType, IsString, Is
<1>4. \A n : Shape(d, k, IncrBy(d, k, n))
  BY ShapeSame, ShapeInsert, ShapeUpdate, FilledScalars, ReplyKinds DEF IncrBy, NotAnInteger, IsString, Is
<1> QED
  BY <1>1, <1>2, <1>3, <1>4


----------------------------------------------------------------------------
(* Lists.                                                                  *)

LEMMA SliceSeq ==
    ASSUME NEW s, NEW a \in Int, NEW b \in Int
    PROVE  IsSeq(SubSeq(s, a, b))
<1>1. \A i \in a .. b : s[i] \in {s[j] : j \in a .. b}
  OBVIOUS
<1>2. SubSeq(s, a, b) \in Seq({s[j] : j \in a .. b})
  BY <1>1, SubSeqProperties
<1> QED
  BY <1>2 DEF IsSeq

LEMMA UnitSeq ==
    ASSUME NEW v, NEW w
    PROVE  /\ IsSeq(<<>>) /\ IsSeq(<<v>>) /\ IsSeq(<<v, w>>)
           /\ <<v>> # <<>> /\ <<v, w>> # <<>>
<1>1. <<>> \in Seq({v, w}) /\ <<v>> \in Seq({v, w}) /\ <<v, w>> \in Seq({v, w})
  OBVIOUS
<1> QED
  BY <1>1 DEF IsSeq

LEMMA CutSeq ==
    ASSUME NEW s, IsSeq(s)
    PROVE  /\ Len(s) \in Nat /\ DOMAIN s = 1 .. Len(s)
           /\ s # <<>> => IsSeq(Tail(s)) /\ IsSeq(Front(s))
           /\ IsSeq(Reverse(s)) /\ Len(Reverse(s)) = Len(s)
           /\ \A i, v : IsSeq([s EXCEPT ![i] = v]) /\ (s # <<>> => [s EXCEPT ![i] = v] # <<>>)
<1> PICK S : s \in Seq(S)
  BY DEF IsSeq
<1>0. Len(s) \in Nat /\ DOMAIN s = 1 .. Len(s)
  BY LenProperties
<1>1. s # <<>> => IsSeq(Tail(s)) /\ IsSeq(Front(s))
  <2> SUFFICES ASSUME s # <<>> PROVE IsSeq(Tail(s)) /\ IsSeq(Front(s))
    OBVIOUS
  <2>1. Tail(s) \in Seq(S)
    BY HeadTailProperties
  <2>2. SubSeq(s, 1, Len(s) - 1) \in Seq(S)
    BY <1>0, SubSeqProperties
  <2> QED
    BY <2>1, <2>2 DEF IsSeq, Front
<1>3. IsSeq(Reverse(s)) /\ Len(Reverse(s)) = Len(s)
  <2>1. \A i \in 1 .. Len(s) : s[(Len(s) - i) + 1] \in S
    BY <1>0, ElementOfSeq
  <2>2. [i \in 1 .. Len(s) |-> s[(Len(s) - i) + 1]] \in Seq(S)
    BY <2>1, <1>0, IsASeq
  <2> QED
    BY <2>2, <1>0, LenProperties DEF Reverse, IsSeq
<1>4. ASSUME NEW i, NEW v
      PROVE  IsSeq([s EXCEPT ![i] = v]) /\ (s # <<>> => [s EXCEPT ![i] = v] # <<>>)
  <2> DEFINE t == [s EXCEPT ![i] = v]
  <2>1. DOMAIN t = 1 .. Len(s)
    BY <1>0
  <2>2. \A j \in 1 .. Len(s) : t[j] \in S \cup {v}
    BY <1>0, ElementOfSeq
  <2>3. t = [j \in 1 .. Len(s) |-> t[j]]
    BY <2>1
  <2> HIDE DEF t
  <2>4. [j \in 1 .. Len(s) |-> t[j]] \in Seq(S \cup {v})
    BY <2>2, <1>0, IsASeq
  <2>5. t \in Seq(S \cup {v})
    BY <2>3, <2>4
  <2>6. s # <<>> => Len(s) # 0
    BY <1>0, EmptySeq
  <2>7. Len(s) # 0 => t # <<>>
    BY <2>1, <1>0
  <2> QED
    BY <2>5, <2>6, <2>7 DEF t, IsSeq
<1> QED
  BY <1>0, <1>1, <1>3, <1>4

LEMMA JoinSeq ==
    ASSUME NEW s, NEW t, IsSeq(s), IsSeq(t)
    PROVE  /\ IsSeq(s \o t)
           /\ Len(s \o t) = Len(s) + Len(t)
           /\ s # <<>> \/ t # <<>> => s \o t # <<>>
<1> PICK S : s \in Seq(S)
  BY DEF IsSeq
<1> PICK T : t \in Seq(T)
  BY DEF IsSeq
<1>1. s \in Seq(S \cup T) /\ t \in Seq(S \cup T)
  BY SeqMonotonic
<1>2. s \o t \in Seq(S \cup T) /\ Len(s \o t) = Len(s) + Len(t)
  BY <1>1, ConcatProperties
<1>3. s # <<>> \/ t # <<>> => s \o t # <<>>
  BY <1>1, <1>2, EmptySeq, LenProperties
<1> QED
  BY <1>2, <1>3 DEF IsSeq


LEMMA WithoutSeq ==
    ASSUME NEW s, NEW I, IsSeq(s)
    PROVE  IsSeq(Without(s, I))
<1> DEFINE kept == DOMAIN s \ I
           nth(i) == CHOOSE p \in kept : Cardinality({q \in kept : q <= p}) = i
           T == {s[nth(i)] : i \in 1 .. Cardinality(kept)}
<1>1. Cardinality(kept) \in Nat
  <2>1. IsFiniteSet(1 .. Len(s))
    BY CutSeq, FS_Interval
  <2>2. kept \subseteq 1 .. Len(s)
    BY CutSeq
  <2> QED
    BY <2>1, <2>2, FS_Subset, FS_CardinalityType
<1>2. Without(s, I) = [i \in 1 .. Cardinality(kept) |-> s[nth(i)]]
  BY DEF Without
<1>3. \A i \in 1 .. Cardinality(kept) : s[nth(i)] \in T
  OBVIOUS
<1> HIDE DEF kept, nth, T
<1>4. [i \in 1 .. Cardinality(kept) |-> s[nth(i)]] \in Seq(T)
  BY <1>1, <1>3, IsASeq
<1> QED
  BY <1>2, <1>4 DEF IsSeq

\* The store as a method finds it: key k, if there, holds a value that is Filled.
Sound(d, k) == Has(d, k) => Filled(d[k].value)

LEMMA ListReads ==
    ASSUME NEW d, NEW k
    PROVE  /\ Shape(d, k, ListLen(d, k))
           /\ \A i : Shape(d, k, ListIndex(d, k, i))
           /\ \A i, j : Shape(d, k, ListRange(d, k, i, j))
  BY ShapeSame DEF ListLen, ListIndex, ListRange, WrongType

LEMMA PushShapes ==
    ASSUME NEW d, NEW k, Sound(d, k), NEW vs, IsSeq(vs), vs # <<>>, NEW left \in BOOLEAN
    PROVE  Shape(d, k, ListPush(d, k, vs, left)) /\ Shape(d, k, ListPushX(d, k, vs, left))
<1>1. \A s : IsSeq(s) => Filled(ListValue(Push(s, vs, left)))
  <2> SUFFICES ASSUME NEW s, IsSeq(s) PROVE IsSeq(Push(s, vs, left)) /\ Push(s, vs, left) # <<>>
    BY FilledScalars
  <2>1. IsSeq(Reverse(vs)) /\ Reverse(vs) # <<>>
    <3>1. IsSeq(Reverse(vs)) /\ Len(Reverse(vs)) = Len(vs)
      BY CutSeq
    <3>2. Len(vs) # 0
      BY DEF IsSeq
    <3> QED
      BY <3>1, <3>2 DEF IsSeq
  <2> QED
    BY <2>1, JoinSeq DEF Push
<1>2. Is(d, k, "list") => IsSeq(d[k].value.items)
  BY DEF Sound, Is, Filled
<1>3. IsSeq(<<>>)
  BY UnitSeq
<1>4. Shape(d, k, ListPush(d, k, vs, left))
  BY <1>1, <1>2, <1>3, ShapeSame, ShapeInsert, ShapeUpdate, ReplyKinds DEF ListPush, WrongType, Is
<1> QED
  BY <1>4, ShapeSame DEF ListPushX

LEMMA ListShapes ==
    ASSUME NEW d, NEW k, Sound(d, k)
    PROVE  /\ \A left \in BOOLEAN : Shape(d, k, ListPop(d, k, left))
           /\ \A before \in BOOLEAN : \A p, v : Shape(d, k, ListInsert(d, k, before, p, v))
           /\ \A i, v : Shape(d, k, ListSet(d, k, i, v)) /\ Shape(d, k, ListRem(d, k, i, v))
           /\ \A i, j \in Int : Shape(d, k, ListTrim(d, k, i, j))
<1> DEFINE s == d[k].value.items
<1>0. Is(d, k, "list") => Has(d, k) /\ IsSeq(s) /\ s # <<>>
  BY DEF Sound, Is, Filled
<1> HIDE DEF s
<1>1. ASSUME NEW left \in BOOLEAN PROVE Shape(d, k, ListPop(d, k, left))
  <2> DEFINE rest == IF left THEN Tail(s) ELSE Front(s)
             answer == Member(IF left THEN Head(s) ELSE Last(s))
  <2>1. Is(d, k, "list") => (rest # <<>> => Filled(ListValue(rest)))
    BY <1>0, CutSeq, FilledScalars
  <2>2. ~IsError(answer)
    BY ReplyKinds
  <2>3. ListPop(d, k, left) = IF ~Has(d, k) THEN Result(d, Null)
          ELSE IF Is(d, k, "list") THEN Result(UpdateOrDrop(d, k, ListValue(rest), rest = <<>>), answer)
          ELSE WrongType(d)
    BY DEF ListPop, s
  <2> HIDE DEF rest, answer
  <2> QED
    BY <1>0, <2>1, <2>2, <2>3, ShapeSame, ShapeUpdate, ShapeDrop DEF WrongType, UpdateOrDrop
<1>2. ASSUME NEW before \in BOOLEAN, NEW p, NEW v PROVE Shape(d, k, ListInsert(d, k, before, p, v))
  <2> DEFINE pos == FirstAt(s, p)
             next == InsertAt(s, IF before THEN pos ELSE pos + 1, v)
  <2>1. Is(d, k, "list") /\ Contains(s, p) => Filled(ListValue(next))
    <3> SUFFICES ASSUME Is(d, k, "list"), Contains(s, p) PROVE IsSeq(next) /\ next # <<>>
      BY FilledScalars
    <3>1. Len(s) \in Nat /\ DOMAIN s = 1 .. Len(s)
      BY <1>0, CutSeq
    <3>2. \E i \in DOMAIN s : s[i] = p /\ \A j \in 1 .. i - 1 : s[j] # p
      <4> DEFINE occ == {i \in DOMAIN s : s[i] = p}
      <4>1. occ \subseteq Nat /\ occ # {}
        BY <3>1 DEF Contains
      <4>2. PICK m \in occ : \A j \in occ : ~(<<j, m>> \in OpToRel(<, Nat))
        BY <4>1, NatLessThanWellFounded, WFMin
      <4>3. \A j \in occ : ~(j < m)
        BY <4>1, <4>2 DEF OpToRel
      <4> QED
        BY <4>3, <3>1
    <3>3. pos \in Int
      BY <3>1, <3>2 DEF FirstAt
    <3> DEFINE at == IF before THEN pos ELSE pos + 1
    <3>4. at \in Int /\ at - 1 \in Int
      BY <3>3
    <3> HIDE DEF at, pos
    <3>5. IsSeq(SubSeq(s, 1, at - 1)) /\ IsSeq(SubSeq(s, at, Len(s)))
      BY <3>1, <3>4, SliceSeq
    <3>6. IsSeq(<<v>>) /\ <<v>> # <<>>
      BY UnitSeq
    <3>7. IsSeq(SubSeq(s, 1, at - 1) \o <<v>>) /\ SubSeq(s, 1, at - 1) \o <<v>> # <<>>
      BY <3>5, <3>6, JoinSeq
    <3> QED
      BY <3>5, <3>7, JoinSeq DEF InsertAt, at
  <2>3. ListInsert(d, k, before, p, v) = IF ~Has(d, k) THEN Result(d, Integer(0))
          ELSE IF ~Is(d, k, "list") THEN WrongType(d)
          ELSE IF Contains(s, p) THEN Result(Update(d, k, ListValue(next)), Integer(Len(next)))
          ELSE Result(d, Integer(-1))
    BY DEF ListInsert, s
  <2> HIDE DEF next
  <2> QED
    BY <1>0, <2>1, <2>3, ReplyKinds, ShapeSame, ShapeUpdate DEF WrongType
<1>3. ASSUME NEW i, NEW v PROVE Shape(d, k, ListSet(d, k, i, v))
  <2>1. Is(d, k, "list") => \A q : Filled(ListValue([s EXCEPT ![q] = v]))
    BY <1>0, CutSeq, FilledScalars
  <2> QED
    BY <1>0, <2>1, ReplyKinds, ShapeSame, ShapeUpdate DEF ListSet, WrongType, s
<1>4. ASSUME NEW i, NEW v PROVE Shape(d, k, ListRem(d, k, i, v))
  <2> DEFINE rem == RemPositions(s, i, v)
             next == Without(s, rem)
  <2>1. Is(d, k, "list") => (next # <<>> => Filled(ListValue(next)))
    BY <1>0, WithoutSeq, FilledScalars
  <2>3. ListRem(d, k, i, v) = IF ~Has(d, k) THEN Result(d, Integer(0))
          ELSE IF Is(d, k, "list")
          THEN Result(UpdateOrDrop(d, k, ListValue(next), next = <<>>), Integer(Cardinality(rem)))
          ELSE WrongType(d)
    BY DEF ListRem, s
  <2> HIDE DEF rem, next
  <2> QED
    BY <1>0, <2>1, <2>3, ReplyKinds, ShapeSame, ShapeUpdate, ShapeDrop DEF WrongType, UpdateOrDrop
<1>5. ASSUME NEW start \in Int, NEW stop \in Int PROVE Shape(d, k, ListTrim(d, k, start, stop))
  <2> DEFINE len  == Len(s)
             b    == TrimStart(len, start)
             e    == TrimStop(len, stop)
             huge == e = -1
             next == IF huge \/ b > e \/ b >= len THEN <<>> ELSE SubSeq(s, b + 1, e + 1)
  <2>1. Is(d, k, "list") => (next # <<>> => Filled(ListValue(next)))
    <3> SUFFICES ASSUME Is(d, k, "list") PROVE next # <<>> => IsSeq(next)
      BY FilledScalars
    <3>1. b + 1 \in Int /\ e + 1 \in Int
      BY <1>0, CutSeq DEF TrimStart, TrimStop
    <3> HIDE DEF b, e
    <3> QED
      BY <3>1, SliceSeq
  <2>3. ListTrim(d, k, start, stop) = IF ~Has(d, k) THEN Result(d, OK)
          ELSE IF ~Is(d, k, "list") THEN WrongType(d)
          ELSE IF huge /\ b \in 1 .. len - 1 THEN Result(d, Panic)
          ELSE Result(UpdateOrDrop(d, k, ListValue(next), next = <<>>), OK)
    BY DEF ListTrim, s
  <2> HIDE DEF huge, b, len, next
  <2> QED
    BY <1>0, <2>1, <2>3, ReplyKinds, ShapeSame, ShapeUpdate, ShapeDrop DEF WrongType, UpdateOrDrop
<1> QED
  BY <1>1, <1>2, <1>3, <1>4, <1>5


----------------------------------------------------------------------------
(* Hashes, sets, sorted sets and streams.                                  *)

LEMMA MapDomains ==
    ASSUME NEW f, NEW x, NEW v
    PROVE  /\ DOMAIN Put(f, x, v) = DOMAIN f \cup {x}
           /\ DOMAIN Single(x, v) = {x}
           /\ \A X : DOMAIN Forget(f, X) = DOMAIN f \ X
  BY DEF Put, Single, Forget

LEMMA MapFilled ==
    ASSUME NEW x, NEW v
    PROVE  /\ Filled(HashValue(Single(x, v))) /\ Filled(ZSetValue(Single(x, v)))
           /\ \A g : Filled(HashValue(Put(g, x, v))) /\ Filled(ZSetValue(Put(g, x, v)))
<1>1. DOMAIN Single(x, v) # {}
  <2>1. x \in DOMAIN Single(x, v)
    BY DEF Single
  <2> QED
    BY <2>1
<1>2. ASSUME NEW g PROVE DOMAIN Put(g, x, v) # {}
  <2>1. x \in DOMAIN Put(g, x, v)
    BY DEF Put
  <2> QED
    BY <2>1
<1> QED
  BY <1>1, <1>2, FilledScalars

LEMMA HashShapes ==
    ASSUME NEW d, NEW k
    PROVE  /\ Shape(d, k, HashLen(d, k)) /\ Shape(d, k, HashGetAll(d, k))
           /\ \A f : Shape(d, k, HashGet(d, k, f)) /\ Shape(d, k, HashExists(d, k, f))
           /\ \A f, b : Shape(d, k, HashSet(d, k, f, b)) /\ Shape(d, k, HashSetNx(d, k, f, b))
           /\ \A fs : Shape(d, k, HashDel(d, k, fs))
           /\ \A f, n : Shape(d, k, HashIncrBy(d, k, f, n))
<1>1. Shape(d, k, HashLen(d, k)) /\ Shape(d, k, HashGetAll(d, k))
  BY ShapeSame DEF HashLen, HashGetAll, WrongType
<1>2. \A f : Shape(d, k, HashGet(d, k, f)) /\ Shape(d, k, HashExists(d, k, f))
  BY ShapeSame DEF HashGet, HashExists, WrongType
<1>4. \A f, b : Shape(d, k, HashSet(d, k, f, b))
  BY MapFilled, ShapeSame, ShapeInsert, ShapeUpdate, ReplyKinds DEF HashSet, WrongType, Is
<1>5. \A f, b : Shape(d, k, HashSetNx(d, k, f, b))
  BY <1>4, ShapeSame DEF HashSetNx
<1>6. ASSUME NEW fs PROVE Shape(d, k, HashDel(d, k, fs))
  <2>1. \A f : DOMAIN f \ fs # {} => Filled(HashValue(Forget(f, fs)))
    BY MapDomains, FilledScalars
  <2> QED
    BY <2>1, ShapeSame, ShapeUpdate, ShapeDrop, ReplyKinds DEF HashDel, UpdateOrDrop, WrongType, Is
<1>7. \A f, n : Shape(d, k, HashIncrBy(d, k, f, n))
  BY MapFilled, ShapeSame, ShapeInsert, ShapeUpdate, ReplyKinds DEF HashIncrBy, NotAnInteger, Is
<1> QED
  BY <1>1, <1>2, <1>4, <1>5, <1>6, <1>7

LEMMA SetShapes ==
    ASSUME NEW d, NEW k
    PROVE  /\ Shape(d, k, SetMembers(d, k)) /\ Shape(d, k, SetCard(d, k))
           /\ \A m : Shape(d, k, SetIsMember(d, k, m))
           /\ \A ms : ms # {} => Shape(d, k, SetAdd(d, k, ms))
           /\ \A ms : Shape(d, k, SetRemove(d, k, ms))
<1>1. Shape(d, k, SetMembers(d, k)) /\ Shape(d, k, SetCard(d, k)) /\ \A m : Shape(d, k, SetIsMember(d, k, m))
  BY ShapeSame DEF SetMembers, SetCard, SetIsMember, WrongType
<1>2. ASSUME NEW ms, ms # {} PROVE Shape(d, k, SetAdd(d, k, ms))
  <2>1. Filled(SetValue(ms)) /\ \A s : Filled(SetValue(s \cup ms))
    BY <1>2, FilledScalars
  <2> QED
    BY <2>1, ShapeSame, ShapeInsert, ShapeUpdate, ReplyKinds DEF SetAdd, WrongType, Is
<1>3. ASSUME NEW ms PROVE Shape(d, k, SetRemove(d, k, ms))
  BY FilledScalars, ShapeSame, ShapeUpdate, ShapeDrop, ReplyKinds DEF SetRemove, UpdateOrDrop, WrongType, Is
<1> QED
  BY <1>1, <1>2, <1>3

LEMMA ZSetShapes ==
    ASSUME NEW d, NEW k
    PROVE  /\ Shape(d, k, ZCard(d, k)) /\ \A i, j : Shape(d, k, ZRange(d, k, i, j))
           /\ \A ms : Shape(d, k, ZRem(d, k, ms))
           /\ \A x, m : Shape(d, k, ZAdd(d, k, x, m))
<1>1. Shape(d, k, ZCard(d, k)) /\ \A i, j : Shape(d, k, ZRange(d, k, i, j))
  BY ShapeSame DEF ZCard, ZRange, WrongType
<1>2. ASSUME NEW ms PROVE Shape(d, k, ZRem(d, k, ms))
  <2>1. \A f : DOMAIN f \ ms # {} => Filled(ZSetValue(Forget(f, ms)))
    BY MapDomains, FilledScalars
  <2> QED
    BY <2>1, ShapeSame, ShapeUpdate, ShapeDrop, ReplyKinds DEF ZRem, UpdateOrDrop, WrongType, Is
<1>3. \A x, m : Shape(d, k, ZAdd(d, k, x, m))
  BY MapFilled, ShapeSame, ShapeInsert, ShapeUpdate, ReplyKinds DEF ZAdd, WrongType, Is
<1> QED
  BY <1>1, <1>2, <1>3

LEMMA AppendSeq ==
    ASSUME NEW s, NEW x, IsSeq(s)
    PROVE  IsSeq(Append(s, x))
<1>1. PICK S : s \in Seq(S)
  BY DEF IsSeq
<1>2. s \in Seq(S \cup {x})
  BY <1>1, SeqMonotonic
<1>3. Append(s, x) \in Seq(S \cup {x})
  BY <1>2, AppendProperties
<1> QED
  BY <1>3 DEF IsSeq

LEMMA StreamShapes ==
    ASSUME NEW d, NEW k, Sound(d, k)
    PROVE  /\ Shape(d, k, StreamLen(d, k))
           /\ \A w : Shape(d, k, StreamRange(d, k, w)) /\ Shape(d, k, StreamRevRange(d, k, w))
           /\ \A a \in BOOLEAN : \A v : Shape(d, k, StreamAdd(d, k, a, v))
           /\ \A ids : Shape(d, k, StreamDel(d, k, ids))
<1>0. Is(d, k, "stream") => Has(d, k) /\ IsSeq(d[k].value.entries)
  BY DEF Sound, Is, Filled
<1>1. Shape(d, k, StreamLen(d, k))
  BY ShapeSame DEF StreamLen, WrongType
<1>2. \A w : Shape(d, k, StreamRange(d, k, w)) /\ Shape(d, k, StreamRevRange(d, k, w))
  BY ShapeSame DEF StreamRange, StreamRevRange, WrongType
<1>3. ASSUME NEW a \in BOOLEAN, NEW v PROVE Shape(d, k, StreamAdd(d, k, a, v))
  <2>1. \A x : Is(d, k, "stream") => Filled(StreamValue(Append(d[k].value.entries, x)))
    BY <1>0, AppendSeq, FilledScalars
  <2>2. \A x : Filled(StreamValue(<<x>>))
    BY UnitSeq, FilledScalars
  <2> QED
    BY <1>0, <2>1, <2>2, ShapeSame, ShapeInsert, ShapeUpdate, ReplyKinds DEF StreamAdd
<1>4. ASSUME NEW ids PROVE Shape(d, k, StreamDel(d, k, ids))
  <2>1. \A I : Is(d, k, "stream") => Filled(StreamValue(Without(d[k].value.entries, I)))
    BY <1>0, WithoutSeq, FilledScalars
  <2> QED
    BY <1>0, <2>1, ShapeSame, ShapeUpdate, ReplyKinds DEF StreamDel, WrongType
<1> QED
  BY <1>1, <1>2, <1>3, <1>4

----------------------------------------------------------------------------
(* What the methods do to a store, and which of it a client can see.       *)

Visible(d, t) == {k \in DOMAIN d : ~Expired(d[k], t)}

LEMMA PurgeParts ==
    ASSUME NEW d, NEW t
    PROVE  /\ DOMAIN PurgeExpiredAll(d, t) = Visible(d, t)
           /\ \A k \in Visible(d, t) : PurgeExpiredAll(d, t)[k] = d[k]
  BY DEF PurgeExpiredAll, Visible, Forget

LEMMA PurgeEqual ==
    ASSUME NEW d, NEW e, NEW t,
           Visible(d, t) = Visible(e, t),
           \A k \in Visible(d, t) : d[k] = e[k]
    PROVE  PurgeExpiredAll(d, t) = PurgeExpiredAll(e, t)
<1>1. PurgeExpiredAll(d, t) = [k \in Visible(d, t) |-> d[k]]
  BY DEF PurgeExpiredAll, Visible, Forget
<1>2. PurgeExpiredAll(e, t) = [k \in Visible(e, t) |-> e[k]]
  BY DEF PurgeExpiredAll, Visible, Forget
<1> QED
  BY <1>1, <1>2

LEMMA PurgeTwice ==
    ASSUME NEW d, NEW t
    PROVE  PurgeExpiredAll(PurgeExpiredAll(d, t), t) = PurgeExpiredAll(d, t)
<1>1. Visible(PurgeExpiredAll(d, t), t) = Visible(d, t)
  BY PurgeParts DEF Visible
<1> QED
  BY <1>1, PurgeParts, PurgeEqual

LEMMA DropParts ==
    ASSUME NEW d, NEW k
    PROVE  /\ DOMAIN Drop(d, k) = DOMAIN d \ {k}
           /\ \A j \in DOMAIN d \ {k} : Drop(d, k)[j] = d[j]
  BY DEF Drop, Forget

LEMMA InsertParts ==
    ASSUME NEW d, NEW k, NEW v, NEW at
    PROVE  /\ DOMAIN Insert(d, k, v, at) = DOMAIN d \cup {k}
           /\ Insert(d, k, v, at)[k] = Entry(v, at)
           /\ \A j \in DOMAIN d \ {k} : Insert(d, k, v, at)[j] = d[j]
  BY DEF Insert, Put

LEMMA EntryExcept ==
    ASSUME NEW e, e = Entry(e.value, e.expires_at)
    PROVE  /\ \A v : [e EXCEPT !.value = v] = Entry(v, e.expires_at)
           /\ \A at : [e EXCEPT !.expires_at = at] = Entry(e.value, at)
<1> DEFINE a == e.value
           b == e.expires_at
<1>1. /\ \A v : [Entry(a, b) EXCEPT !.value = v] = Entry(v, b)
      /\ \A at : [Entry(a, b) EXCEPT !.expires_at = at] = Entry(a, at)
  BY DEF Entry
<1> HIDE DEF a, b
<1>2. e = Entry(a, b)
  BY DEF a, b
<1>3. /\ \A v : [e EXCEPT !.value = v] = Entry(v, b)
      /\ \A at : [e EXCEPT !.expires_at = at] = Entry(a, at)
  BY <1>1, <1>2
<1> QED
  BY <1>3 DEF a, b

LEMMA UpdateParts ==
    ASSUME NEW d, NEW k, NEW v, Has(d, k), IsEntry(d[k])
    PROVE  /\ DOMAIN Update(d, k, v) = DOMAIN d
           /\ Update(d, k, v)[k].value = v
           /\ Update(d, k, v)[k].expires_at = d[k].expires_at
           /\ Update(d, k, v)[k] = Entry(v, d[k].expires_at)
           /\ \A j \in DOMAIN d \ {k} : Update(d, k, v)[j] = d[j]
<1>1. /\ DOMAIN Update(d, k, v) = DOMAIN d
      /\ Update(d, k, v)[k] = [d[k] EXCEPT !.value = v]
      /\ \A j \in DOMAIN d \ {k} : Update(d, k, v)[j] = d[j]
  BY DEF Update, Has
<1>2. [d[k] EXCEPT !.value = v] = Entry(v, d[k].expires_at)
  BY EntryExcept DEF IsEntry
<1> QED
  BY <1>1, <1>2 DEF Entry

LEMMA EvictParts ==
    ASSUME NEW d, NEW k, NEW t
    PROVE  /\ DOMAIN Evict(d, k, t) = IF Has(d, k) /\ Expired(d[k], t) THEN DOMAIN d \ {k} ELSE DOMAIN d
           /\ \A j \in DOMAIN Evict(d, k, t) : Evict(d, k, t)[j] = d[j]
  BY DropParts DEF Evict

LEMMA EvictInvisible ==
    ASSUME NEW d, NEW k, NEW t
    PROVE  /\ Visible(Evict(d, k, t), t) = Visible(d, t)
           /\ PurgeExpiredAll(Evict(d, k, t), t) = PurgeExpiredAll(d, t)
<1>1. CASE ~(Has(d, k) /\ Expired(d[k], t))
  BY <1>1 DEF Evict
<1>2. CASE Has(d, k) /\ Expired(d[k], t)
  <2>0. Evict(d, k, t) = Drop(d, k)
    BY <1>2 DEF Evict
  <2>1. \A j : j \in Visible(Drop(d, k), t) <=> j \in Visible(d, t)
    <3> TAKE j
    <3>1. CASE j = k
      BY <3>1, <1>2, DropParts DEF Visible
    <3>2. CASE j # k
      BY <3>2, DropParts DEF Visible
    <3> QED
      BY <3>1, <3>2
  <2>2. Visible(Drop(d, k), t) = Visible(d, t)
    BY <2>1
  <2>3. \A j \in Visible(d, t) : Drop(d, k)[j] = d[j]
    BY <1>2, DropParts DEF Visible
  <2>4. PurgeExpiredAll(Drop(d, k), t) = PurgeExpiredAll(d, t)
    BY <2>2, <2>3, PurgeEqual
  <2> QED
    BY <2>0, <2>2, <2>4
<1> QED
  BY <1>1, <1>2

LEMMA PartStore ==
    ASSUME NEW d, NEW e, IsStore(d), DOMAIN e \subseteq DOMAIN d, \A k \in DOMAIN e : e[k] = d[k]
    PROVE  IsStore(e)
  BY DEF IsStore

LEMMA StoreKept ==
    ASSUME NEW d, IsStore(d), NEW k, NEW t
    PROVE  /\ IsStore(Drop(d, k)) /\ IsStore(Evict(d, k, t)) /\ IsStore(PurgeExpiredAll(d, t))
           /\ Sound(d, k)
<1>1. IsStore(Drop(d, k))
  BY DropParts, PartStore
<1>2. IsStore(Evict(d, k, t))
  BY <1>1 DEF Evict
<1>3. IsStore(PurgeExpiredAll(d, t))
  <2>1. DOMAIN PurgeExpiredAll(d, t) \subseteq DOMAIN d
    BY PurgeParts DEF Visible
  <2> QED
    BY <2>1, PurgeParts, PartStore
<1>4. Sound(d, k)
  BY DEF Sound, Has, IsStore, IsEntry
<1> QED
  BY <1>1, <1>2, <1>3, <1>4

LEMMA InsertStore ==
    ASSUME NEW d, IsStore(d), NEW k \in Keys, NEW v, Filled(v), NEW at \in Int \cup {None}
    PROVE  IsStore(Insert(d, k, v, at))
<1> DEFINE e == Insert(d, k, v, at)
<1>0. /\ DOMAIN e = DOMAIN d \cup {k} /\ e[k] = Entry(v, at)
      /\ \A j \in DOMAIN d \ {k} : e[j] = d[j]
  BY DEF Insert, Put
<1> HIDE DEF e
<1>1. IsEntry(Entry(v, at))
  BY DEF IsEntry, Entry
<1>2. ASSUME NEW j \in DOMAIN e PROVE IsEntry(e[j])
  <2>1. CASE j = k
    BY <2>1, <1>1, <1>0
  <2>2. CASE j # k
    BY <2>2, <1>0 DEF IsStore
  <2> QED
    BY <2>1, <2>2
<1>3. DOMAIN e \subseteq Keys
  BY <1>0 DEF IsStore
<1> QED
  BY <1>2, <1>3 DEF IsStore, e

LEMMA UpdateStore ==
    ASSUME NEW d, IsStore(d), NEW k, Has(d, k), NEW v, Filled(v)
    PROVE  IsStore(Update(d, k, v))
<1>1. IsEntry(d[k]) /\ k \in Keys
  BY DEF IsStore, Has
<1>2. IsEntry(Update(d, k, v)[k])
  <2>1. Update(d, k, v)[k] = Entry(v, d[k].expires_at) /\ d[k].expires_at \in Int \cup {None}
    BY <1>1, UpdateParts DEF IsEntry
  <2> QED
    BY <2>1 DEF IsEntry, Entry
<1> QED
  BY <1>1, <1>2, UpdateParts DEF IsStore


\* What a step of store d at time t that leaves and answers r may have done.
Good(d, t, r) ==
    /\ IsStore(r.data)
    /\ IsError(r.reply) => PurgeExpiredAll(r.data, t) = PurgeExpiredAll(d, t)
    /\ \A j \in Visible(d, t) \cap DOMAIN r.data : r.data[j].expires_at = d[j].expires_at

LEMMA MethodGood ==
    ASSUME NEW d, IsStore(d), NEW k \in Keys, NEW t, NEW r, Shape(Evict(d, k, t), k, r)
    PROVE  Good(d, t, r)
<1> DEFINE e == Evict(d, k, t)
<1>1. IsStore(e)
  BY StoreKept
<1>2. Visible(e, t) = Visible(d, t) /\ PurgeExpiredAll(e, t) = PurgeExpiredAll(d, t)
  BY EvictInvisible
<1>3. \A j \in DOMAIN e : e[j] = d[j]
  BY DEF Evict, Drop, Forget
<1>4. Visible(e, t) \subseteq DOMAIN e
  BY DEF Visible
<1>5. Shape(e, k, r)
  OBVIOUS
<1> HIDE DEF e
<1>6. CASE r.data = e
  BY <1>1, <1>2, <1>3, <1>4, <1>6 DEF Good
<1>7. CASE r.data = Drop(e, k) /\ ~IsError(r.reply)
  <2>1. IsStore(r.data)
    BY <1>1, <1>7, StoreKept
  <2>2. \A j \in DOMAIN r.data : j \in DOMAIN e /\ r.data[j] = e[j]
    BY <1>7 DEF Drop, Forget
  <2> QED
    BY <1>3, <1>7, <2>1, <2>2 DEF Good
<1>8. CASE ~Has(e, k) /\ ~IsError(r.reply) /\ \E v : Filled(v) /\ r.data = Insert(e, k, v, None)
  <2>1. PICK v : Filled(v) /\ r.data = Insert(e, k, v, None)
    BY <1>8
  <2>2. IsStore(r.data)
    BY <1>1, <2>1, InsertStore
  <2>3. \A j \in DOMAIN e : r.data[j] = e[j]
    BY <1>8, <2>1 DEF Insert, Put, Has
  <2> QED
    BY <1>2, <1>3, <1>4, <1>8, <2>2, <2>3 DEF Good
<1>9. CASE Has(e, k) /\ ~IsError(r.reply) /\ \E v : Filled(v) /\ r.data = Update(e, k, v)
  <2>1. PICK v : Filled(v) /\ r.data = Update(e, k, v)
    BY <1>9
  <2>2. IsStore(r.data)
    BY <1>1, <1>9, <2>1, UpdateStore
  <2>3. IsEntry(e[k])
    BY <1>1, <1>9 DEF IsStore, Has
  <2>4. \A j \in DOMAIN e : r.data[j].expires_at = e[j].expires_at
    BY <1>9, <2>1, <2>3, UpdateParts
  <2> QED
    BY <1>2, <1>3, <1>4, <1>9, <2>2, <2>4 DEF Good
<1> QED
  BY <1>5, <1>6, <1>7, <1>8, <1>9 DEF Shape

----------------------------------------------------------------------------
(* SMOVE, and the commands that set deadlines.                             *)

\* The store after the member left the source of a move.
Left(d, src, m) ==
    IF d[src].value.members = {m} THEN Drop(d, src)
    ELSE Update(d, src, SetValue(d[src].value.members \ {m}))

LEMMA MoveLeaves ==
    ASSUME NEW d, IsStore(d), NEW src, NEW m, Is(d, src, "set"), m \in d[src].value.members
    PROVE  /\ IsStore(Left(d, src, m))
           /\ DOMAIN Left(d, src, m) = IF d[src].value.members = {m} THEN DOMAIN d \ {src} ELSE DOMAIN d
           /\ \A j \in DOMAIN Left(d, src, m) : Left(d, src, m)[j].expires_at = d[j].expires_at
           /\ Drop(Left(d, src, m), src) = Drop(d, src)
<1>0. Has(d, src) /\ IsEntry(d[src])
  BY DEF Is, IsStore, Has
<1>1. CASE d[src].value.members = {m}
  <2>1. Left(d, src, m) = Drop(d, src)
    BY <1>1 DEF Left
  <2>2. Drop(Left(d, src, m), src) = Drop(d, src)
    BY <2>1 DEF Drop, Forget
  <2>3. IsStore(Left(d, src, m))
    BY <2>1, StoreKept
  <2>4. DOMAIN Left(d, src, m) = DOMAIN d \ {src} /\ \A j \in DOMAIN Left(d, src, m) : Left(d, src, m)[j] = d[j]
    BY <2>1 DEF Drop, Forget
  <2> QED
    BY <1>1, <2>2, <2>3, <2>4
<1>2. CASE d[src].value.members # {m}
  <2>1. Left(d, src, m) = Update(d, src, SetValue(d[src].value.members \ {m}))
    BY <1>2 DEF Left
  <2>2. Filled(SetValue(d[src].value.members \ {m}))
    <3>1. d[src].value.members \ {m} # {}
      BY <1>2
    <3> QED
      BY <3>1, FilledScalars
  <2>3. IsStore(Left(d, src, m))
    BY <1>0, <2>1, <2>2, UpdateStore
  <2>4. /\ DOMAIN Left(d, src, m) = DOMAIN d /\ Left(d, src, m)[src].expires_at = d[src].expires_at
        /\ \A j \in DOMAIN d \ {src} : Left(d, src, m)[j] = d[j]
    BY <1>0, <2>1, UpdateParts
  <2>5. Drop(Left(d, src, m), src) = Drop(d, src)
    BY <2>4 DEF Drop, Forget
  <2> QED
    BY <1>2, <2>3, <2>4, <2>5
<1> QED
  BY <1>1, <1>2


LEMMA SetMoveParts ==
    ASSUME NEW d, IsStore(d), NEW src \in Keys, NEW dst \in Keys, NEW m
    PROVE  LET r == SetMove(d, src, dst, m)
           IN  /\ IsStore(r.data)
               /\ IsError(r.reply) => Drop(r.data, src) = Drop(d, src)
               /\ \A j \in DOMAIN d \cap DOMAIN r.data :
                     ~(j = src /\ Is(d, src, "set") /\ d[src].value.members = {m})
                     => r.data[j].expires_at = d[j].expires_at
<1> DEFINE s    == d[src].value.members
           left == UpdateOrDrop(d, src, SetValue(s \ {m}), s = {m})
           r    == SetMove(d, src, dst, m)
           Fits(x) == /\ IsStore(x.data)
                      /\ IsError(x.reply) => Drop(x.data, src) = Drop(d, src)
                      /\ \A j \in DOMAIN d \cap DOMAIN x.data :
                            ~(j = src /\ Is(d, src, "set") /\ s = {m})
                            => x.data[j].expires_at = d[j].expires_at
<1>1. CASE ~(Is(d, src, "set") /\ m \in s)
  <2>1. r.data = d
    BY <1>1, ResultParts DEF SetMove, WrongType, Is
  <2> HIDE DEF r
  <2>2. Fits(r)
    BY <2>1
  <2> QED
    BY <2>2 DEF r
<1>2. CASE Is(d, src, "set") /\ m \in s
  <2>0. r = IF ~Has(left, dst) THEN Result(Insert(left, dst, SetValue({m}), None), Integer(1))
            ELSE IF Is(left, dst, "set")
            THEN Result(Update(left, dst, SetValue(left[dst].value.members \cup {m})), Integer(1))
            ELSE WrongType(left)
    BY <1>2 DEF SetMove, Is
  <2>1. /\ IsStore(left)
        /\ DOMAIN left = IF s = {m} THEN DOMAIN d \ {src} ELSE DOMAIN d
        /\ \A j \in DOMAIN left : left[j].expires_at = d[j].expires_at
        /\ Drop(left, src) = Drop(d, src)
    <3>1. left = Left(d, src, m)
      BY DEF UpdateOrDrop, Left
    <3> HIDE DEF left
    <3>2. /\ IsStore(Left(d, src, m))
          /\ DOMAIN Left(d, src, m) = IF s = {m} THEN DOMAIN d \ {src} ELSE DOMAIN d
          /\ \A j \in DOMAIN Left(d, src, m) : Left(d, src, m)[j].expires_at = d[j].expires_at
          /\ Drop(Left(d, src, m), src) = Drop(d, src)
      BY <1>2, MoveLeaves
    <3> QED
      BY <3>1, <3>2
  <2> HIDE DEF left, r
  <2>2. CASE ~Has(left, dst)
    <3> DEFINE x == Insert(left, dst, SetValue({m}), None)
    <3>1. r.data = x /\ ~IsError(r.reply)
      <4>1. r = Result(x, Integer(1))
        BY <2>0, <2>2 DEF Is
      <4> QED
        BY <4>1, ResultParts, ReplyKinds
    <3>2. IsStore(x)
      <4>1. Filled(SetValue({m}))
        <5>1. {m} # {}
          OBVIOUS
        <5> QED
          BY <5>1, FilledScalars
      <4> QED
        BY <4>1, <2>1, InsertStore
    <3>3. DOMAIN x = DOMAIN left \cup {dst} /\ \A j \in DOMAIN left : x[j] = left[j]
      <4>1. dst \notin DOMAIN left
        BY <2>2 DEF Has
      <4> QED
        BY <4>1 DEF Insert, Put
    <3> HIDE DEF x
    <3>4. ASSUME NEW j \in DOMAIN d \cap DOMAIN r.data, ~(j = src /\ s = {m})
          PROVE  r.data[j].expires_at = d[j].expires_at
      <4>1. j \in DOMAIN left
        BY <2>1, <3>4
      <4> QED
        BY <4>1, <2>1, <3>1, <3>3
    <3>5. Fits(r)
      BY <1>2, <3>1, <3>2, <3>4
    <3> QED
      BY <3>5 DEF r
  <2>3. CASE Is(left, dst, "set")
    <3> DEFINE v == SetValue(left[dst].value.members \cup {m})
               x == Update(left, dst, v)
    <3>0. Has(left, dst) /\ IsEntry(left[dst])
      BY <2>1, <2>3 DEF Is, IsStore, Has
    <3>1. r.data = x /\ ~IsError(r.reply)
      BY <3>0, <2>0, <2>3, ResultParts, ReplyKinds
    <3>2. Filled(v)
      <4>1. left[dst].value.members \cup {m} # {}
        OBVIOUS
      <4> QED
        BY <4>1, FilledScalars
    <3> HIDE DEF v
    <3>3. IsStore(x)
      BY <3>0, <3>2, <2>1, UpdateStore
    <3>4. DOMAIN x = DOMAIN left /\ \A j \in DOMAIN left : x[j].expires_at = left[j].expires_at
      BY <3>0, UpdateParts
    <3> HIDE DEF x
    <3>5. Fits(r)
      BY <2>1, <3>1, <3>3, <3>4
    <3> QED
      BY <3>5 DEF r
  <2>4. CASE Has(left, dst) /\ ~Is(left, dst, "set")
    <3>1. r.data = left
      BY <2>0, <2>4, ResultParts DEF WrongType
    <3>2. Fits(r)
      BY <2>1, <3>1
    <3> QED
      BY <3>2 DEF r
  <2> QED
    BY <2>2, <2>3, <2>4
<1> QED
  BY <1>1, <1>2

LEMMA PurgeDrop ==
    ASSUME NEW d, NEW k, NEW t
    PROVE  Drop(PurgeExpiredAll(d, t), k) = PurgeExpiredAll(Drop(d, k), t)
<1>1. Drop(PurgeExpiredAll(d, t), k) = [j \in Visible(d, t) \ {k} |-> d[j]]
  BY DEF Drop, PurgeExpiredAll, Forget, Visible
<1>2. PurgeExpiredAll(Drop(d, k), t) = [j \in Visible(Drop(d, k), t) |-> Drop(d, k)[j]]
  BY DEF PurgeExpiredAll, Forget, Visible
<1>3. Visible(Drop(d, k), t) = Visible(d, t) \ {k}
  BY DEF Visible, Drop, Forget
<1>4. \A j \in Visible(d, t) \ {k} : Drop(d, k)[j] = d[j]
  BY DEF Visible, Drop, Forget
<1> QED
  BY <1>1, <1>2, <1>3, <1>4


----------------------------------------------------------------------------
(* One command.                                                            *)

Inv == IsStore(db) /\ now \in Int /\ scope \in Scopes

\* The source of an SMOVE that has one element
OneElement(cmd, k, j) ==
    cmd = "SMOVE" /\ k = j /\ Is(db, j, "set") /\ Cardinality(db[j].value.members) = 1

\* What command cmd on key k may do when it leaves and answers r.
Fine(cmd, k, r) ==
    /\ IsStore(r.data)
    /\ IsError(r.reply) => \/ PurgeExpiredAll(r.data, now) = PurgeExpiredAll(db, now)
                           \/ /\ cmd = "SMOVE"
                              /\ Drop(PurgeExpiredAll(r.data, now), k) = Drop(PurgeExpiredAll(db, now), k)
    /\ \A j \in Visible(db, now) \cap DOMAIN r.data :
          cmd \notin {"SET", "EXPIRE", "PERSIST"} /\ ~OneElement(cmd, k, j)
          => r.data[j].expires_at = db[j].expires_at

FineStep == \E cmd, k, r : Answer(cmd, k, r) /\ Fine(cmd, k, r)

LEMMA GoodIsFine ==
    ASSUME NEW cmd, NEW k, NEW r, Good(db, now, r)
    PROVE  Fine(cmd, k, r)
  BY DEF Good, Fine

LEMMA ScopeKeys ==
    ASSUME Inv
    PROVE  scope.keys \subseteq Keys
  BY KeyspaceAssumption DEF Inv

\* Every method called on its key after the prologue is such a step.
LEMMA MethodStep ==
    ASSUME Inv, NEW k \in scope.keys
    PROVE  /\ \A cmd, r : Answer(cmd, k, r) /\ Shape(At(k), k, r) => FineStep
           /\ Sound(At(k), k)
<1>0. k \in Keys
  BY ScopeKeys
<1>1. ASSUME NEW cmd, NEW r, Answer(cmd, k, r), Shape(At(k), k, r) PROVE FineStep
  <2>1. Good(db, now, r)
    BY <1>0, <1>1, MethodGood DEF At, Inv
  <2> QED
    BY <1>1, <2>1, GoodIsFine DEF FineStep
<1>2. Sound(At(k), k)
  BY StoreKept DEF At, Inv
<1> QED
  BY <1>1, <1>2

LEMMA StringFine == Inv /\ StringCommand => FineStep
<1> SUFFICES ASSUME Inv, StringCommand PROVE FineStep
  OBVIOUS
<1>1. PICK k \in scope.keys :
         \/ Answer("GET", k, GetString(At(k), k))
         \/ Answer("STRLEN", k, StrLen(At(k), k))
         \/ \E b \in scope.strings : Answer("SETNX", k, SetNx(At(k), k, b))
         \/ TailRoom(k) /\ Answer("APPEND", k, AppendBytes(At(k), k, 1))
         \/ \E n \in Deltas : \/ Answer("INCRBY", k, IncrBy(At(k), k, n))
                              \/ Answer("DECRBY", k, IncrBy(At(k), k, WrappingNeg(n)))
  BY DEF StringCommand
<1> QED
  BY <1>1, MethodStep, StringShapes

LEMMA HashFine == Inv /\ HashCommand => FineStep
<1> SUFFICES ASSUME Inv, HashCommand PROVE FineStep
  OBVIOUS
<1>1. PICK k \in scope.keys :
         \/ Answer("HLEN", k, HashLen(At(k), k))
         \/ Answer("HGETALL", k, HashGetAll(At(k), k))
         \/ \E fs \in (SUBSET Fields) \ {{}} : Answer("HDEL", k, HashDel(At(k), k, fs))
         \/ \E f \in Fields :
               \/ Answer("HGET", k, HashGet(At(k), k, f))
               \/ Answer("HEXISTS", k, HashExists(At(k), k, f))
               \/ \E b \in scope.strings : \/ Answer("HSET", k, HashSet(At(k), k, f, b))
                                           \/ Answer("HSETNX", k, HashSetNx(At(k), k, f, b))
               \/ \E n \in Deltas : Answer("HINCRBY", k, HashIncrBy(At(k), k, f, n))
  BY DEF HashCommand
<1> QED
  BY <1>1, MethodStep, HashShapes

LEMMA ZSetFine == Inv /\ ZSetCommand => FineStep
<1> SUFFICES ASSUME Inv, ZSetCommand PROVE FineStep
  OBVIOUS
<1>1. PICK k \in scope.keys :
         \/ Answer("ZCARD", k, ZCard(At(k), k))
         \/ \E ms \in (SUBSET Elems) \ {{}} : Answer("ZREM", k, ZRem(At(k), k, ms))
         \/ \E m, score \in Elems : Answer("ZADD", k, ZAdd(At(k), k, score, m))
         \/ \E i, j \in Indices : Answer("ZRANGE", k, ZRange(At(k), k, i, j))
  BY DEF ZSetCommand
<1> QED
  BY <1>1, MethodStep, ZSetShapes

LEMMA StreamFine == Inv /\ StreamCommand => FineStep
<1> SUFFICES ASSUME Inv, StreamCommand PROVE FineStep
  OBVIOUS
<1>1. PICK k \in scope.keys :
         \/ Answer("XLEN", k, StreamLen(At(k), k))
         \/ \E whole \in BOOLEAN :
               \/ Answer("XRANGE", k, StreamRange(At(k), k, whole))
               \/ Answer("XREVRANGE", k, StreamRevRange(At(k), k, whole))
         \/ \E auto \in BOOLEAN, v \in Elems :
               Room(k, 1) /\ Answer("XADD", k, StreamAdd(At(k), k, auto, v))
         \/ \E ids \in (SUBSET (1 .. MaxLen)) \ {{}} : Answer("XDEL", k, StreamDel(At(k), k, ids))
  BY DEF StreamCommand
<1>2. Sound(At(k), k)
  BY MethodStep
<1> QED
  BY <1>1, <1>2, MethodStep, StreamShapes

LEMMA ListFine == Inv /\ ListCommand => FineStep
<1> SUFFICES ASSUME Inv, ListCommand PROVE FineStep
  OBVIOUS
<1>1. PICK k \in scope.keys :
         \/ Answer("LLEN", k, ListLen(At(k), k))
         \/ \E left \in BOOLEAN :
               \/ Answer("POP", k, ListPop(At(k), k, left))
               \/ \E vs \in Values :
                     /\ Room(k, Len(vs))
                     /\ \/ Answer("PUSH", k, ListPush(At(k), k, vs, left))
                        \/ Answer("PUSHX", k, ListPushX(At(k), k, vs, left))
               \/ \E v, pivot \in Elems :
                     Room(k, 1) /\ Answer("LINSERT", k, ListInsert(At(k), k, left, pivot, v))
         \/ \E i \in Indices :
               \/ Answer("LINDEX", k, ListIndex(At(k), k, i))
               \/ \E v \in Elems : \/ Answer("LSET", k, ListSet(At(k), k, i, v))
                                   \/ Answer("LREM", k, ListRem(At(k), k, i, v))
               \/ \E j \in Indices : \/ Answer("LRANGE", k, ListRange(At(k), k, i, j))
                                     \/ Answer("LTRIM", k, ListTrim(At(k), k, i, j))
  BY DEF ListCommand
<1>2. Sound(At(k), k)
  BY MethodStep
<1>3. \A vs \in Values : IsSeq(vs) /\ vs # <<>>
  <2>1. \A v, w : IsSeq(<<v>>) /\ IsSeq(<<v, w>>) /\ <<v>> # <<>> /\ <<v, w>> # <<>>
    BY UnitSeq
  <2>2. \A vs \in Values : (\E v \in Elems : vs = <<v>>) \/ (\E v, w \in Elems : vs = <<v, w>>)
    BY DEF Values
  <2> SUFFICES ASSUME NEW vs \in Values PROVE IsSeq(vs) /\ vs # <<>>
    OBVIOUS
  <2>3. CASE \E v \in Elems : vs = <<v>>
    BY <2>1, <2>3
  <2>4. CASE \E v, w \in Elems : vs = <<v, w>>
    BY <2>1, <2>4
  <2> QED
    BY <2>2, <2>3, <2>4
<1>4. \A vs \in Values, left \in BOOLEAN :
         Shape(At(k), k, ListPush(At(k), k, vs, left)) /\ Shape(At(k), k, ListPushX(At(k), k, vs, left))
  BY <1>2, <1>3, PushShapes
<1>5. Indices \subseteq Int
  BY KeyspaceAssumption
<1>6. /\ \A left \in BOOLEAN : Shape(At(k), k, ListPop(At(k), k, left))
      /\ \A before \in BOOLEAN : \A p, v : Shape(At(k), k, ListInsert(At(k), k, before, p, v))
      /\ \A i, v : Shape(At(k), k, ListSet(At(k), k, i, v)) /\ Shape(At(k), k, ListRem(At(k), k, i, v))
      /\ \A i, j \in Int : Shape(At(k), k, ListTrim(At(k), k, i, j))
  BY <1>2, ListShapes
<1>7. \A cmd, r : Answer(cmd, k, r) /\ Shape(At(k), k, r) => FineStep
  BY MethodStep
<1> QED
  BY <1>1, <1>4, <1>5, <1>6, <1>7, ListReads

LEMMA SetFine == Inv /\ SetCommand => FineStep
<1> SUFFICES ASSUME Inv, SetCommand PROVE FineStep
  OBVIOUS
<1>1. PICK k \in scope.keys :
         \/ Answer("SMEMBERS", k, SetMembers(At(k), k))
         \/ Answer("SCARD", k, SetCard(At(k), k))
         \/ \E ms \in (SUBSET Elems) \ {{}} :
               \/ Answer("SADD", k, SetAdd(At(k), k, ms))
               \/ Answer("SREM", k, SetRemove(At(k), k, ms))
         \/ \E m \in Elems :
               \/ Answer("SISMEMBER", k, SetIsMember(At(k), k, m))
               \/ \E dst \in scope.keys :
                     Answer("SMOVE", k, SetMove(Evict(At(k), dst, now), k, dst, m))
  BY DEF SetCommand
<1>2. ASSUME NEW m, NEW dst \in scope.keys
      PROVE  Fine("SMOVE", k, SetMove(Evict(At(k), dst, now), k, dst, m))
  <2> DEFINE d == Evict(At(k), dst, now)
             r == SetMove(d, k, dst, m)
  <2>1. k \in Keys /\ dst \in Keys /\ IsStore(db)
    BY ScopeKeys DEF Inv
  <2>2. IsStore(d)
    BY <2>1, StoreKept DEF At
  <2>3. Visible(d, now) = Visible(db, now) /\ PurgeExpiredAll(d, now) = PurgeExpiredAll(db, now)
    BY EvictInvisible DEF At
  <2>4. \A j \in DOMAIN d : d[j] = db[j] /\ j \in DOMAIN db
    BY DEF At, Evict, Drop, Forget
  <2> HIDE DEF d
  <2>5. /\ IsStore(r.data)
        /\ IsError(r.reply) => Drop(r.data, k) = Drop(d, k)
        /\ \A j \in DOMAIN d \cap DOMAIN r.data :
              ~(j = k /\ Is(d, k, "set") /\ d[k].value.members = {m})
              => r.data[j].expires_at = d[j].expires_at
    BY <2>1, <2>2, SetMoveParts
  <2> HIDE DEF r
  <2>6. IsError(r.reply) => Drop(PurgeExpiredAll(r.data, now), k) = Drop(PurgeExpiredAll(db, now), k)
    <3> SUFFICES ASSUME IsError(r.reply)
                 PROVE  Drop(PurgeExpiredAll(r.data, now), k) = Drop(PurgeExpiredAll(d, now), k)
      BY <2>3
    <3>1. Drop(r.data, k) = Drop(d, k)
      BY <2>5
    <3>2. Drop(PurgeExpiredAll(r.data, now), k) = PurgeExpiredAll(Drop(r.data, k), now)
      BY PurgeDrop
    <3>3. Drop(PurgeExpiredAll(d, now), k) = PurgeExpiredAll(Drop(d, k), now)
      BY PurgeDrop
    <3> QED
      BY <3>1, <3>2, <3>3
  <2>7. ASSUME NEW j \in Visible(db, now) \cap DOMAIN r.data, ~OneElement("SMOVE", k, j)
        PROVE  r.data[j].expires_at = db[j].expires_at
    <3>1. j \in DOMAIN d /\ d[j] = db[j]
      BY <2>3, <2>4 DEF Visible
    <3>2. ~(j = k /\ Is(d, k, "set") /\ d[k].value.members = {m})
      <4> SUFFICES ASSUME j = k, Is(d, k, "set"), d[k].value.members = {m} PROVE FALSE
        OBVIOUS
      <4>1. Cardinality({m}) = 1
        BY FS_Singleton
      <4>2. Is(db, k, "set") /\ db[k].value.members = {m}
        BY <3>1, <2>4 DEF Is, Has
      <4> QED
        BY <4>1, <4>2, <2>7 DEF OneElement
    <3> QED
      BY <3>1, <3>2, <2>5
  <2>8. Fine("SMOVE", k, r)
    BY <2>5, <2>6, <2>7 DEF Fine
  <2> QED
    BY <2>8 DEF r, d
<1>3. \A ms \in (SUBSET Elems) \ {{}} : Shape(At(k), k, SetAdd(At(k), k, ms))
  <2> TAKE ms \in (SUBSET Elems) \ {{}}
  <2>1. ms # {}
    OBVIOUS
  <2>2. \A d : Shape(d, k, SetAdd(d, k, ms))
    BY <2>1, SetShapes
  <2> QED
    BY <2>2
<1>4. \A cmd, r : Answer(cmd, k, r) /\ Fine(cmd, k, r) => FineStep
  BY DEF FineStep
<1>5. \A cmd, r : Answer(cmd, k, r) /\ Shape(At(k), k, r) => FineStep
  BY MethodStep
<1> QED
  BY <1>1, <1>2, <1>3, <1>4, <1>5, SetShapes


LEMMA DeadlineStore ==
    ASSUME NEW d, IsStore(d), NEW k, Has(d, k), NEW at \in Int \cup {None}
    PROVE  IsStore([d EXCEPT ![k].expires_at = at])
<1> DEFINE e == [d EXCEPT ![k].expires_at = at]
<1>1. IsEntry(d[k]) /\ k \in DOMAIN d
  BY DEF IsStore, Has
<1>2. e[k] = Entry(d[k].value, at)
  <2>1. e[k] = [d[k] EXCEPT !.expires_at = at]
    BY <1>1
  <2> QED
    BY <1>1, <2>1, EntryExcept DEF IsEntry
<1>3. DOMAIN e = DOMAIN d /\ \A j \in DOMAIN d \ {k} : e[j] = d[j]
  OBVIOUS
<1> HIDE DEF e
<1>4. IsEntry(e[k])
  BY <1>1, <1>2 DEF IsEntry, Entry
<1>5. IsStore(e)
  BY <1>3, <1>4 DEF IsStore
<1> QED
  BY <1>5 DEF e

LEMMA SetsDeadline ==
    ASSUME NEW cmd \in {"SET", "EXPIRE", "PERSIST"}, NEW k, NEW r, IsStore(r.data), ~IsError(r.reply)
    PROVE  Fine(cmd, k, r)
  BY DEF Fine

LEMMA KeyFine == Inv /\ KeyCommand => FineStep
<1> SUFFICES ASSUME Inv, KeyCommand PROVE FineStep
  OBVIOUS
<1>0. IsStore(db) /\ now \in Int /\ Ttls \subseteq Int /\ Second \in Int
  BY KeyspaceAssumption DEF Inv
<1>1. ASSUME NEW k \in scope.keys, NEW b \in scope.strings, NEW at \in Deadlines, Set(k, b, at)
      PROVE  FineStep
  <2>1. at \in Int \cup {None} /\ k \in Keys
    <3>1. at = None \/ \E ttl \in Ttls : at = now + ttl
      BY <1>1 DEF Deadlines
    <3>2. \A ttl \in Ttls : now + ttl \in Int
      BY <1>0
    <3>3. k \in Keys
      BY ScopeKeys
    <3> QED
      BY <3>1, <3>2, <3>3
  <2>2. Filled(StringValue(b))
    BY FilledScalars
  <2>3. IsStore(Insert(db, k, StringValue(b), at))
    <3> DEFINE v == StringValue(b)
    <3> HIDE DEF v
    <3>1. \A x : Filled(x) => IsStore(Insert(db, k, x, at))
      BY <1>0, <2>1, InsertStore
    <3> QED
      BY <2>2, <3>1
  <2> DEFINE r == SetStringRef(db, k, b, at)
  <2>4. IsStore(r.data) /\ ~IsError(r.reply)
    BY <2>3, ResultParts, ReplyKinds DEF SetStringRef
  <2>5. Answer("SET", k, r)
    BY <1>1 DEF Set
  <2> HIDE DEF r
  <2> QED
    BY <2>4, <2>5, SetsDeadline DEF FineStep
<1>2. ASSUME NEW k \in scope.keys, Del(k) PROVE FineStep
  <2> DEFINE r == RemoveKey(db, k)
  <2>1. r.data = Drop(db, k) /\ ~IsError(r.reply) /\ Answer("DEL", k, r)
    BY <1>2, ResultParts, ReplyKinds DEF RemoveKey, Del
  <2> HIDE DEF r
  <2>2. IsStore(r.data)
    BY <1>0, <2>1, StoreKept
  <2>3. \A j \in DOMAIN r.data : r.data[j] = db[j]
    BY <2>1 DEF Drop, Forget
  <2>4. Good(db, now, r)
    BY <2>1, <2>2, <2>3 DEF Good
  <2> QED
    BY <2>1, <2>4, GoodIsFine DEF FineStep
<1>3. ASSUME NEW k \in scope.keys,
             NEW cmd, NEW r, Answer(cmd, k, r),
             \/ r = Exists(At(k), k) \/ r = TtlMs(At(k), k, now, Second)
             \/ r = TtlMs(At(k), k, now, 1) \/ r = ValueType(At(k), k)
      PROVE  FineStep
  <2>1. Shape(At(k), k, r)
    BY <1>3, ShapeSame DEF Exists, TtlMs, ValueType
  <2> QED
    BY <1>3, <2>1, MethodStep
<1>4. ASSUME NEW k \in scope.keys, PersistKey(k) PROVE FineStep
  <2> DEFINE r == Persist(At(k), k)
  <2>1. IsStore(At(k))
    BY <1>0, StoreKept DEF At
  <2>2. ~IsError(r.reply)
    BY ResultParts, ReplyKinds DEF Persist
  <2>3. IsStore(r.data)
    <3>1. CASE Has(At(k), k) /\ At(k)[k].expires_at # None
      <4>1. r.data = [At(k) EXCEPT ![k].expires_at = None]
        BY <3>1, ResultParts DEF Persist
      <4> HIDE DEF r
      <4> QED
        BY <3>1, <4>1, <2>1, DeadlineStore
    <3>2. CASE ~(Has(At(k), k) /\ At(k)[k].expires_at # None)
      <4>1. r.data = At(k)
        BY <3>2, ResultParts DEF Persist
      <4> QED
        BY <4>1, <2>1
    <3> QED
      BY <3>1, <3>2
  <2>4. Answer("PERSIST", k, r)
    BY <1>4 DEF PersistKey
  <2> HIDE DEF r
  <2> QED
    BY <2>2, <2>3, <2>4, SetsDeadline DEF FineStep
<1>5. ASSUME NEW k \in scope.keys, NEW ms \in Int, Answer("EXPIRE", k, SetExpireMs(db, k, now, ms))
      PROVE  FineStep
  <2> DEFINE r == SetExpireMs(db, k, now, ms)
  <2>2. ~IsError(r.reply)
    BY ResultParts, ReplyKinds DEF SetExpireMs
  <2>3. IsStore(r.data)
    <3>1. CASE Has(db, k)
      <4>1. r.data = [db EXCEPT ![k].expires_at = now + ms]
        BY <3>1, ResultParts DEF SetExpireMs
      <4>2. now + ms \in Int \cup {None}
        BY <1>0
      <4> HIDE DEF r
      <4> QED
        BY <3>1, <4>1, <4>2, <1>0, DeadlineStore
    <3>2. CASE ~Has(db, k)
      BY <3>2, <1>0, ResultParts DEF SetExpireMs
    <3> QED
      BY <3>1, <3>2
  <2> HIDE DEF r
  <2> QED
    BY <1>5, <2>2, <2>3, SetsDeadline DEF FineStep, r
<1>6. ASSUME NEW cmd, NEW r, Answer(cmd, None, r), ~IsError(r.reply),
             r.data = PurgeExpiredAll(db, now) \/ r.data = Forget(db, DOMAIN db)
      PROVE  FineStep
  <2>1. IsStore(r.data)
    <3>1. IsStore(PurgeExpiredAll(db, now))
      BY <1>0, StoreKept
    <3>2. IsStore(Forget(db, DOMAIN db))
      BY DEF IsStore, Forget
    <3> QED
      BY <1>6, <3>1, <3>2
  <2>2. \A j \in DOMAIN r.data : r.data[j] = db[j]
    BY <1>6 DEF PurgeExpiredAll, Forget
  <2>3. Good(db, now, r)
    BY <1>6, <2>1, <2>2 DEF Good
  <2> QED
    BY <1>6, <2>3, GoodIsFine DEF FineStep
<1>7. DbSize \/ KeysAll \/ FlushDb => FineStep
  <2>1. /\ KeyCount(PurgeExpiredAll(db, now)).data = PurgeExpiredAll(db, now)
        /\ ~IsError(KeyCount(PurgeExpiredAll(db, now)).reply)
        /\ KeyList(PurgeExpiredAll(db, now)).data = PurgeExpiredAll(db, now)
        /\ ~IsError(KeyList(PurgeExpiredAll(db, now)).reply)
        /\ Flush(db).data = Forget(db, DOMAIN db)
        /\ ~IsError(Flush(db).reply)
    BY ResultParts, ReplyKinds DEF KeyCount, KeyList, Flush
  <2> QED
    BY <1>6, <2>1 DEF DbSize, KeysAll, FlushDb
<1>8. ASSUME NEW k \in scope.keys, NEW ttl \in Ttls, Expire(k, ttl) \/ PExpire(k, ttl)
      PROVE  FineStep
  <2>1. ttl \in Int /\ ttl * Second \in Int
    BY <1>0
  <2> QED
    BY <2>1, <1>5, <1>8 DEF Expire, PExpire
<1>9. ASSUME NEW k \in scope.keys, Exist(k) \/ Ttl(k) \/ PTtl(k) \/ Type(k) PROVE FineStep
  BY <1>3, <1>9 DEF Exist, Ttl, PTtl, Type
<1> QED
  BY <1>1, <1>2, <1>4, <1>7, <1>8, <1>9 DEF KeyCommand

LEMMA CommandFine == Inv /\ Command => FineStep
  BY KeyFine, StringFine, ListFine, HashFine, SetFine, ZSetFine, StreamFine DEF Command


----------------------------------------------------------------------------
(* The invariant, and the three promises that follow from it.              *)

LEMMA SettleParts ==
    ASSUME NEW d, NEW t
    PROVE  /\ PurgeExpiredAll(Settle(d, t), t) = PurgeExpiredAll(d, t)
           /\ DOMAIN Settle(d, t) \subseteq DOMAIN d
           /\ \A k \in DOMAIN Settle(d, t) : Settle(d, t)[k] = d[k]
           /\ Visible(d, t) \subseteq DOMAIN Settle(d, t)
           /\ IsStore(d) => IsStore(Settle(d, t))
<1>1. CASE Eager
  <2>1. Settle(d, t) = PurgeExpiredAll(d, t)
    BY <1>1 DEF Settle
  <2>2. Visible(d, t) \subseteq DOMAIN d
    BY DEF Visible
  <2> QED
    BY <2>1, <2>2, PurgeTwice, PurgeParts, StoreKept
<1>2. CASE ~Eager
  BY <1>2 DEF Settle, Visible
<1> QED
  BY <1>1, <1>2

LEMMA InitInv == Init => Inv
<1> SUFFICES ASSUME Init PROVE Inv
  OBVIOUS
<1>1. DOMAIN db = {}
  BY DEF Init
<1> QED
  BY <1>1 DEF Init, Inv, IsStore

LEMMA NextInv == Inv /\ [Next]_vars => Inv'
<1> SUFFICES ASSUME Inv, [Next]_vars PROVE Inv'
  OBVIOUS
<1>1. CASE Command
  <2>1. PICK cmd, k, r : Answer(cmd, k, r) /\ Fine(cmd, k, r)
    BY <1>1, CommandFine DEF FineStep
  <2>2. db' = Settle(r.data, now) /\ now' = now /\ scope' = scope
    BY <2>1 DEF Answer
  <2>3. IsStore(r.data)
    BY <2>1 DEF Fine
  <2>4. IsStore(db')
    BY <2>2, <2>3, SettleParts
  <2> QED
    BY <2>2, <2>4 DEF Inv, IsStore
<1>2. CASE Tick
  <2>1. db' = Settle(db, now') /\ now' \in Int /\ scope' = scope
    BY <1>2 DEF Tick, Inv
  <2>2. IsStore(db')
    BY <2>1, SettleParts DEF Inv
  <2> QED
    BY <2>1, <2>2 DEF Inv, IsStore
<1>3. CASE UNCHANGED vars
  BY <1>3 DEF vars, Inv, IsStore
<1> QED
  BY <1>1, <1>2, <1>3 DEF Next

\* The inductive invariant: every entry holds a value as the methods leave it,
\* under a key of the model and with a deadline that is a number or none.
THEOREM KeyspaceInv == Spec => []Inv
<1> QED
  BY InitInv, NextInv, PTL DEF Spec

\* No list, set, hash or sorted set is ever left empty, whatever the keys, the
\* values and the sequence of commands.
THEOREM CollectionsFilled == Spec => []NoEmptyCollection
<1>1. Inv => NoEmptyCollection
  <2> SUFFICES ASSUME Inv, NEW k \in Keys, Has(db, k)
               PROVE  /\ Is(db, k, "list") => db[k].value.items # <<>>
                      /\ Is(db, k, "set") => db[k].value.members # {}
                      /\ Is(db, k, "hash") => DOMAIN db[k].value.fields # {}
                      /\ Is(db, k, "zset") => DOMAIN db[k].value.scores # {}
    BY DEF NoEmptyCollection, Is
  <2>1. Filled(db[k].value)
    BY DEF Inv, IsStore, IsEntry, Has
  <2> QED
    BY <2>1 DEF Filled, Is
<1> QED
  BY <1>1, KeyspaceInv, PTL

\* A command that answers with an error changes nothing a client can see, except
\* an SMOVE onto a key of another type, which has taken the member out.
THEOREM FailuresChangeNothing == Spec => FailedCommandChangesNothing
<1> DEFINE Kept == \/ Live' = Live
                   \/ /\ last'.cmd = "SMOVE"
                      /\ Drop(Live', last'.key) = Drop(Live, last'.key)
<1>1. Inv /\ [Next]_vars => [IsError(reply') => Kept]_vars
  <2> SUFFICES ASSUME Inv, Next, IsError(reply') PROVE Kept
    OBVIOUS
  <2>1. CASE Command
    <3>1. PICK cmd, k, r : Answer(cmd, k, r) /\ Fine(cmd, k, r)
      BY <2>1, CommandFine DEF FineStep
    <3>2. /\ db' = Settle(r.data, now) /\ now' = now /\ reply' = r.reply
          /\ last'.cmd = cmd /\ last'.key = k
      BY <3>1 DEF Answer
    <3>3. PurgeExpiredAll(Settle(r.data, now), now) = PurgeExpiredAll(r.data, now)
      BY SettleParts
    <3>4. Live' = PurgeExpiredAll(r.data, now) /\ Live = PurgeExpiredAll(db, now)
      BY <3>2, <3>3 DEF Live
    <3>5. \/ PurgeExpiredAll(r.data, now) = PurgeExpiredAll(db, now)
          \/ /\ cmd = "SMOVE"
             /\ Drop(PurgeExpiredAll(r.data, now), k) = Drop(PurgeExpiredAll(db, now), k)
      BY <3>1, <3>2 DEF Fine
    <3> QED
      BY <3>2, <3>4, <3>5
  <2>2. CASE Tick
    BY <2>2, ReplyKinds DEF Tick
  <2> QED
    BY <2>1, <2>2 DEF Next
<1> QED
  BY <1>1, KeyspaceInv, PTL DEF Spec, FailedCommandChangesNothing

\* A key that stays visible keeps its deadline unless the command sets deadlines
\* or is an SMOVE of a one-element set.
THEOREM DeadlinesKept == Spec => DeadlineKept
<1> DEFINE Kept == \A k \in Keys :
                      /\ Has(Live, k) /\ Has(Live, k)'
                      /\ last'.cmd \notin {"SET", "EXPIRE", "PERSIST"}
                      /\ ~OneElementMove(k)
                      => db'[k].expires_at = db[k].expires_at
<1>1. Inv /\ [Next]_vars => [Kept]_vars
  <2> SUFFICES ASSUME Inv, Next,
                      NEW j \in Keys, Has(Live, j), Has(Live, j)',
                      last'.cmd \notin {"SET", "EXPIRE", "PERSIST"}, ~OneElementMove(j)
               PROVE  db'[j].expires_at = db[j].expires_at
    OBVIOUS
  <2>0. j \in Visible(db, now) /\ j \in DOMAIN db'
    <3>1. DOMAIN PurgeExpiredAll(db, now) = Visible(db, now)
      BY PurgeParts
    <3>2. DOMAIN PurgeExpiredAll(db', now') = Visible(db', now')
      BY PurgeParts
    <3>3. Visible(db', now') \subseteq DOMAIN db'
      BY DEF Visible
    <3>4. j \in DOMAIN PurgeExpiredAll(db, now) /\ j \in DOMAIN PurgeExpiredAll(db', now')
      BY DEF Has, Live
    <3> QED
      BY <3>1, <3>2, <3>3, <3>4
  <2>1. CASE Command
    <3>1. PICK cmd, k, r : Answer(cmd, k, r) /\ Fine(cmd, k, r)
      BY <2>1, CommandFine DEF FineStep
    <3>2. /\ db' = Settle(r.data, now) /\ now' = now
          /\ last'.cmd = cmd /\ last'.key = k
      BY <3>1 DEF Answer
    <3>3. j \in DOMAIN r.data /\ db'[j] = r.data[j]
      BY <2>0, <3>2, SettleParts
    <3>4. ~OneElement(cmd, k, j)
      BY <3>2 DEF OneElement, OneElementMove
    <3> QED
      BY <2>0, <3>1, <3>2, <3>3, <3>4 DEF Fine
  <2>2. CASE Tick
    <3>1. db' = Settle(db, now')
      BY <2>2 DEF Tick
    <3> QED
      BY <2>0, <3>1, SettleParts
  <2> QED
    BY <2>1, <2>2 DEF Next
<1> QED
  BY <1>1, KeyspaceInv, PTL DEF Spec, DeadlineKept

----------------------------------------------------------------------------
(* Strings and integers.                                                   *)

LEMMA ViewParts ==
    ASSUME NEW d, NEW k, Has(d, k) => IsEntry(d[k])
    PROVE  LET s == StringView(d) IN
           /\ Has(s, k) <=> Has(d, k)
           /\ IsString(d, k) <=> IsString(s, k)
           /\ IsString(d, k) => /\ BytesOf(s[k].value) = BytesOf(d[k].value)
                                /\ s[k].expires_at = d[k].expires_at
                                /\ IsEntry(s[k]) /\ Is(s, k, "string")
           /\ ~IsString(d, k) /\ Has(d, k) => s[k] = d[k]
<1> DEFINE s == StringView(d)
<1>1. /\ Has(s, k) <=> Has(d, k)
      /\ Has(d, k) => s[k] = IF Is(d, k, "int")
                             THEN Entry(StringValue(BytesOf(d[k].value)), d[k].expires_at) ELSE d[k]
  BY DEF StringView, Has
<1> HIDE DEF s
<1>2. CASE Is(d, k, "int")
  <2>1. s[k] = Entry(StringValue(BytesOf(d[k].value)), d[k].expires_at) /\ Has(s, k)
    BY <1>1, <1>2 DEF Is
  <2>2. Is(s, k, "string") /\ BytesOf(s[k].value) = BytesOf(d[k].value) /\ s[k].expires_at = d[k].expires_at
    BY <2>1 DEF Is, BytesOf, Entry, StringValue
  <2>3. IsEntry(s[k])
    <3>1. d[k].expires_at \in Int \cup {None}
      BY <1>2 DEF Is, IsEntry
    <3> QED
      BY <2>1, <3>1, FilledScalars DEF IsEntry, Entry
  <2> QED
    BY <1>1, <1>2, <2>1, <2>2, <2>3 DEF IsString, s
<1>3. CASE ~Is(d, k, "int")
  BY <1>1, <1>3 DEF IsString, Is, s
<1> QED
  BY <1>2, <1>3

LEMMA ViewUpdate ==
    ASSUME NEW d, NEW k, IsString(d, k), IsEntry(d[k]), NEW v
    PROVE  StringView(Update(d, k, v)) = StringView(Update(StringView(d), k, v))
<1> DEFINE s == StringView(d)
           x == Update(d, k, v)
           y == Update(s, k, v)
<1>1. Has(d, k) /\ Has(s, k) /\ s[k].expires_at = d[k].expires_at /\ IsEntry(s[k])
  BY ViewParts DEF IsString, Is
<1>2. DOMAIN s = DOMAIN d /\ \A j \in DOMAIN d : ~Is(d, j, "int") => s[j] = d[j]
  BY DEF StringView
<1>3. \A j \in DOMAIN d : Is(d, j, "int") =>
        s[j] = Entry(StringValue(BytesOf(d[j].value)), d[j].expires_at)
  BY DEF StringView
<1> HIDE DEF s
<1>4. x[k] = Entry(v, d[k].expires_at) /\ y[k] = Entry(v, d[k].expires_at)
  BY <1>1, UpdateParts
<1>5. /\ DOMAIN x = DOMAIN d /\ DOMAIN y = DOMAIN d
      /\ \A j \in DOMAIN d \ {k} : x[j] = d[j] /\ y[j] = s[j]
  BY <1>1, <1>2, UpdateParts
<1> HIDE DEF x, y
<1> DEFINE View(u, j) == IF Is(u, j, "int") THEN Entry(StringValue(BytesOf(u[j].value)), u[j].expires_at)
                         ELSE u[j]
<1>6. ASSUME NEW j \in DOMAIN d PROVE View(x, j) = View(y, j)
  <2>1. CASE j = k
    BY <1>4, <1>5, <2>1 DEF Is, Has
  <2>2. CASE j # k /\ Is(d, j, "int")
    <3>1. s[j] = Entry(StringValue(BytesOf(d[j].value)), d[j].expires_at)
      BY <1>3, <2>2
    <3>2. ~Is(y, j, "int") /\ y[j] = s[j]
      BY <1>5, <2>2, <3>1 DEF Is, Has, Entry, StringValue
    <3>3. Is(x, j, "int") /\ x[j] = d[j]
      BY <1>5, <2>2 DEF Is, Has
    <3> QED
      BY <3>1, <3>2, <3>3
  <2>3. CASE j # k /\ ~Is(d, j, "int")
    <3>1. x[j] = d[j] /\ y[j] = d[j]
      BY <1>2, <1>5, <2>3
    <3> QED
      BY <1>5, <3>1 DEF Is, Has
  <2> QED
    BY <2>1, <2>2, <2>3
<1>7. StringView(x) = [j \in DOMAIN d |-> View(x, j)] /\ StringView(y) = [j \in DOMAIN d |-> View(y, j)]
  BY <1>5 DEF StringView
<1> HIDE DEF View
<1>8. StringView(x) = StringView(y)
  BY <1>6, <1>7
<1> QED
  BY <1>8 DEF x, y, s

LEMMA ViewTwice ==
    ASSUME NEW d
    PROVE  StringView(StringView(d)) = StringView(d)
<1> DEFINE s == StringView(d)
<1>1. DOMAIN s = DOMAIN d /\ \A j \in DOMAIN d : ~Is(s, j, "int")
  BY DEF StringView, Is, Has, Entry, StringValue
<1>2. s = [j \in DOMAIN d |-> s[j]]
  BY DEF StringView
<1> HIDE DEF s
<1>3. StringView(s) = [j \in DOMAIN d |-> s[j]]
  BY <1>1 DEF StringView
<1> QED
  BY <1>2, <1>3 DEF s

LEMMA ViewInsert ==
    ASSUME NEW d, NEW k, NEW v, NEW at, ~Has(d, k)
    PROVE  StringView(Insert(d, k, v, at)) = StringView(Insert(StringView(d), k, v, at))
<1> DEFINE s == StringView(d)
           x == Insert(d, k, v, at)
           y == Insert(s, k, v, at)
           View(u, j) == IF Is(u, j, "int") THEN Entry(StringValue(BytesOf(u[j].value)), u[j].expires_at)
                         ELSE u[j]
<1>1. DOMAIN s = DOMAIN d /\ \A j \in DOMAIN d : s[j] = View(d, j)
  BY DEF StringView
<1> HIDE DEF s
<1>2. /\ DOMAIN x = DOMAIN d \cup {k} /\ DOMAIN y = DOMAIN d \cup {k}
      /\ x[k] = Entry(v, at) /\ y[k] = Entry(v, at)
      /\ \A j \in DOMAIN d \ {k} : x[j] = d[j] /\ y[j] = s[j]
  <2>1. /\ DOMAIN x = DOMAIN d \cup {k} /\ x[k] = Entry(v, at)
        /\ \A j \in DOMAIN d \ {k} : x[j] = d[j]
    BY DEF Insert, Put
  <2>2. /\ DOMAIN y = DOMAIN s \cup {k} /\ y[k] = Entry(v, at)
        /\ \A j \in DOMAIN s \ {k} : y[j] = s[j]
    BY DEF Insert, Put
  <2> QED
    BY <1>1, <2>1, <2>2
<1> HIDE DEF x, y
<1>3. ASSUME NEW j \in DOMAIN d \cup {k} PROVE View(x, j) = View(y, j)
  <2>1. CASE j = k
    BY <1>2, <2>1 DEF Is, Has
  <2>2. CASE j # k /\ Is(d, j, "int")
    <3>1. s[j] = Entry(StringValue(BytesOf(d[j].value)), d[j].expires_at)
      BY <1>1, <2>2
    <3>2. ~Is(y, j, "int") /\ y[j] = s[j]
      BY <1>2, <2>2, <3>1 DEF Is, Has, Entry, StringValue
    <3>3. Is(x, j, "int") /\ x[j] = d[j]
      BY <1>2, <2>2 DEF Is, Has
    <3> QED
      BY <3>1, <3>2, <3>3
  <2>3. CASE j # k /\ ~Is(d, j, "int")
    <3>1. x[j] = d[j] /\ y[j] = d[j]
      BY <1>1, <1>2, <2>3
    <3> QED
      BY <1>2, <3>1 DEF Is, Has
  <2> QED
    BY <2>1, <2>2, <2>3
<1>4. /\ StringView(x) = [j \in DOMAIN d \cup {k} |-> View(x, j)]
      /\ StringView(y) = [j \in DOMAIN d \cup {k} |-> View(y, j)]
  BY <1>2 DEF StringView
<1> HIDE DEF View
<1>5. StringView(x) = StringView(y)
  BY <1>3, <1>4
<1> QED
  BY <1>5 DEF x, y, s

\* No string command can tell an integer that INCR stored from the same digits
\* stored by SET, whatever the store, the key and the increment.
THEOREM IntegersInvisible == Spec => []IntInvisible
<1>1. Inv => IntInvisible
  <2> SUFFICES ASSUME Inv, NEW k \in Keys
               PROVE  LET d == At(k)
                          s == StringView(d)
                      IN  /\ SameView(GetString(d, k), GetString(s, k))
                          /\ SameView(StrLen(d, k), StrLen(s, k))
                          /\ SameView(AppendBytes(d, k, 1), AppendBytes(s, k, 1))
                          /\ SameView(ValueType(d, k), ValueType(s, k))
                          /\ \A n \in Deltas : SameView(IncrBy(d, k, n), IncrBy(s, k, n))
    BY DEF IntInvisible
  <2> DEFINE d == At(k)
             s == StringView(d)
  <2>1. Has(d, k) => IsEntry(d[k])
    <3>1. IsStore(d)
      BY StoreKept DEF Inv, At
    <3> QED
      BY <3>1 DEF IsStore, Has
  <2> HIDE DEF d
  <2>2. /\ Has(s, k) <=> Has(d, k)
        /\ IsString(d, k) <=> IsString(s, k)
        /\ IsString(d, k) => BytesOf(s[k].value) = BytesOf(d[k].value)
    BY <2>1, ViewParts
  <2>3. \A x : SameView(Result(d, x), Result(s, x))
    BY ViewTwice, ResultParts DEF SameView
  <2>4. IsString(d, k) => \A v, x : SameView(Result(Update(d, k, v), x), Result(Update(s, k, v), x))
    <3> SUFFICES ASSUME IsString(d, k), NEW v
                 PROVE  StringView(Update(d, k, v)) = StringView(Update(s, k, v))
      BY ResultParts DEF SameView
    <3>1. IsEntry(d[k])
      BY <2>1 DEF IsString, Is
    <3> QED
      BY <3>1, ViewUpdate
  <2>5. ~Has(d, k) => \A v, x : SameView(Result(Insert(d, k, v, None), x), Result(Insert(s, k, v, None), x))
    BY ViewInsert, ResultParts DEF SameView
  <2>6. SameView(ValueType(d, k), ValueType(s, k))
    <3>1. CASE IsString(d, k)
      <4>1. Is(s, k, "string") /\ Has(d, k)
        BY <2>1, <3>1, ViewParts DEF IsString, Is
      <4>2. ValueType(d, k) = Result(d, Simple("string"))
        BY <3>1, <4>1 DEF ValueType, IsString, Is
      <4>3. ValueType(s, k) = Result(s, Simple("string"))
        BY <4>1 DEF ValueType, Is
      <4> QED
        BY <2>3, <4>2, <4>3
    <3>2. CASE ~IsString(d, k)
      <4>1. Has(d, k) => s[k] = d[k]
        BY <2>1, <3>2, ViewParts
      <4> HIDE DEF s
      <4> QED
        BY <2>2, <2>3, <3>2, <4>1 DEF ValueType, IsString, Is
    <3> QED
      BY <3>1, <3>2
  <2> HIDE DEF s
  <2>7. SameView(GetString(d, k), GetString(s, k)) /\ SameView(StrLen(d, k), StrLen(s, k))
    BY <2>2, <2>3 DEF GetString, StrLen, WrongType
  <2>8. SameView(AppendBytes(d, k, 1), AppendBytes(s, k, 1))
    BY <2>2, <2>3, <2>4, <2>5 DEF AppendBytes, WrongType
  <2>9. \A n \in Deltas : SameView(IncrBy(d, k, n), IncrBy(s, k, n))
    BY <2>2, <2>3, <2>4, <2>5 DEF IncrBy, NotAnInteger
  <2> QED
    BY <2>6, <2>7, <2>8, <2>9 DEF d, s
<1> QED
  BY <1>1, KeyspaceInv, PTL

----------------------------------------------------------------------------
(* Types.  A typed value is one of the kinds of values with contents of    *)
(* their types and within the bounds; what the methods build from typed    *)
(* values and the arguments of the commands is typed.                      *)

ListItems(s) == s \in Seq(Elems) /\ Len(s) <= MaxLen
FieldBytes(f) == DOMAIN f \subseteq Fields /\ \A x \in DOMAIN f : f[x] \in Bytes
MemberScores(f) == DOMAIN f \subseteq Elems /\ \A x \in DOMAIN f : f[x] \in Elems
StreamItems(s) == IsSeq(s) /\ Len(s) <= MaxLen

TypedValue(v) ==
    \/ \E b \in Bytes : v = StringValue(b)
    \/ \E n \in I64 : v = IntValue(n)
    \/ \E s : ListItems(s) /\ v = ListValue(s)
    \/ \E s : s \subseteq Elems /\ v = SetValue(s)
    \/ \E f : FieldBytes(f) /\ v = HashValue(f)
    \/ \E f : MemberScores(f) /\ v = ZSetValue(f)
    \/ \E s : StreamItems(s) /\ v = StreamValue(s)

LEMMA TypedParts ==
    ASSUME NEW v, TypedValue(v)
    PROVE  /\ v.type \in {"string", "int", "list", "set", "hash", "zset", "stream"}
           /\ v.type = "string" => v.bytes \in Bytes /\ v = StringValue(v.bytes)
           /\ v.type = "int" => v.n \in I64 /\ v = IntValue(v.n)
           /\ v.type = "list" => ListItems(v.items)
           /\ v.type = "set" => v.members \subseteq Elems
           /\ v.type = "hash" => FieldBytes(v.fields)
           /\ v.type = "zset" => MemberScores(v.scores)
           /\ v.type = "stream" => StreamItems(v.entries)
<1>1. CASE \E b \in Bytes : v = StringValue(b)
  BY <1>1 DEF StringValue
<1>2. CASE \E n \in I64 : v = IntValue(n)
  BY <1>2 DEF IntValue
<1>3. CASE \E s : ListItems(s) /\ v = ListValue(s)
  BY <1>3 DEF ListValue
<1>4. CASE \E s : s \subseteq Elems /\ v = SetValue(s)
  BY <1>4 DEF SetValue
<1>5. CASE \E f : FieldBytes(f) /\ v = HashValue(f)
  BY <1>5 DEF HashValue
<1>6. CASE \E f : MemberScores(f) /\ v = ZSetValue(f)
  BY <1>6 DEF ZSetValue
<1>7. CASE \E s : StreamItems(s) /\ v = StreamValue(s)
  BY <1>7 DEF StreamValue
<1> QED
  BY <1>1, <1>2, <1>3, <1>4, <1>5, <1>6, <1>7 DEF TypedValue

----------------------------------------------------------------------------
(* Integers stay in their width.                                           *)

LEMMA IntRange ==
    /\ MinInt \in Int /\ MaxInt \in Int /\ 2 ^ Width \in Int
    /\ MinInt <= 0 /\ 0 <= MaxInt /\ 2 ^ Width = MaxInt - MinInt + 1
    /\ 0 \in I64 /\ I64 \subseteq Int
<1>1. Width - 1 \in Nat /\ Width \in Nat
  BY ShardAssumption
<1>2. 2 ^ (Width - 1) \in Int /\ 2 ^ Width \in Int
  BY <1>1
<1> QED
  BY <1>2, PowersOfTwo DEF MinInt, MaxInt, I64

LEMMA SaturatedInRange ==
    ASSUME NEW m \in I64, NEW n \in I64
    PROVE  SaturatingAdd(m, n) \in I64
<1>1. m \in Int /\ n \in Int /\ MinInt \in Int /\ MaxInt \in Int /\ MinInt <= MaxInt
  BY IntRange
<1> QED
  BY <1>1 DEF SaturatingAdd, I64

LEMMA WrappedInRange ==
    ASSUME NEW m \in Int, NEW n \in Int
    PROVE  WrappingAdd(m, n) \in I64
<1> DEFINE a == m + n - MinInt
           b == 2 ^ Width
<1>1. a \in Int /\ b \in Nat \ {0} /\ MinInt \in Int /\ MaxInt \in Int /\ b = MaxInt - MinInt + 1
  BY IntRange
<1> HIDE DEF a, b
<1>2. (a % b) \in 0 .. (b - 1)
  BY <1>1
<1>3. (a % b) + MinInt \in I64
  BY <1>1, <1>2 DEF I64
<1> QED
  BY <1>3 DEF WrappingAdd, a, b

----------------------------------------------------------------------------
(* Byte strings.                                                           *)

LEMMA BytesTyped ==
    /\ \A n \in I64 : Numeral(n) \in Bytes
    /\ Text(1) \in Bytes
    /\ \A b \in Bytes : b.tail < MaxTail => [b EXCEPT !.tail = @ + 1] \in Bytes
    /\ \A b \in Bytes : ParseI64(b) = None \/ ParseI64(b) \in I64
<1>0. MaxTail \in Nat /\ MaxTail > 0
  BY KeyspaceAssumption, BytesAssumption
<1>1. \A n \in I64 : Numeral(n) \in Bytes
  BY <1>0 DEF Numeral, Bytes
<1>2. Text(1) \in Bytes
  BY <1>0 DEF Text, Bytes
<1>3. ASSUME NEW b \in Bytes, b.tail < MaxTail PROVE [b EXCEPT !.tail = @ + 1] \in Bytes
  <2>1. b.tail + 1 \in 0 .. MaxTail
    BY <1>0, <1>3 DEF Bytes
  <2> QED
    BY <2>1 DEF Bytes
<1>4. \A b \in Bytes : ParseI64(b) = None \/ ParseI64(b) \in I64
  BY DEF ParseI64, Bytes
<1> QED
  BY <1>1, <1>2, <1>3, <1>4

LEMMA ReadTyped ==
    ASSUME NEW v, TypedValue(v), v.type = "string" \/ v.type = "int"
    PROVE  BytesOf(v) \in Bytes
  BY TypedParts, BytesTyped DEF BytesOf

----------------------------------------------------------------------------
(* Sequences.                                                              *)

\* Every rank from 1 on is the rank of an element.
LEMMA RankOnto ==
    ASSUME NEW n \in Nat, NEW K \in SUBSET (1 .. n)
    PROVE  /\ Cardinality(K) \in Nat /\ Cardinality(K) <= n
           /\ \A i \in 1 .. Cardinality(K) : \E p \in K : Cardinality({q \in K : q <= p}) = i
<1> DEFINE c == Cardinality(K)
           upTo(p) == {q \in K : q <= p}
           rank == [p \in K |-> Cardinality(upTo(p))]
<1>1. IsFiniteSet(1 .. n) /\ Cardinality(1 .. n) = n
  BY FS_Interval
<1>2. IsFiniteSet(K) /\ c \in Nat /\ c <= n
  <2>1. IsFiniteSet(K) /\ Cardinality(K) <= Cardinality(1 .. n)
    BY <1>1, FS_Subset
  <2> QED
    BY <1>1, <2>1, FS_CardinalityType
<1>3. ASSUME NEW p \in K PROVE IsFiniteSet(upTo(p)) /\ Cardinality(upTo(p)) \in 1 .. c
  <2> DEFINE S == upTo(p)
  <2>1. S \in SUBSET K /\ p \in S
    OBVIOUS
  <2> HIDE DEF S
  <2>2. IsFiniteSet(S) /\ Cardinality(S) <= Cardinality(K) /\ Cardinality(S) \in Nat
    BY <2>1, <1>2, FS_Subset, FS_CardinalityType
  <2>3. Cardinality(S) # 0
    BY <2>1, <2>2, FS_EmptySet
  <2> QED
    BY <2>2, <2>3, <1>2 DEF S
<1>4. ASSUME NEW p \in K, NEW r \in K, p < r PROVE Cardinality(upTo(p)) < Cardinality(upTo(r))
  <2> DEFINE S == upTo(p)
             T == upTo(r)
  <2>0. p \in Int /\ r \in Int /\ K \subseteq Int
    OBVIOUS
  <2>1. S \in SUBSET T /\ r \in T /\ r \notin S
    <3>1. \A q \in K : q <= p => q <= r
      BY <1>4, <2>0
    <3>2. r <= r /\ ~(r <= p)
      BY <1>4, <2>0
    <3> QED
      BY <3>1, <3>2
  <2>2. IsFiniteSet(T) /\ Cardinality(S) \in Nat /\ Cardinality(T) \in Nat
    BY <1>3, <1>2
  <2> HIDE DEF S, T
  <2>3. Cardinality(S) <= Cardinality(T) /\ (Cardinality(T) = Cardinality(S) => T = S)
    BY <2>1, <2>2, FS_Subset
  <2>4. Cardinality(S) < Cardinality(T)
    BY <2>1, <2>2, <2>3
  <2> QED
    BY <2>4 DEF S, T
<1>5. rank \in Injection(K, 1 .. c)
  <2>1. rank \in [K -> 1 .. c]
    BY <1>3
  <2>2. ASSUME NEW p \in K, NEW r \in K, rank[p] = rank[r] PROVE p = r
    <3>1. Cardinality(upTo(p)) = Cardinality(upTo(r))
      BY <2>2
    <3>2. Cardinality(upTo(p)) \in Int
      BY <1>3, <1>2
    <3> HIDE DEF upTo
    <3> QED
      BY <3>1, <3>2, <1>4
  <2> HIDE DEF rank
  <2> QED
    BY <2>1, <2>2 DEF Injection, IsInjective
<1>6. IsFiniteSet(1 .. c) /\ Cardinality(1 .. c) = c
  BY <1>2, FS_Interval
<1>7. rank \in Surjection(K, 1 .. c)
  <2> HIDE DEF rank
  <2> QED
    BY <1>5, <1>6, FS_Injection
<1>8. ASSUME NEW i \in 1 .. c PROVE \E p \in K : Cardinality(upTo(p)) = i
  <2>1. \E p \in K : rank[p] = i
    <3> HIDE DEF rank
    <3> QED
      BY <1>7 DEF Surjection
  <2> QED
    BY <2>1
<1> QED
  BY <1>2, <1>8

LEMMA WithoutTyped ==
    ASSUME NEW S, NEW s \in Seq(S), NEW I
    PROVE  Without(s, I) \in Seq(S) /\ Len(Without(s, I)) <= Len(s)
<1> DEFINE kept == DOMAIN s \ I
           nth(i) == CHOOSE p \in kept : Cardinality({q \in kept : q <= p}) = i
<1>1. Len(s) \in Nat /\ DOMAIN s = 1 .. Len(s)
  BY LenProperties
<1>2. /\ Cardinality(kept) \in Nat /\ Cardinality(kept) <= Len(s)
      /\ \A i \in 1 .. Cardinality(kept) : \E p \in kept : Cardinality({q \in kept : q <= p}) = i
  <2>1. kept \in SUBSET (1 .. Len(s))
    BY <1>1
  <2> HIDE DEF kept
  <2> QED
    BY <1>1, <2>1, RankOnto
<1>3. Without(s, I) = [i \in 1 .. Cardinality(kept) |-> s[nth(i)]]
  BY DEF Without
<1>4. \A i \in 1 .. Cardinality(kept) : nth(i) \in DOMAIN s
  <2>1. \A i \in 1 .. Cardinality(kept) : nth(i) \in kept
    <3> HIDE DEF kept
    <3> QED
      BY <1>2
  <2> QED
    BY <2>1
<1>5. \A i \in 1 .. Cardinality(kept) : s[nth(i)] \in S
  BY <1>1, <1>4, ElementOfSeq
<1> HIDE DEF kept, nth
<1>6. [i \in 1 .. Cardinality(kept) |-> s[nth(i)]] \in Seq(S)
  BY <1>2, <1>5, IsASeq
<1>7. DOMAIN Without(s, I) = 1 .. Cardinality(kept)
  BY <1>3
<1>8. Without(s, I) \in Seq(S)
  BY <1>3, <1>6
<1>9. Len(Without(s, I)) = Cardinality(kept)
  BY <1>2, <1>7, <1>8, LenProperties
<1> QED
  BY <1>2, <1>8, <1>9

LEMMA ListsTyped ==
    ASSUME NEW s, ListItems(s)
    PROVE  /\ s # <<>> => ListItems(Tail(s)) /\ ListItems(Front(s))
           /\ \A i : \A v \in Elems : ListItems([s EXCEPT ![i] = v])
           /\ \A I : ListItems(Without(s, I))
           /\ \A a \in 1 .. Len(s) + 1, b \in 0 .. Len(s) : ListItems(SubSeq(s, a, b))
<1>0. s \in Seq(Elems) /\ Len(s) \in Nat /\ Len(s) <= MaxLen /\ DOMAIN s = 1 .. Len(s) /\ MaxLen \in Nat
  BY LenProperties, KeyspaceAssumption DEF ListItems
<1>1. ASSUME s # <<>> PROVE ListItems(Tail(s)) /\ ListItems(Front(s))
  <2>1. Tail(s) \in Seq(Elems) /\ Len(Tail(s)) = Len(s) - 1
    BY <1>0, <1>1, HeadTailProperties
  <2>2. Front(s) \in Seq(Elems) /\ Len(Front(s)) <= Len(s)
    <3>0. Len(s) # 0
      BY <1>0, <1>1, EmptySeq
    <3>1. \A i \in 1 .. Len(s) - 1 : s[i] \in Elems
      BY <1>0, ElementOfSeq
    <3>2. /\ SubSeq(s, 1, Len(s) - 1) \in Seq(Elems)
          /\ Len(SubSeq(s, 1, Len(s) - 1)) = IF 1 <= Len(s) - 1 THEN Len(s) - 1 ELSE 0
      BY <1>0, <3>1, SubSeqProperties
    <3> QED
      BY <1>0, <3>0, <3>2 DEF Front
  <2> QED
    BY <1>0, <2>1, <2>2 DEF ListItems
<1>2. ASSUME NEW i, NEW v \in Elems PROVE ListItems([s EXCEPT ![i] = v])
  <2> DEFINE t == [s EXCEPT ![i] = v]
  <2>1. DOMAIN t = 1 .. Len(s) /\ \A j \in 1 .. Len(s) : t[j] \in Elems
    BY <1>0, ElementOfSeq
  <2>2. t = [j \in 1 .. Len(s) |-> t[j]]
    BY <2>1
  <2> HIDE DEF t
  <2>3. [j \in 1 .. Len(s) |-> t[j]] \in Seq(Elems)
    BY <2>1, <1>0, IsASeq
  <2>4. t \in Seq(Elems) /\ Len(t) = Len(s)
    BY <1>0, <2>1, <2>2, <2>3, LenProperties
  <2> QED
    BY <1>0, <2>4 DEF ListItems, t
<1>3. ASSUME NEW I PROVE ListItems(Without(s, I))
  <2>1. Without(s, I) \in Seq(Elems) /\ Len(Without(s, I)) <= Len(s)
    BY <1>0, WithoutTyped
  <2>2. Len(Without(s, I)) \in Nat
    BY <2>1, LenProperties
  <2> QED
    BY <1>0, <2>1, <2>2 DEF ListItems
<1>4. ASSUME NEW a \in 1 .. Len(s) + 1, NEW b \in 0 .. Len(s) PROVE ListItems(SubSeq(s, a, b))
  <2>1. a \in Int /\ b \in Int /\ \A i \in a .. b : s[i] \in Elems
    BY <1>0, ElementOfSeq
  <2>2. SubSeq(s, a, b) \in Seq(Elems) /\ Len(SubSeq(s, a, b)) = IF a <= b THEN b - a + 1 ELSE 0
    BY <2>1, SubSeqProperties
  <2> QED
    BY <1>0, <2>1, <2>2 DEF ListItems
<1> QED
  BY <1>1, <1>2, <1>3, <1>4

LEMMA PushTyped ==
    ASSUME NEW s \in Seq(Elems), NEW vs \in Seq(Elems), NEW left \in BOOLEAN, Len(s) + Len(vs) <= MaxLen
    PROVE  ListItems(Push(s, vs, left))
<1>1. Len(s) \in Nat /\ Len(vs) \in Nat
  BY LenProperties
<1>2. Reverse(vs) \in Seq(Elems) /\ Len(Reverse(vs)) = Len(vs)
  <2>1. \A i \in 1 .. Len(vs) : vs[(Len(vs) - i) + 1] \in Elems
    BY <1>1, ElementOfSeq
  <2>2. [i \in 1 .. Len(vs) |-> vs[(Len(vs) - i) + 1]] \in Seq(Elems)
    BY <2>1, <1>1, IsASeq
  <2> QED
    BY <2>2, <1>1, LenProperties DEF Reverse
<1>3. \A x, y \in Seq(Elems) : x \o y \in Seq(Elems) /\ Len(x \o y) = Len(x) + Len(y)
  BY ConcatProperties
<1>4. Push(s, vs, left) \in Seq(Elems) /\ Len(Push(s, vs, left)) = Len(s) + Len(vs)
  BY <1>1, <1>2, <1>3 DEF Push
<1> QED
  BY <1>4 DEF ListItems

LEMMA InsertTyped ==
    ASSUME NEW s \in Seq(Elems), NEW v \in Elems, NEW at \in 1 .. Len(s) + 1, Len(s) + 1 <= MaxLen
    PROVE  ListItems(InsertAt(s, at, v))
<1>0. Len(s) \in Nat /\ at \in Int /\ at - 1 \in 0 .. Len(s) /\ 1 \in 1 .. Len(s) + 1 /\ Len(s) \in 0 .. Len(s)
  BY LenProperties
<1> DEFINE a == SubSeq(s, 1, at - 1)
           b == SubSeq(s, at, Len(s))
<1>1. a \in Seq(Elems) /\ Len(a) = at - 1
  <2>1. \A i \in 1 .. at - 1 : s[i] \in Elems
    BY <1>0, ElementOfSeq
  <2> QED
    BY <1>0, <2>1, SubSeqProperties
<1>2. b \in Seq(Elems) /\ Len(b) = Len(s) - at + 1
  <2>1. \A i \in at .. Len(s) : s[i] \in Elems
    BY <1>0, ElementOfSeq
  <2> QED
    BY <1>0, <2>1, SubSeqProperties
<1> HIDE DEF a, b
<1>3. <<v>> \in Seq(Elems) /\ Len(<<v>>) = 1
  OBVIOUS
<1>4. a \o <<v>> \in Seq(Elems) /\ Len(a \o <<v>>) = at
  BY <1>0, <1>1, <1>3, ConcatProperties
<1>5. (a \o <<v>>) \o b \in Seq(Elems) /\ Len((a \o <<v>>) \o b) = Len(s) + 1
  <2>1. (a \o <<v>>) \o b \in Seq(Elems) /\ Len((a \o <<v>>) \o b) = Len(a \o <<v>>) + Len(b)
    BY <1>2, <1>4, ConcatProperties
  <2> QED
    BY <1>0, <1>2, <1>4, <2>1
<1> QED
  BY <1>5 DEF ListItems, InsertAt, a, b

LEMMA FirstAtParts ==
    ASSUME NEW s, IsSeq(s), NEW p, Contains(s, p)
    PROVE  FirstAt(s, p) \in 1 .. Len(s)
<1>1. Len(s) \in Nat /\ DOMAIN s = 1 .. Len(s)
  BY CutSeq
<1> DEFINE occ == {i \in DOMAIN s : s[i] = p}
<1>2. occ \subseteq Nat /\ occ # {}
  BY <1>1 DEF Contains
<1>3. PICK m \in occ : \A j \in occ : ~(<<j, m>> \in OpToRel(<, Nat))
  BY <1>2, NatLessThanWellFounded, WFMin
<1>4. \A j \in occ : ~(j < m)
  BY <1>2, <1>3 DEF OpToRel
<1>5. \E i \in DOMAIN s : s[i] = p /\ \A j \in 1 .. i - 1 : s[j] # p
  BY <1>1, <1>4
<1> QED
  BY <1>1, <1>5 DEF FirstAt

----------------------------------------------------------------------------
(* What a method on key k may have done: what it stored is typed.          *)

Kept(d, k, r) ==
    \/ r.data = d
    \/ r.data = Drop(d, k)
    \/ ~Has(d, k) /\ \E v : TypedValue(v) /\ r.data = Insert(d, k, v, None)
    \/ Has(d, k) /\ \E v : TypedValue(v) /\ r.data = Update(d, k, v)

LEMMA KeptForms ==
    ASSUME NEW d, NEW k, NEW x
    PROVE  /\ Kept(d, k, Result(d, x)) /\ Kept(d, k, Result(Drop(d, k), x)) /\ Kept(d, k, WrongType(d))
           /\ Kept(d, k, NotAnInteger(d))
           /\ \A v : TypedValue(v) /\ ~Has(d, k) => Kept(d, k, Result(Insert(d, k, v, None), x))
           /\ \A v : TypedValue(v) /\ Has(d, k) => Kept(d, k, Result(Update(d, k, v), x))
           /\ \A v : \A c \in BOOLEAN : (~c => TypedValue(v)) /\ Has(d, k) => Kept(d, k, Result(UpdateOrDrop(d, k, v, c), x))
  BY ResultParts DEF Kept, WrongType, NotAnInteger, UpdateOrDrop

LEMMA ValuesTyped ==
    /\ \A b \in Bytes : TypedValue(StringValue(b))
    /\ \A n \in I64 : TypedValue(IntValue(n))
    /\ \A s : ListItems(s) => TypedValue(ListValue(s))
    /\ \A s : s \subseteq Elems => TypedValue(SetValue(s))
    /\ \A f : FieldBytes(f) => TypedValue(HashValue(f))
    /\ \A f : MemberScores(f) => TypedValue(ZSetValue(f))
    /\ \A s : StreamItems(s) => TypedValue(StreamValue(s))
  BY DEF TypedValue

\* The store as a method finds it: key k, if there, holds a typed value.
TypedAt(d, k) == Has(d, k) => TypedValue(d[k].value)

LEMMA StringKept ==
    ASSUME NEW d, NEW k, TypedAt(d, k)
    PROVE  /\ Kept(d, k, GetString(d, k)) /\ Kept(d, k, StrLen(d, k))
           /\ \A b \in Bytes : Kept(d, k, SetNx(d, k, b))
           /\ (IsString(d, k) => BytesOf(d[k].value).tail < MaxTail) => Kept(d, k, AppendBytes(d, k, 1))
           /\ \A n \in I64 : Kept(d, k, IncrBy(d, k, n))
<1> DEFINE b0 == BytesOf(d[k].value)
<1>0. IsString(d, k) => Has(d, k) /\ b0 \in Bytes
  BY ReadTyped DEF IsString, Is, TypedAt
<1>1. Kept(d, k, GetString(d, k)) /\ Kept(d, k, StrLen(d, k))
  BY KeptForms DEF GetString, StrLen
<1>2. \A b \in Bytes : Kept(d, k, SetNx(d, k, b))
  BY KeptForms, ValuesTyped DEF SetNx
<1> HIDE DEF b0
<1>3. ASSUME IsString(d, k) => b0.tail < MaxTail PROVE Kept(d, k, AppendBytes(d, k, 1))
  <2> DEFINE longer == [b0 EXCEPT !.tail = @ + 1]
  <2>1. IsString(d, k) => TypedValue(StringValue(longer))
    BY <1>0, <1>3, BytesTyped, ValuesTyped
  <2>2. TypedValue(StringValue(Text(1)))
    BY BytesTyped, ValuesTyped
  <2>3. AppendBytes(d, k, 1) = IF ~Has(d, k) THEN Result(Insert(d, k, StringValue(Text(1)), None), Integer(1))
          ELSE IF IsString(d, k) THEN Result(Update(d, k, StringValue(longer)), Integer(ByteLen(longer)))
          ELSE WrongType(d)
    BY DEF AppendBytes, b0
  <2> HIDE DEF longer
  <2> QED
    BY <1>0, <2>1, <2>2, <2>3, KeptForms
<1>4. ASSUME NEW n \in I64 PROVE Kept(d, k, IncrBy(d, k, n))
  <2> DEFINE old == ParseI64(b0)
             next == SaturatingAdd(old, n)
  <2>1. IsString(d, k) /\ old # None => TypedValue(IntValue(next))
    <3> SUFFICES ASSUME IsString(d, k), old # None PROVE next \in I64
      BY ValuesTyped
    <3>1. old \in I64
      BY <1>0, BytesTyped
    <3> HIDE DEF old
    <3> QED
      BY <3>1, SaturatedInRange
  <2>2. TypedValue(IntValue(n))
    BY ValuesTyped
  <2>3. IncrBy(d, k, n) = IF ~Has(d, k) THEN Result(Insert(d, k, IntValue(n), None), Integer(n))
          ELSE IF IsString(d, k) /\ old # None THEN Result(Update(d, k, IntValue(next)), Integer(next))
          ELSE NotAnInteger(d)
    BY DEF IncrBy, b0
  <2> HIDE DEF old, next
  <2> QED
    BY <1>0, <2>1, <2>2, <2>3, KeptForms
<1> QED
  BY <1>1, <1>2, <1>3, <1>4 DEF b0

LEMMA ListKept ==
    ASSUME NEW d, NEW k, Sound(d, k), TypedAt(d, k)
    PROVE  /\ Kept(d, k, ListLen(d, k))
           /\ \A i : Kept(d, k, ListIndex(d, k, i))
           /\ \A i, j : Kept(d, k, ListRange(d, k, i, j))
           /\ \A left \in BOOLEAN : Kept(d, k, ListPop(d, k, left))
           /\ \A i : \A v \in Elems : Kept(d, k, ListSet(d, k, i, v)) /\ Kept(d, k, ListRem(d, k, i, v))
           /\ \A i, j \in Int : Kept(d, k, ListTrim(d, k, i, j))
<1> DEFINE s == d[k].value.items
<1>0. Is(d, k, "list") => Has(d, k) /\ s # <<>> /\ ListItems(s) /\ Len(s) \in Nat
  <2>1. Is(d, k, "list") => Has(d, k) /\ s # <<>> /\ ListItems(s)
    BY TypedParts DEF Sound, Is, Filled, TypedAt
  <2> QED
    BY <2>1, LenProperties DEF ListItems
<1>1. Kept(d, k, ListLen(d, k))
  BY KeptForms DEF ListLen
<1>2. \A i : Kept(d, k, ListIndex(d, k, i))
  BY KeptForms DEF ListIndex
<1>3. \A i, j : Kept(d, k, ListRange(d, k, i, j))
  BY KeptForms DEF ListRange
<1> HIDE DEF s
<1>4. ASSUME NEW left \in BOOLEAN PROVE Kept(d, k, ListPop(d, k, left))
  <2> DEFINE rest == IF left THEN Tail(s) ELSE Front(s)
             answer == Member(IF left THEN Head(s) ELSE Last(s))
             gone == rest = <<>>
  <2>1. Is(d, k, "list") => TypedValue(ListValue(rest))
    BY <1>0, ListsTyped, ValuesTyped
  <2>2. gone \in BOOLEAN
    OBVIOUS
  <2>3. ListPop(d, k, left) = IF ~Has(d, k) THEN Result(d, Null)
          ELSE IF Is(d, k, "list") THEN Result(UpdateOrDrop(d, k, ListValue(rest), gone), answer)
          ELSE WrongType(d)
    BY DEF ListPop, s
  <2> HIDE DEF rest, answer, gone
  <2> QED
    BY <1>0, <2>1, <2>2, <2>3, KeptForms
<1>5. ASSUME NEW i, NEW v \in Elems PROVE Kept(d, k, ListSet(d, k, i, v))
  <2>1. Is(d, k, "list") => \A q : TypedValue(ListValue([s EXCEPT ![q] = v]))
    BY <1>0, ListsTyped, ValuesTyped
  <2> QED
    BY <1>0, <2>1, KeptForms DEF ListSet, s
<1>6. ASSUME NEW i, NEW v PROVE Kept(d, k, ListRem(d, k, i, v))
  <2> DEFINE rem == RemPositions(s, i, v)
             next == Without(s, rem)
             gone == next = <<>>
  <2>1. Is(d, k, "list") => TypedValue(ListValue(next))
    BY <1>0, ListsTyped, ValuesTyped
  <2>2. gone \in BOOLEAN
    OBVIOUS
  <2>3. ListRem(d, k, i, v) = IF ~Has(d, k) THEN Result(d, Integer(0))
          ELSE IF Is(d, k, "list")
          THEN Result(UpdateOrDrop(d, k, ListValue(next), gone), Integer(Cardinality(rem)))
          ELSE WrongType(d)
    BY DEF ListRem, s
  <2> HIDE DEF rem, next, gone
  <2> QED
    BY <1>0, <2>1, <2>2, <2>3, KeptForms
<1>7. ASSUME NEW start \in Int, NEW stop \in Int PROVE Kept(d, k, ListTrim(d, k, start, stop))
  <2> DEFINE len  == Len(s)
             b    == TrimStart(len, start)
             e    == TrimStop(len, stop)
             huge == e = -1
             next == IF huge \/ b > e \/ b >= len THEN <<>> ELSE SubSeq(s, b + 1, e + 1)
             gone == next = <<>>
  <2>1. Is(d, k, "list") => TypedValue(ListValue(next))
    <3> SUFFICES ASSUME Is(d, k, "list") PROVE ListItems(next)
      BY ValuesTyped
    <3>1. b + 1 \in 1 .. len + 1 /\ e + 1 \in 0 .. len
      BY <1>0 DEF TrimStart, TrimStop
    <3>2. ListItems(<<>>)
      <4>1. MaxLen \in Nat /\ <<>> \in Seq(Elems) /\ Len(<<>>) = 0
        BY KeyspaceAssumption
      <4> QED
        BY <4>1 DEF ListItems
    <3> HIDE DEF b, e
    <3> QED
      BY <1>0, <3>1, <3>2, ListsTyped
  <2>2. gone \in BOOLEAN
    OBVIOUS
  <2>3. ListTrim(d, k, start, stop) = IF ~Has(d, k) THEN Result(d, OK)
          ELSE IF ~Is(d, k, "list") THEN WrongType(d)
          ELSE IF huge /\ b \in 1 .. len - 1 THEN Result(d, Panic)
          ELSE Result(UpdateOrDrop(d, k, ListValue(next), gone), OK)
    BY DEF ListTrim, s
  <2> HIDE DEF huge, b, len, next, gone
  <2> QED
    BY <1>0, <2>1, <2>2, <2>3, KeptForms
<1> QED
  BY <1>1, <1>2, <1>3, <1>4, <1>5, <1>6, <1>7

\* Pushes and insertions, where there is room for them.
LEMMA GrowKept ==
    ASSUME NEW d, NEW k, Sound(d, k), TypedAt(d, k)
    PROVE  /\ \A vs \in Seq(Elems) : \A left \in BOOLEAN :
                 (IF Is(d, k, "list") THEN Len(d[k].value.items) ELSE 0) + Len(vs) <= MaxLen
                 => Kept(d, k, ListPush(d, k, vs, left)) /\ Kept(d, k, ListPushX(d, k, vs, left))
           /\ \A before \in BOOLEAN : \A p, v \in Elems :
                 (Is(d, k, "list") => Len(d[k].value.items) + 1 <= MaxLen)
                 => Kept(d, k, ListInsert(d, k, before, p, v))
<1> DEFINE s == d[k].value.items
<1>0. Is(d, k, "list") => Has(d, k) /\ IsSeq(s) /\ s \in Seq(Elems) /\ Len(s) \in Nat
  <2>1. Is(d, k, "list") => Has(d, k) /\ ListItems(s) /\ IsSeq(s)
    BY TypedParts DEF Is, TypedAt, Sound, Filled
  <2> QED
    BY <2>1, LenProperties DEF ListItems
<1> HIDE DEF s
<1>1. ASSUME NEW vs \in Seq(Elems), NEW left \in BOOLEAN,
             (IF Is(d, k, "list") THEN Len(s) ELSE 0) + Len(vs) <= MaxLen
      PROVE  Kept(d, k, ListPush(d, k, vs, left)) /\ Kept(d, k, ListPushX(d, k, vs, left))
  <2> DEFINE longer == Push(s, vs, left)
             fresh == Push(<<>>, vs, left)
  <2>1. Is(d, k, "list") => TypedValue(ListValue(longer))
    BY <1>0, <1>1, PushTyped, ValuesTyped
  <2>2. ~Has(d, k) => TypedValue(ListValue(fresh))
    <3>1. <<>> \in Seq(Elems) /\ Len(<<>>) = 0
      OBVIOUS
    <3>2. ~Has(d, k) => 0 + Len(vs) <= MaxLen
      BY <1>1 DEF Is
    <3> QED
      BY <3>1, <3>2, PushTyped, ValuesTyped
  <2>3. ListPush(d, k, vs, left) =
          IF ~Has(d, k) THEN Result(Insert(d, k, ListValue(fresh), None), Integer(Len(vs)))
          ELSE IF Is(d, k, "list") THEN Result(Update(d, k, ListValue(longer)), Integer(Len(longer)))
          ELSE WrongType(d)
    BY DEF ListPush, s
  <2> HIDE DEF longer, fresh
  <2>4. Kept(d, k, ListPush(d, k, vs, left))
    BY <1>0, <2>1, <2>2, <2>3, KeptForms
  <2> QED
    BY <2>4, KeptForms DEF ListPushX
<1>2. ASSUME NEW before \in BOOLEAN, NEW p \in Elems, NEW v \in Elems, Is(d, k, "list") => Len(s) + 1 <= MaxLen
      PROVE  Kept(d, k, ListInsert(d, k, before, p, v))
  <2> DEFINE pos == FirstAt(s, p)
             at == IF before THEN pos ELSE pos + 1
             next == InsertAt(s, at, v)
  <2>1. Is(d, k, "list") /\ Contains(s, p) => TypedValue(ListValue(next))
    <3> SUFFICES ASSUME Is(d, k, "list"), Contains(s, p) PROVE ListItems(next)
      BY ValuesTyped
    <3>1. pos \in 1 .. Len(s)
      BY <1>0, FirstAtParts
    <3> HIDE DEF pos
    <3>2. at \in 1 .. Len(s) + 1
      BY <1>0, <3>1
    <3> HIDE DEF at
    <3> QED
      BY <1>0, <1>2, <3>2, InsertTyped
  <2>2. ListInsert(d, k, before, p, v) = IF ~Has(d, k) THEN Result(d, Integer(0))
          ELSE IF ~Is(d, k, "list") THEN WrongType(d)
          ELSE IF Contains(s, p) THEN Result(Update(d, k, ListValue(next)), Integer(Len(next)))
          ELSE Result(d, Integer(-1))
    BY DEF ListInsert, s
  <2> HIDE DEF next
  <2> QED
    BY <1>0, <2>1, <2>2, KeptForms
<1> QED
  BY <1>1, <1>2 DEF s

LEMMA MapsTyped ==
    /\ \A f, x, b : FieldBytes(f) /\ x \in Fields /\ b \in Bytes => FieldBytes(Put(f, x, b))
    /\ \A x \in Fields : \A b \in Bytes : FieldBytes(Single(x, b))
    /\ \A f, X : FieldBytes(f) => FieldBytes(Forget(f, X))
    /\ \A f, m, w : MemberScores(f) /\ m \in Elems /\ w \in Elems => MemberScores(Put(f, m, w))
    /\ \A m, w \in Elems : MemberScores(Single(m, w))
    /\ \A f, X : MemberScores(f) => MemberScores(Forget(f, X))
<1>1. /\ \A f, x, b : FieldBytes(f) /\ x \in Fields /\ b \in Bytes => FieldBytes(Put(f, x, b))
      /\ \A x \in Fields : \A b \in Bytes : FieldBytes(Single(x, b))
      /\ \A f, X : FieldBytes(f) => FieldBytes(Forget(f, X))
  BY DEF FieldBytes, Put, Single, Forget
<1>2. /\ \A f, m, w : MemberScores(f) /\ m \in Elems /\ w \in Elems => MemberScores(Put(f, m, w))
      /\ \A m, w \in Elems : MemberScores(Single(m, w))
      /\ \A f, X : MemberScores(f) => MemberScores(Forget(f, X))
  BY DEF MemberScores, Put, Single, Forget
<1> QED
  BY <1>1, <1>2

LEMMA HashKept ==
    ASSUME NEW d, NEW k, TypedAt(d, k)
    PROVE  /\ Kept(d, k, HashLen(d, k)) /\ Kept(d, k, HashGetAll(d, k))
           /\ \A f : Kept(d, k, HashGet(d, k, f)) /\ Kept(d, k, HashExists(d, k, f))
           /\ \A f \in Fields : \A b \in Bytes : Kept(d, k, HashSet(d, k, f, b)) /\ Kept(d, k, HashSetNx(d, k, f, b))
           /\ \A fs : Kept(d, k, HashDel(d, k, fs))
           /\ \A f \in Fields : \A n \in I64 : Kept(d, k, HashIncrBy(d, k, f, n))
<1> DEFINE g == d[k].value.fields
<1>0. Is(d, k, "hash") => Has(d, k) /\ FieldBytes(g)
  BY TypedParts DEF Is, TypedAt
<1>1. Kept(d, k, HashLen(d, k)) /\ Kept(d, k, HashGetAll(d, k))
  BY KeptForms DEF HashLen, HashGetAll
<1>2. \A f : Kept(d, k, HashGet(d, k, f)) /\ Kept(d, k, HashExists(d, k, f))
  BY KeptForms DEF HashGet, HashExists
<1> HIDE DEF g
<1>3. ASSUME NEW f \in Fields, NEW b \in Bytes
      PROVE  Kept(d, k, HashSet(d, k, f, b)) /\ Kept(d, k, HashSetNx(d, k, f, b))
  <2>1. TypedValue(HashValue(Single(f, b)))
    BY MapsTyped, ValuesTyped
  <2>2. Is(d, k, "hash") => TypedValue(HashValue(Put(g, f, b)))
    BY <1>0, MapsTyped, ValuesTyped
  <2>3. Kept(d, k, HashSet(d, k, f, b))
    BY <1>0, <2>1, <2>2, KeptForms DEF HashSet, g
  <2> QED
    BY <2>3, KeptForms DEF HashSetNx
<1>4. ASSUME NEW fs PROVE Kept(d, k, HashDel(d, k, fs))
  <2> DEFINE gone == DOMAIN g \ fs = {}
  <2>1. Is(d, k, "hash") => TypedValue(HashValue(Forget(g, fs)))
    BY <1>0, MapsTyped, ValuesTyped
  <2>2. gone \in BOOLEAN
    OBVIOUS
  <2>3. HashDel(d, k, fs) = IF ~Has(d, k) THEN Result(d, Integer(0))
          ELSE IF Is(d, k, "hash")
          THEN Result(UpdateOrDrop(d, k, HashValue(Forget(g, fs)), gone), Integer(Cardinality(fs \cap DOMAIN g)))
          ELSE WrongType(d)
    BY DEF HashDel, g
  <2> HIDE DEF gone
  <2> QED
    BY <1>0, <2>1, <2>2, <2>3, KeptForms
<1>5. ASSUME NEW f \in Fields, NEW n \in I64 PROVE Kept(d, k, HashIncrBy(d, k, f, n))
  <2> DEFINE old  == IF f \in DOMAIN g THEN ParseI64(g[f]) ELSE 0
             next == WrappingAdd(old, n)
  <2>1. Is(d, k, "hash") /\ old # None => TypedValue(HashValue(Put(g, f, Numeral(next))))
    <3> SUFFICES ASSUME Is(d, k, "hash"), old # None PROVE Numeral(next) \in Bytes
      BY <1>0, MapsTyped, ValuesTyped
    <3>1. f \in DOMAIN g => g[f] \in Bytes
      BY <1>0 DEF FieldBytes
    <3>2. old \in Int /\ n \in Int
      BY <3>1, BytesTyped, IntRange
    <3> HIDE DEF old
    <3>3. next \in I64
      BY <3>2, WrappedInRange
    <3> HIDE DEF next
    <3> QED
      BY <3>3, BytesTyped
  <2>2. TypedValue(HashValue(Single(f, Numeral(n))))
    BY BytesTyped, MapsTyped, ValuesTyped
  <2>3. HashIncrBy(d, k, f, n) =
          IF ~Has(d, k) THEN Result(Insert(d, k, HashValue(Single(f, Numeral(n))), None), Integer(n))
          ELSE IF Is(d, k, "hash") /\ old # None
          THEN Result(Update(d, k, HashValue(Put(g, f, Numeral(next)))), Integer(next))
          ELSE NotAnInteger(d)
    BY DEF HashIncrBy, g
  <2> HIDE DEF old, next
  <2> QED
    BY <1>0, <2>1, <2>2, <2>3, KeptForms
<1> QED
  BY <1>1, <1>2, <1>3, <1>4, <1>5

LEMMA SetKept ==
    ASSUME NEW d, NEW k, TypedAt(d, k)
    PROVE  /\ Kept(d, k, SetMembers(d, k)) /\ Kept(d, k, SetCard(d, k))
           /\ \A m : Kept(d, k, SetIsMember(d, k, m))
           /\ \A ms \in SUBSET Elems : Kept(d, k, SetAdd(d, k, ms)) /\ Kept(d, k, SetRemove(d, k, ms))
<1> DEFINE s == d[k].value.members
<1>0. Is(d, k, "set") => Has(d, k) /\ s \subseteq Elems
  BY TypedParts DEF Is, TypedAt
<1>1. Kept(d, k, SetMembers(d, k)) /\ Kept(d, k, SetCard(d, k)) /\ \A m : Kept(d, k, SetIsMember(d, k, m))
  BY KeptForms DEF SetMembers, SetCard, SetIsMember
<1> HIDE DEF s
<1>2. ASSUME NEW ms \in SUBSET Elems PROVE Kept(d, k, SetAdd(d, k, ms)) /\ Kept(d, k, SetRemove(d, k, ms))
  <2> DEFINE more == s \cup ms
             fewer == s \ ms
             gone == fewer = {}
  <2>1. /\ TypedValue(SetValue(ms))
        /\ Is(d, k, "set") => TypedValue(SetValue(more)) /\ TypedValue(SetValue(fewer))
    BY <1>0, ValuesTyped
  <2>2. gone \in BOOLEAN
    OBVIOUS
  <2>3. SetAdd(d, k, ms) = IF ~Has(d, k) THEN Result(Insert(d, k, SetValue(ms), None), Integer(Cardinality(ms)))
          ELSE IF Is(d, k, "set") THEN Result(Update(d, k, SetValue(more)), Integer(Cardinality(ms \ s)))
          ELSE WrongType(d)
    BY DEF SetAdd, s
  <2>4. SetRemove(d, k, ms) = IF ~Has(d, k) THEN Result(d, Integer(0))
          ELSE IF Is(d, k, "set")
          THEN Result(UpdateOrDrop(d, k, SetValue(fewer), gone), Integer(Cardinality(ms \cap s)))
          ELSE WrongType(d)
    BY DEF SetRemove, s
  <2> HIDE DEF more, fewer, gone
  <2> QED
    BY <1>0, <2>1, <2>2, <2>3, <2>4, KeptForms
<1> QED
  BY <1>1, <1>2

LEMMA ZSetKept ==
    ASSUME NEW d, NEW k, TypedAt(d, k)
    PROVE  /\ Kept(d, k, ZCard(d, k)) /\ \A i, j : Kept(d, k, ZRange(d, k, i, j))
           /\ \A ms : Kept(d, k, ZRem(d, k, ms))
           /\ \A w, m \in Elems : Kept(d, k, ZAdd(d, k, w, m))
<1> DEFINE f == d[k].value.scores
<1>0. Is(d, k, "zset") => Has(d, k) /\ MemberScores(f)
  BY TypedParts DEF Is, TypedAt
<1>1. Kept(d, k, ZCard(d, k)) /\ \A i, j : Kept(d, k, ZRange(d, k, i, j))
  BY KeptForms DEF ZCard, ZRange
<1> HIDE DEF f
<1>2. ASSUME NEW ms PROVE Kept(d, k, ZRem(d, k, ms))
  <2> DEFINE gone == DOMAIN f \ ms = {}
  <2>1. Is(d, k, "zset") => TypedValue(ZSetValue(Forget(f, ms)))
    BY <1>0, MapsTyped, ValuesTyped
  <2>2. gone \in BOOLEAN
    OBVIOUS
  <2>3. ZRem(d, k, ms) = IF ~Has(d, k) THEN Result(d, Integer(0))
          ELSE IF Is(d, k, "zset")
          THEN Result(UpdateOrDrop(d, k, ZSetValue(Forget(f, ms)), gone), Integer(Cardinality(ms \cap DOMAIN f)))
          ELSE WrongType(d)
    BY DEF ZRem, f
  <2> HIDE DEF gone
  <2> QED
    BY <1>0, <2>1, <2>2, <2>3, KeptForms
<1>3. ASSUME NEW w \in Elems, NEW m \in Elems PROVE Kept(d, k, ZAdd(d, k, w, m))
  <2>1. TypedValue(ZSetValue(Single(m, w)))
    BY MapsTyped, ValuesTyped
  <2>2. Is(d, k, "zset") => TypedValue(ZSetValue(Put(f, m, w)))
    BY <1>0, MapsTyped, ValuesTyped
  <2> QED
    BY <1>0, <2>1, <2>2, KeptForms DEF ZAdd, f
<1> QED
  BY <1>1, <1>2, <1>3

LEMMA StreamKept ==
    ASSUME NEW d, NEW k, TypedAt(d, k)
    PROVE  /\ Kept(d, k, StreamLen(d, k))
           /\ \A w : Kept(d, k, StreamRange(d, k, w)) /\ Kept(d, k, StreamRevRange(d, k, w))
           /\ \A a \in BOOLEAN : \A v :
                 (IF Is(d, k, "stream") THEN Len(d[k].value.entries) ELSE 0) + 1 <= MaxLen
                 => Kept(d, k, StreamAdd(d, k, a, v))
           /\ \A ids : Kept(d, k, StreamDel(d, k, ids))
<1> DEFINE s == d[k].value.entries
<1>0. Is(d, k, "stream") => Has(d, k) /\ IsSeq(s) /\ Len(s) <= MaxLen /\ Len(s) \in Nat
  <2>1. Is(d, k, "stream") => Has(d, k) /\ StreamItems(s)
    BY TypedParts DEF Is, TypedAt
  <2> QED
    BY <2>1, CutSeq DEF StreamItems
<1>00. MaxLen \in Nat
  BY KeyspaceAssumption
<1>1. Kept(d, k, StreamLen(d, k))
  BY KeptForms DEF StreamLen
<1>2. \A w : Kept(d, k, StreamRange(d, k, w)) /\ Kept(d, k, StreamRevRange(d, k, w))
  BY KeptForms DEF StreamRange, StreamRevRange
<1> HIDE DEF s
<1>3. ASSUME NEW a \in BOOLEAN, NEW v, (IF Is(d, k, "stream") THEN Len(s) ELSE 0) + 1 <= MaxLen
      PROVE  Kept(d, k, StreamAdd(d, k, a, v))
  <2> DEFINE first == <<[id |-> 1, body |-> v]>>
             more == Append(s, [id |-> Len(s) + 1, body |-> v])
  <2>1. ~Has(d, k) => TypedValue(StreamValue(first))
    <3>1. \A x : IsSeq(<<x>>) /\ Len(<<x>>) = 1
      BY UnitSeq
    <3>2. ~Has(d, k) => 0 + 1 <= MaxLen
      BY <1>3 DEF Is
    <3>3. ~Has(d, k) => StreamItems(first)
      BY <3>1, <3>2 DEF StreamItems
    <3> QED
      BY <3>3, ValuesTyped
  <2>2. Is(d, k, "stream") => TypedValue(StreamValue(more))
    <3> SUFFICES ASSUME Is(d, k, "stream") PROVE StreamItems(more)
      BY ValuesTyped
    <3>1. \A x : Len(Append(s, x)) = Len(s) + 1
      BY <1>0, AppendProperties DEF IsSeq
    <3>2. \A x : IsSeq(Append(s, x))
      BY <1>0, AppendSeq
    <3> QED
      BY <1>0, <1>3, <3>1, <3>2 DEF StreamItems
  <2>3. StreamAdd(d, k, a, v) = IF a /\ ~Has(d, k) THEN Result(Insert(d, k, StreamValue(first), None), Member(1))
          ELSE IF a /\ Is(d, k, "stream") THEN Result(Update(d, k, StreamValue(more)), Member(Len(s) + 1))
          ELSE Result(d, Error("BADID"))
    BY DEF StreamAdd, s
  <2> HIDE DEF first, more
  <2> QED
    BY <1>0, <2>1, <2>2, <2>3, KeptForms
<1>4. ASSUME NEW ids PROVE Kept(d, k, StreamDel(d, k, ids))
  <2> DEFINE next == Without(s, {i \in DOMAIN s : s[i].id \in ids})
  <2>1. Is(d, k, "stream") => TypedValue(StreamValue(next))
    <3> SUFFICES ASSUME Is(d, k, "stream") PROVE StreamItems(next)
      BY ValuesTyped
    <3>1. PICK S : s \in Seq(S)
      BY <1>0 DEF IsSeq
    <3>2. next \in Seq(S) /\ Len(next) <= Len(s)
      BY <3>1, WithoutTyped
    <3>3. Len(next) \in Nat
      BY <3>2, LenProperties
    <3>4. IsSeq(next)
      BY <3>2 DEF IsSeq
    <3> HIDE DEF next
    <3> QED
      BY <1>0, <1>00, <3>2, <3>3, <3>4 DEF StreamItems
  <2>2. StreamDel(d, k, ids) = IF ~Has(d, k) THEN Result(d, Integer(0))
          ELSE IF Is(d, k, "stream") THEN Result(Update(d, k, StreamValue(next)), Integer(Len(s) - Len(next)))
          ELSE WrongType(d)
    BY DEF StreamDel, s
  <2> HIDE DEF next
  <2> QED
    BY <1>0, <2>1, <2>2, KeptForms
<1> QED
  BY <1>1, <1>2, <1>3, <1>4 DEF s

----------------------------------------------------------------------------
(* Stores.                                                                 *)

TypedStore(d) == \A k \in DOMAIN d : TypedValue(d[k].value) /\ d[k].expires_at \in Nat \cup {None}

LEMMA PartTyped ==
    ASSUME NEW d, NEW e, TypedStore(d), DOMAIN e \subseteq DOMAIN d, \A k \in DOMAIN e : e[k] = d[k]
    PROVE  TypedStore(e)
  BY DEF TypedStore

LEMMA InsertKeeps ==
    ASSUME NEW d, TypedStore(d), NEW k, NEW v, TypedValue(v), NEW at \in Nat \cup {None}
    PROVE  TypedStore(Insert(d, k, v, at))
<1> DEFINE e == Insert(d, k, v, at)
<1>1. /\ DOMAIN e = DOMAIN d \cup {k} /\ e[k] = Entry(v, at)
      /\ \A j \in DOMAIN d \ {k} : e[j] = d[j]
  BY DEF Insert, Put
<1>2. Entry(v, at).value = v /\ Entry(v, at).expires_at = at
  BY DEF Entry
<1> HIDE DEF e
<1>3. TypedStore(e)
  BY <1>1, <1>2 DEF TypedStore
<1> QED
  BY <1>3 DEF e

LEMMA UpdateKeeps ==
    ASSUME NEW d, IsStore(d), TypedStore(d), NEW k, Has(d, k), NEW v, TypedValue(v)
    PROVE  TypedStore(Update(d, k, v))
<1>1. IsEntry(d[k])
  BY DEF IsStore, Has
<1> QED
  BY <1>1, UpdateParts DEF TypedStore, Has

LEMMA KeptTyped ==
    ASSUME NEW d, IsStore(d), TypedStore(d), NEW k, NEW t, NEW r, Kept(Evict(d, k, t), k, r)
    PROVE  TypedStore(r.data)
<1> DEFINE e == Evict(d, k, t)
<1>1. IsStore(e)
  BY StoreKept
<1>2. DOMAIN e \subseteq DOMAIN d /\ \A j \in DOMAIN e : e[j] = d[j]
  BY DEF Evict, Drop, Forget
<1>3. Kept(e, k, r)
  OBVIOUS
<1> HIDE DEF e
<1>4. TypedStore(e)
  BY <1>2, PartTyped
<1>5. TypedStore(Drop(e, k))
  <2>1. DOMAIN Drop(e, k) \subseteq DOMAIN e /\ \A j \in DOMAIN Drop(e, k) : Drop(e, k)[j] = e[j]
    BY DEF Drop, Forget
  <2> QED
    BY <1>4, <2>1, PartTyped
<1>6. \A v : TypedValue(v) => TypedStore(Insert(e, k, v, None))
  BY <1>4, InsertKeeps
<1>7. \A v : Has(e, k) /\ TypedValue(v) => TypedStore(Update(e, k, v))
  BY <1>1, <1>4, UpdateKeeps
<1> QED
  BY <1>3, <1>4, <1>5, <1>6, <1>7 DEF Kept

LEMMA MoveTyped ==
    ASSUME NEW d, IsStore(d), TypedStore(d), NEW src, NEW dst, NEW m \in Elems
    PROVE  TypedStore(SetMove(d, src, dst, m).data)
<1> DEFINE s    == d[src].value.members
           left == UpdateOrDrop(d, src, SetValue(s \ {m}), s = {m})
           r    == SetMove(d, src, dst, m)
<1>1. CASE ~(Is(d, src, "set") /\ m \in s)
  <2>1. r.data = d
    BY <1>1, ResultParts DEF SetMove, WrongType, Is
  <2> QED
    BY <2>1
<1>2. CASE Is(d, src, "set") /\ m \in s
  <2>0. r = IF ~Has(left, dst) THEN Result(Insert(left, dst, SetValue({m}), None), Integer(1))
            ELSE IF Is(left, dst, "set")
            THEN Result(Update(left, dst, SetValue(left[dst].value.members \cup {m})), Integer(1))
            ELSE WrongType(left)
    BY <1>2 DEF SetMove, Is
  <2>1. Has(d, src) /\ s \subseteq Elems
    BY <1>2, TypedParts DEF Is, TypedStore, Has
  <2>2. IsStore(left) /\ TypedStore(left)
    <3>1. left = Left(d, src, m)
      BY DEF UpdateOrDrop, Left
    <3>2. IsStore(Left(d, src, m))
      BY <1>2, MoveLeaves
    <3>3. TypedStore(Drop(d, src))
      BY DropParts, PartTyped
    <3>4. TypedStore(Update(d, src, SetValue(s \ {m})))
      <4> DEFINE v == SetValue(s \ {m})
      <4>1. TypedValue(v)
        BY <2>1, ValuesTyped
      <4> HIDE DEF v
      <4>2. TypedStore(Update(d, src, v))
        BY <2>1, <4>1, UpdateKeeps
      <4> QED
        BY <4>2 DEF v
    <3>5. TypedStore(Left(d, src, m))
      BY <3>3, <3>4 DEF Left
    <3> HIDE DEF left
    <3> QED
      BY <3>1, <3>2, <3>5
  <2> HIDE DEF left, r
  <2>3. TypedStore(Insert(left, dst, SetValue({m}), None))
    <3> DEFINE v == SetValue({m})
    <3>1. TypedValue(v)
      BY ValuesTyped
    <3> HIDE DEF v
    <3>2. TypedStore(Insert(left, dst, v, None))
      BY <2>2, <3>1, InsertKeeps
    <3> QED
      BY <3>2 DEF v
  <2>4. Is(left, dst, "set") => TypedStore(Update(left, dst, SetValue(left[dst].value.members \cup {m})))
    <3> SUFFICES ASSUME Is(left, dst, "set")
                 PROVE  TypedStore(Update(left, dst, SetValue(left[dst].value.members \cup {m})))
      OBVIOUS
    <3> DEFINE v == SetValue(left[dst].value.members \cup {m})
    <3>1. Has(left, dst) /\ left[dst].value.members \subseteq Elems
      BY <2>2, TypedParts DEF Is, TypedStore, Has
    <3>2. TypedValue(v)
      BY <3>1, ValuesTyped
    <3> HIDE DEF v
    <3>3. TypedStore(Update(left, dst, v))
      BY <2>2, <3>1, <3>2, UpdateKeeps
    <3> QED
      BY <3>3 DEF v
  <2>5. TypedStore(r.data)
    BY <2>0, <2>2, <2>3, <2>4, ResultParts DEF WrongType
  <2> QED
    BY <2>5 DEF r
<1> QED
  BY <1>1, <1>2

----------------------------------------------------------------------------
(* One command.                                                            *)

TypeInv == Inv /\ TypedStore(db) /\ now \in 0 .. MaxTime

TypedStep == \E cmd, k, r : Answer(cmd, k, r) /\ TypedStore(r.data)

LEMMA ScopeBytes ==
    ASSUME TypeInv
    PROVE  scope.strings \subseteq Bytes /\ scope.keys \subseteq Keys
  BY BytesAssumption, ScopeKeys DEF TypeInv, Inv

\* The bounds look at the entry as it is before the prologue.
LEMMA RoomAfter ==
    ASSUME TypeInv, NEW k
    PROVE  /\ \A n \in Nat : Room(k, n) =>
                 /\ (IF Is(At(k), k, "list") THEN Len(At(k)[k].value.items) ELSE 0) + n <= MaxLen
                 /\ (IF Is(At(k), k, "stream") THEN Len(At(k)[k].value.entries) ELSE 0) + n <= MaxLen
           /\ TailRoom(k) => (IsString(At(k), k) => BytesOf(At(k)[k].value).tail < MaxTail)
<1>1. Has(At(k), k) => Has(db, k) /\ At(k)[k] = db[k]
  BY DEF At, Evict, Drop, Forget, Has
<1>2. \A type : Is(At(k), k, type) => Is(db, k, type)
  BY <1>1 DEF Is
<1>3. Is(db, k, "list") => Len(db[k].value.items) \in Nat
  <2>1. Is(db, k, "list") => ListItems(db[k].value.items)
    BY TypedParts DEF TypeInv, TypedStore, Is, Has
  <2> QED
    BY <2>1, LenProperties DEF ListItems
<1>4. Is(db, k, "stream") => Len(db[k].value.entries) \in Nat
  <2>1. Is(db, k, "stream") => StreamItems(db[k].value.entries)
    BY TypedParts DEF TypeInv, TypedStore, Is, Has
  <2> QED
    BY <2>1, CutSeq DEF StreamItems
<1>5. Items(k) \in Nat
  BY <1>3, <1>4 DEF Items
<1>6. Is(db, k, "list") => Items(k) = Len(db[k].value.items)
  BY DEF Items
<1>7. Is(db, k, "stream") => Items(k) = Len(db[k].value.entries)
  BY DEF Items, Is
<1>8. MaxLen \in Nat
  BY KeyspaceAssumption
<1>9. ASSUME NEW n \in Nat, Room(k, n)
      PROVE  /\ (IF Is(At(k), k, "list") THEN Len(At(k)[k].value.items) ELSE 0) + n <= MaxLen
             /\ (IF Is(At(k), k, "stream") THEN Len(At(k)[k].value.entries) ELSE 0) + n <= MaxLen
  <2>1. Items(k) + n <= MaxLen
    BY <1>9 DEF Room
  <2>2. Is(At(k), k, "list") => Len(At(k)[k].value.items) = Items(k)
    BY <1>1, <1>2, <1>6 DEF Is
  <2>3. Is(At(k), k, "stream") => Len(At(k)[k].value.entries) = Items(k)
    BY <1>1, <1>2, <1>7 DEF Is
  <2>4. 0 + n <= MaxLen
    BY <1>5, <1>8, <2>1
  <2> QED
    BY <2>1, <2>2, <2>3, <2>4
<1>10. TailRoom(k) => (IsString(At(k), k) => BytesOf(At(k)[k].value).tail < MaxTail)
  BY <1>1, <1>2 DEF TailRoom, IsString, Is
<1> QED
  BY <1>9, <1>10

LEMMA MethodTyped ==
    ASSUME TypeInv, NEW k \in scope.keys
    PROVE  /\ \A cmd, r : Answer(cmd, k, r) /\ Kept(At(k), k, r) => TypedStep
           /\ Sound(At(k), k) /\ TypedAt(At(k), k)
<1>0. IsStore(db) /\ TypedStore(db)
  BY DEF TypeInv, Inv
<1>1. ASSUME NEW cmd, NEW r, Answer(cmd, k, r), Kept(At(k), k, r) PROVE TypedStep
  <2>1. TypedStore(r.data)
    BY <1>0, <1>1, KeptTyped DEF At
  <2> QED
    BY <1>1, <2>1 DEF TypedStep
<1>2. Sound(At(k), k)
  BY <1>0, StoreKept DEF At
<1>3. TypedAt(At(k), k)
  <2>1. Has(At(k), k) => Has(db, k) /\ At(k)[k] = db[k]
    BY DEF At, Evict, Drop, Forget, Has
  <2> QED
    BY <1>0, <2>1 DEF TypedAt, TypedStore, Has
<1> QED
  BY <1>1, <1>2, <1>3

LEMMA StringTyped == TypeInv /\ StringCommand => TypedStep
<1> SUFFICES ASSUME TypeInv, StringCommand PROVE TypedStep
  OBVIOUS
<1>1. PICK k \in scope.keys :
         \/ Answer("GET", k, GetString(At(k), k))
         \/ Answer("STRLEN", k, StrLen(At(k), k))
         \/ \E b \in scope.strings : Answer("SETNX", k, SetNx(At(k), k, b))
         \/ TailRoom(k) /\ Answer("APPEND", k, AppendBytes(At(k), k, 1))
         \/ \E n \in Deltas : \/ Answer("INCRBY", k, IncrBy(At(k), k, n))
                              \/ Answer("DECRBY", k, IncrBy(At(k), k, WrappingNeg(n)))
  BY DEF StringCommand
<1> DEFINE d == At(k)
<1>2. TypedAt(d, k) /\ \A cmd, r : Answer(cmd, k, r) /\ Kept(d, k, r) => TypedStep
  BY MethodTyped
<1>3. TailRoom(k) => (IsString(d, k) => BytesOf(d[k].value).tail < MaxTail)
  BY RoomAfter
<1>4. scope.strings \subseteq Bytes
  BY ScopeBytes
<1>5. Deltas \subseteq I64 /\ \A n \in Deltas : WrappingNeg(n) \in I64
  <2>1. Deltas \subseteq I64
    BY KeyspaceAssumption
  <2>2. ASSUME NEW n \in Deltas PROVE WrappingNeg(n) \in I64
    <3>1. n \in Int
      BY <2>1, IntRange
    <3>2. 0 \in Int /\ -n \in Int
      BY <3>1
    <3> QED
      BY <3>2, WrappedInRange DEF WrappingNeg
  <2> QED
    BY <2>1, <2>2
<1> HIDE DEF d
<1>6. /\ Kept(d, k, GetString(d, k)) /\ Kept(d, k, StrLen(d, k))
      /\ \A b \in Bytes : Kept(d, k, SetNx(d, k, b))
      /\ TailRoom(k) => Kept(d, k, AppendBytes(d, k, 1))
      /\ \A n \in I64 : Kept(d, k, IncrBy(d, k, n))
  BY <1>2, <1>3, StringKept
<1> QED
  BY <1>1, <1>2, <1>4, <1>5, <1>6 DEF d

LEMMA ListTyped == TypeInv /\ ListCommand => TypedStep
<1> SUFFICES ASSUME TypeInv, ListCommand PROVE TypedStep
  OBVIOUS
<1>1. PICK k \in scope.keys :
         \/ Answer("LLEN", k, ListLen(At(k), k))
         \/ \E left \in BOOLEAN :
               \/ Answer("POP", k, ListPop(At(k), k, left))
               \/ \E vs \in Values :
                     /\ Room(k, Len(vs))
                     /\ \/ Answer("PUSH", k, ListPush(At(k), k, vs, left))
                        \/ Answer("PUSHX", k, ListPushX(At(k), k, vs, left))
               \/ \E v, pivot \in Elems :
                     Room(k, 1) /\ Answer("LINSERT", k, ListInsert(At(k), k, left, pivot, v))
         \/ \E i \in Indices :
               \/ Answer("LINDEX", k, ListIndex(At(k), k, i))
               \/ \E v \in Elems : \/ Answer("LSET", k, ListSet(At(k), k, i, v))
                                   \/ Answer("LREM", k, ListRem(At(k), k, i, v))
               \/ \E j \in Indices : \/ Answer("LRANGE", k, ListRange(At(k), k, i, j))
                                     \/ Answer("LTRIM", k, ListTrim(At(k), k, i, j))
  BY DEF ListCommand
<1> DEFINE d == At(k)
           held == IF Is(d, k, "list") THEN Len(d[k].value.items) ELSE 0
<1>2. Sound(d, k) /\ TypedAt(d, k)
  BY MethodTyped
<1>3. \A cmd, r : Answer(cmd, k, r) /\ Kept(d, k, r) => TypedStep
  BY MethodTyped
<1>4. \A n \in Nat : Room(k, n) => held + n <= MaxLen
  BY RoomAfter
<1>5. Indices \subseteq Int
  BY KeyspaceAssumption
<1>6. ASSUME NEW vs \in Values PROVE vs \in Seq(Elems) /\ Len(vs) \in Nat
  <2>1. CASE \E v \in Elems : vs = <<v>>
    BY <2>1
  <2>2. CASE \E v, w \in Elems : vs = <<v, w>>
    BY <2>2
  <2> QED
    BY <2>1, <2>2 DEF Values
<1> HIDE DEF d
<1>7. /\ Kept(d, k, ListLen(d, k))
      /\ \A i : Kept(d, k, ListIndex(d, k, i))
      /\ \A i, j : Kept(d, k, ListRange(d, k, i, j))
      /\ \A left \in BOOLEAN : Kept(d, k, ListPop(d, k, left))
      /\ \A i : \A v \in Elems : Kept(d, k, ListSet(d, k, i, v)) /\ Kept(d, k, ListRem(d, k, i, v))
      /\ \A i, j \in Int : Kept(d, k, ListTrim(d, k, i, j))
  BY <1>2, ListKept
<1>8. \A vs \in Values, left \in BOOLEAN :
         Room(k, Len(vs)) => Kept(d, k, ListPush(d, k, vs, left)) /\ Kept(d, k, ListPushX(d, k, vs, left))
  BY <1>2, <1>4, <1>6, GrowKept
<1>9. \A v, pivot \in Elems, left \in BOOLEAN : Room(k, 1) => Kept(d, k, ListInsert(d, k, left, pivot, v))
  BY <1>2, <1>4, GrowKept
<1> HIDE DEF held
<1> QED
  BY <1>1, <1>3, <1>5, <1>7, <1>8, <1>9 DEF d

LEMMA HashTyped == TypeInv /\ HashCommand => TypedStep
<1> SUFFICES ASSUME TypeInv, HashCommand PROVE TypedStep
  OBVIOUS
<1>1. PICK k \in scope.keys :
         \/ Answer("HLEN", k, HashLen(At(k), k))
         \/ Answer("HGETALL", k, HashGetAll(At(k), k))
         \/ \E fs \in (SUBSET Fields) \ {{}} : Answer("HDEL", k, HashDel(At(k), k, fs))
         \/ \E f \in Fields :
               \/ Answer("HGET", k, HashGet(At(k), k, f))
               \/ Answer("HEXISTS", k, HashExists(At(k), k, f))
               \/ \E b \in scope.strings : \/ Answer("HSET", k, HashSet(At(k), k, f, b))
                                           \/ Answer("HSETNX", k, HashSetNx(At(k), k, f, b))
               \/ \E n \in Deltas : Answer("HINCRBY", k, HashIncrBy(At(k), k, f, n))
  BY DEF HashCommand
<1>2. scope.strings \subseteq Bytes /\ Deltas \subseteq I64
  BY ScopeBytes, KeyspaceAssumption
<1> QED
  BY <1>1, <1>2, MethodTyped, HashKept

LEMMA ZSetTyped == TypeInv /\ ZSetCommand => TypedStep
<1> SUFFICES ASSUME TypeInv, ZSetCommand PROVE TypedStep
  OBVIOUS
<1>1. PICK k \in scope.keys :
         \/ Answer("ZCARD", k, ZCard(At(k), k))
         \/ \E ms \in (SUBSET Elems) \ {{}} : Answer("ZREM", k, ZRem(At(k), k, ms))
         \/ \E m, score \in Elems : Answer("ZADD", k, ZAdd(At(k), k, score, m))
         \/ \E i, j \in Indices : Answer("ZRANGE", k, ZRange(At(k), k, i, j))
  BY DEF ZSetCommand
<1> QED
  BY <1>1, MethodTyped, ZSetKept

LEMMA StreamTyped == TypeInv /\ StreamCommand => TypedStep
<1> SUFFICES ASSUME TypeInv, StreamCommand PROVE TypedStep
  OBVIOUS
<1>1. PICK k \in scope.keys :
         \/ Answer("XLEN", k, StreamLen(At(k), k))
         \/ \E whole \in BOOLEAN :
               \/ Answer("XRANGE", k, StreamRange(At(k), k, whole))
               \/ Answer("XREVRANGE", k, StreamRevRange(At(k), k, whole))
         \/ \E auto \in BOOLEAN, v \in Elems :
               Room(k, 1) /\ Answer("XADD", k, StreamAdd(At(k), k, auto, v))
         \/ \E ids \in (SUBSET (1 .. MaxLen)) \ {{}} : Answer("XDEL", k, StreamDel(At(k), k, ids))
  BY DEF StreamCommand
<1> DEFINE d == At(k)
<1>2. TypedAt(d, k) /\ \A cmd, r : Answer(cmd, k, r) /\ Kept(d, k, r) => TypedStep
  BY MethodTyped
<1>3. Room(k, 1) => (IF Is(d, k, "stream") THEN Len(d[k].value.entries) ELSE 0) + 1 <= MaxLen
  BY RoomAfter
<1> HIDE DEF d
<1>4. \A auto \in BOOLEAN : \A v : Room(k, 1) => Kept(d, k, StreamAdd(d, k, auto, v))
  BY <1>2, <1>3, StreamKept
<1>5. /\ Kept(d, k, StreamLen(d, k)) /\ \A ids : Kept(d, k, StreamDel(d, k, ids))
      /\ \A w : Kept(d, k, StreamRange(d, k, w)) /\ Kept(d, k, StreamRevRange(d, k, w))
  BY <1>2, StreamKept
<1> QED
  BY <1>1, <1>2, <1>4, <1>5 DEF d

LEMMA SetTyped == TypeInv /\ SetCommand => TypedStep
<1> SUFFICES ASSUME TypeInv, SetCommand PROVE TypedStep
  OBVIOUS
<1>1. PICK k \in scope.keys :
         \/ Answer("SMEMBERS", k, SetMembers(At(k), k))
         \/ Answer("SCARD", k, SetCard(At(k), k))
         \/ \E ms \in (SUBSET Elems) \ {{}} :
               \/ Answer("SADD", k, SetAdd(At(k), k, ms))
               \/ Answer("SREM", k, SetRemove(At(k), k, ms))
         \/ \E m \in Elems :
               \/ Answer("SISMEMBER", k, SetIsMember(At(k), k, m))
               \/ \E dst \in scope.keys :
                     Answer("SMOVE", k, SetMove(Evict(At(k), dst, now), k, dst, m))
  BY DEF SetCommand
<1>2. ASSUME NEW m \in Elems, NEW dst \in scope.keys,
             Answer("SMOVE", k, SetMove(Evict(At(k), dst, now), k, dst, m))
      PROVE  TypedStep
  <2> DEFINE d == Evict(At(k), dst, now)
  <2>1. IsStore(db) /\ TypedStore(db)
    BY DEF TypeInv, Inv
  <2>2. IsStore(d)
    BY <2>1, StoreKept DEF At
  <2>3. DOMAIN d \subseteq DOMAIN db /\ \A j \in DOMAIN d : d[j] = db[j]
    BY DEF At, Evict, Drop, Forget
  <2> HIDE DEF d
  <2>4. TypedStore(d)
    BY <2>1, <2>3, PartTyped
  <2>5. TypedStore(SetMove(d, k, dst, m).data)
    BY <2>2, <2>4, MoveTyped
  <2> QED
    BY <1>2, <2>5 DEF TypedStep, d
<1> DEFINE d == At(k)
<1>3. TypedAt(d, k) /\ \A cmd, r : Answer(cmd, k, r) /\ Kept(d, k, r) => TypedStep
  BY MethodTyped
<1> HIDE DEF d
<1>4. /\ Kept(d, k, SetMembers(d, k)) /\ Kept(d, k, SetCard(d, k))
      /\ \A m : Kept(d, k, SetIsMember(d, k, m))
      /\ \A ms \in (SUBSET Elems) \ {{}} : Kept(d, k, SetAdd(d, k, ms)) /\ Kept(d, k, SetRemove(d, k, ms))
  BY <1>3, SetKept
<1> QED
  BY <1>1, <1>2, <1>3, <1>4 DEF d

LEMMA DeadlineTyped ==
    ASSUME NEW d, IsStore(d), TypedStore(d), NEW k, Has(d, k), NEW at \in Nat \cup {None}
    PROVE  TypedStore([d EXCEPT ![k].expires_at = at])
<1> DEFINE e == [d EXCEPT ![k].expires_at = at]
<1>1. IsEntry(d[k]) /\ k \in DOMAIN d
  BY DEF IsStore, Has
<1>2. e[k] = Entry(d[k].value, at)
  <2>1. e[k] = [d[k] EXCEPT !.expires_at = at]
    BY <1>1
  <2> QED
    BY <1>1, <2>1, EntryExcept DEF IsEntry
<1>3. DOMAIN e = DOMAIN d /\ \A j \in DOMAIN d \ {k} : e[j] = d[j]
  OBVIOUS
<1> HIDE DEF e
<1>4. e[k].value = d[k].value /\ e[k].expires_at = at
  BY <1>2 DEF Entry
<1>5. TypedStore(e)
  BY <1>1, <1>3, <1>4 DEF TypedStore
<1> QED
  BY <1>5 DEF e

LEMMA KeyTyped == TypeInv /\ KeyCommand => TypedStep
<1> SUFFICES ASSUME TypeInv, KeyCommand PROVE TypedStep
  OBVIOUS
<1>0. IsStore(db) /\ TypedStore(db) /\ now \in Nat /\ Ttls \subseteq Nat /\ Second \in Nat
  BY KeyspaceAssumption DEF TypeInv, Inv
<1>1. ASSUME NEW k \in scope.keys, NEW b \in scope.strings, NEW at \in Deadlines, Set(k, b, at)
      PROVE  TypedStep
  <2>1. at \in Nat \cup {None}
    <3>1. at = None \/ \E ttl \in Ttls : at = now + ttl
      BY <1>1 DEF Deadlines
    <3>2. \A ttl \in Ttls : now + ttl \in Nat
      BY <1>0
    <3> QED
      BY <3>1, <3>2
  <2> DEFINE v == StringValue(b)
             r == SetStringRef(db, k, b, at)
  <2>2. TypedValue(v)
    BY ScopeBytes, ValuesTyped
  <2>3. r.data = Insert(db, k, v, at) /\ Answer("SET", k, r)
    BY <1>1, ResultParts DEF SetStringRef, Set
  <2> HIDE DEF v, r
  <2>4. TypedStore(r.data)
    BY <1>0, <2>1, <2>2, <2>3, InsertKeeps
  <2> QED
    BY <2>3, <2>4 DEF TypedStep
<1>2. ASSUME NEW k \in scope.keys, Del(k) PROVE TypedStep
  <2> DEFINE r == RemoveKey(db, k)
  <2>1. r.data = Drop(db, k) /\ Answer("DEL", k, r)
    BY <1>2, ResultParts DEF RemoveKey, Del
  <2>2. TypedStore(Drop(db, k))
    BY <1>0, DropParts, PartTyped
  <2> HIDE DEF r
  <2> QED
    BY <2>1, <2>2 DEF TypedStep
<1>3. ASSUME NEW k \in scope.keys, Exist(k) \/ Ttl(k) \/ PTtl(k) \/ Type(k) PROVE TypedStep
  <2>1. /\ Kept(At(k), k, Exists(At(k), k)) /\ Kept(At(k), k, ValueType(At(k), k))
        /\ Kept(At(k), k, TtlMs(At(k), k, now, Second)) /\ Kept(At(k), k, TtlMs(At(k), k, now, 1))
    BY KeptForms DEF Exists, TtlMs, ValueType
  <2> QED
    BY <1>3, <2>1, MethodTyped DEF Exist, Ttl, PTtl, Type
<1>4. ASSUME NEW k \in scope.keys, PersistKey(k) PROVE TypedStep
  <2> DEFINE d == At(k)
             r == Persist(d, k)
  <2>1. IsStore(d)
    BY <1>0, StoreKept DEF At
  <2>2. DOMAIN d \subseteq DOMAIN db /\ \A j \in DOMAIN d : d[j] = db[j]
    BY DEF At, Evict, Drop, Forget
  <2>3. Answer("PERSIST", k, r)
    BY <1>4 DEF PersistKey
  <2> HIDE DEF d
  <2>4. TypedStore(d)
    BY <1>0, <2>2, PartTyped
  <2>5. TypedStore(r.data)
    <3>1. CASE Has(d, k) /\ d[k].expires_at # None
      <4>1. r.data = [d EXCEPT ![k].expires_at = None]
        BY <3>1, ResultParts DEF Persist
      <4> HIDE DEF r
      <4> QED
        BY <3>1, <4>1, <2>1, <2>4, DeadlineTyped
    <3>2. CASE ~(Has(d, k) /\ d[k].expires_at # None)
      <4>1. r.data = d
        BY <3>2, ResultParts DEF Persist
      <4> QED
        BY <4>1, <2>4
    <3> QED
      BY <3>1, <3>2
  <2> HIDE DEF r
  <2> QED
    BY <2>3, <2>5 DEF TypedStep
<1>5. ASSUME NEW k \in scope.keys, NEW ms \in Nat, Answer("EXPIRE", k, SetExpireMs(db, k, now, ms))
      PROVE  TypedStep
  <2> DEFINE r == SetExpireMs(db, k, now, ms)
  <2>1. TypedStore(r.data)
    <3>1. CASE Has(db, k)
      <4>1. r.data = [db EXCEPT ![k].expires_at = now + ms]
        BY <3>1, ResultParts DEF SetExpireMs
      <4>2. now + ms \in Nat \cup {None}
        BY <1>0
      <4> HIDE DEF r
      <4> QED
        BY <3>1, <4>1, <4>2, <1>0, DeadlineTyped
    <3>2. CASE ~Has(db, k)
      BY <3>2, <1>0, ResultParts DEF SetExpireMs
    <3> QED
      BY <3>1, <3>2
  <2> HIDE DEF r
  <2> QED
    BY <1>5, <2>1 DEF TypedStep, r
<1>6. ASSUME NEW k \in scope.keys, NEW ttl \in Ttls, Expire(k, ttl) \/ PExpire(k, ttl)
      PROVE  TypedStep
  <2>1. ttl \in Nat /\ ttl * Second \in Nat
    BY <1>0
  <2> QED
    BY <2>1, <1>5, <1>6 DEF Expire, PExpire
<1>7. DbSize \/ KeysAll \/ FlushDb => TypedStep
  <2>1. TypedStore(PurgeExpiredAll(db, now)) /\ TypedStore(Forget(db, DOMAIN db))
    <3>1. TypedStore(PurgeExpiredAll(db, now))
      <4>1. DOMAIN PurgeExpiredAll(db, now) \subseteq DOMAIN db
        BY PurgeParts DEF Visible
      <4> QED
        BY <1>0, <4>1, PurgeParts, PartTyped
    <3>2. TypedStore(Forget(db, DOMAIN db))
      BY DEF TypedStore, Forget
    <3> QED
      BY <3>1, <3>2
  <2>2. /\ KeyCount(PurgeExpiredAll(db, now)).data = PurgeExpiredAll(db, now)
        /\ KeyList(PurgeExpiredAll(db, now)).data = PurgeExpiredAll(db, now)
        /\ Flush(db).data = Forget(db, DOMAIN db)
    BY ResultParts DEF KeyCount, KeyList, Flush
  <2> QED
    BY <2>1, <2>2 DEF DbSize, KeysAll, FlushDb, TypedStep
<1> QED
  BY <1>1, <1>2, <1>3, <1>4, <1>6, <1>7 DEF KeyCommand

LEMMA CommandTyped == TypeInv /\ Command => TypedStep
  BY KeyTyped, StringTyped, ListTyped, HashTyped, SetTyped, ZSetTyped, StreamTyped DEF Command

LEMMA NextTyped == TypeInv /\ [Next]_vars => TypeInv'
<1> SUFFICES ASSUME TypeInv, [Next]_vars PROVE TypeInv'
  OBVIOUS
<1>0. Inv'
  BY NextInv DEF TypeInv
<1>1. CASE Command
  <2>1. PICK cmd, k, r : Answer(cmd, k, r) /\ TypedStore(r.data)
    BY <1>1, CommandTyped DEF TypedStep
  <2>2. db' = Settle(r.data, now) /\ now' = now
    BY <2>1 DEF Answer
  <2>3. TypedStore(Settle(r.data, now))
    BY <2>1, SettleParts, PartTyped
  <2> QED
    BY <1>0, <2>2, <2>3 DEF TypeInv, TypedStore
<1>2. CASE Tick
  <2>1. db' = Settle(db, now') /\ now' \in 0 .. MaxTime
    BY <1>2, KeyspaceAssumption DEF Tick, TypeInv
  <2>2. \A t : TypedStore(Settle(db, t))
    BY SettleParts, PartTyped DEF TypeInv
  <2> QED
    BY <1>0, <2>1, <2>2 DEF TypeInv, TypedStore
<1>3. CASE UNCHANGED vars
  BY <1>0, <1>3 DEF vars, TypeInv, TypedStore
<1> QED
  BY <1>1, <1>2, <1>3 DEF Next

LEMMA InitTyped == Init => TypeInv
<1> SUFFICES ASSUME Init PROVE TypeInv
  OBVIOUS
<1>1. DOMAIN db = {} /\ now = 0
  BY DEF Init
<1>2. 0 \in 0 .. MaxTime
  BY KeyspaceAssumption
<1> QED
  BY <1>1, <1>2, InitInv DEF TypeInv, TypedStore

\* Whatever the commands, the store holds well-formed values: integers INCRBY,
\* DECRBY and HINCRBY leave are in the width of an i64 (saturated or wrapped),
\* lists, sets, hashes and sorted sets hold what clients have put into them, LREM,
\* LTRIM, LINSERT and XDEL leave whole sequences no longer than they may be, and a
\* deadline is a time or none.
THEOREM KeyspaceTyped == Spec => []TypeOK
<1>1. TypeInv => TypeOK
  <2> SUFFICES ASSUME TypeInv PROVE TypeOK
    OBVIOUS
  <2>1. now \in 0 .. MaxTime /\ DOMAIN db \subseteq Keys
    BY DEF TypeInv, Inv, IsStore
  <2>2. ASSUME NEW k \in Keys, Has(db, k)
        PROVE  /\ db[k].expires_at \in Nat \cup {None}
               /\ CASE IsString(db, k) -> db[k].value \in StringValues
                    [] Is(db, k, "list") -> db[k].value.items \in BoundedSeq(Elems, MaxLen)
                    [] Is(db, k, "set") -> db[k].value.members \subseteq Elems
                    [] Is(db, k, "hash") -> /\ DOMAIN db[k].value.fields \subseteq Fields
                                            /\ \A f \in DOMAIN db[k].value.fields :
                                                  db[k].value.fields[f] \in Bytes
                    [] Is(db, k, "zset") -> /\ DOMAIN db[k].value.scores \subseteq Elems
                                            /\ \A m \in DOMAIN db[k].value.scores :
                                                  db[k].value.scores[m] \in Elems
                    [] Is(db, k, "stream") -> Len(db[k].value.entries) <= MaxLen
                    [] OTHER -> FALSE
    <3> DEFINE v == db[k].value
    <3>1. TypedValue(v) /\ db[k].expires_at \in Nat \cup {None}
      BY <2>2 DEF TypeInv, TypedStore, Has
    <3>2. \A type : Is(db, k, type) <=> v.type = type
      BY <2>2 DEF Is
    <3>3. IsString(db, k) <=> v.type = "string" \/ v.type = "int"
      BY <3>2 DEF IsString
    <3> HIDE DEF v
    <3>4. v.type = "string" \/ v.type = "int" => v \in StringValues
      BY <3>1, TypedParts DEF StringValues
    <3>5. v.type = "list" => v.items \in BoundedSeq(Elems, MaxLen)
      <4> SUFFICES ASSUME v.type = "list" PROVE v.items \in BoundedSeq(Elems, MaxLen)
        OBVIOUS
      <4>1. v.items \in Seq(Elems) /\ Len(v.items) <= MaxLen /\ MaxLen \in Nat
        BY <3>1, TypedParts, KeyspaceAssumption DEF ListItems
      <4>2. Len(v.items) \in 0 .. MaxLen /\ v.items \in [1 .. Len(v.items) -> Elems]
        BY <4>1, LenProperties, ElementOfSeq
      <4> QED
        BY <4>2 DEF BoundedSeq, SeqOf
    <3>6. /\ v.type \in {"string", "int", "list", "set", "hash", "zset", "stream"}
          /\ v.type = "set" => v.members \subseteq Elems
          /\ v.type = "hash" => DOMAIN v.fields \subseteq Fields /\ \A f \in DOMAIN v.fields : v.fields[f] \in Bytes
          /\ v.type = "zset" => DOMAIN v.scores \subseteq Elems /\ \A m \in DOMAIN v.scores : v.scores[m] \in Elems
          /\ v.type = "stream" => Len(v.entries) <= MaxLen
      BY <3>1, TypedParts DEF FieldBytes, MemberScores, StreamItems
    <3>7. CASE v.type = "string" \/ v.type = "int"
      BY <3>1, <3>2, <3>3, <3>4, <3>7 DEF v
    <3>8. CASE v.type = "list"
      BY <3>1, <3>2, <3>3, <3>5, <3>8 DEF v
    <3>9. CASE v.type = "set"
      BY <3>1, <3>2, <3>3, <3>6, <3>9 DEF v
    <3>10. CASE v.type = "hash"
      BY <3>1, <3>2, <3>3, <3>6, <3>10 DEF v
    <3>11. CASE v.type = "zset"
      BY <3>1, <3>2, <3>3, <3>6, <3>11 DEF v
    <3>12. CASE v.type = "stream"
      BY <3>1, <3>2, <3>3, <3>6, <3>12 DEF v
    <3> QED
      BY <3>6, <3>7, <3>8, <3>9, <3>10, <3>11, <3>12
  <2> QED
    BY <2>1, <2>2 DEF TypeOK
<1> QED
  BY <1>1, InitTyped, NextTyped, PTL DEF Spec
=============================================================================
