---------------------------- MODULE ExpiryProofs ----------------------------
(***************************************************************************)
(* Lazy expiration is invisible: every command answers and changes the     *)
(* visible entries as if entries vanished at their deadline, except an     *)
(* EXPIRE or a DEL that finds an expired entry.                            *)
(***************************************************************************)
EXTENDS KeyspaceProofs

----------------------------------------------------------------------------
(* The methods do not depend on the store's variables, so the promise's    *)
(* copies of them are the same operators.                                  *)

USE DEF Result, WrongType, NotAnInteger, Integer, Blob, Member, Array, Bag, Pairs, Simple, Error, Null,
        Panic, OK, Has, Is, Put, Forget, Single, Drop, Insert, Update, UpdateOrDrop, Entry,
        Expired, StringValue, IntValue, ListValue, SetValue, HashValue, ZSetValue, StreamValue,
        Numeral, Text, BytesOf, IsString, ParseI64, Cardinality
USE DEF Promise!Result, Promise!WrongType, Promise!NotAnInteger, Promise!Integer, Promise!Blob,
        Promise!Member, Promise!Array, Promise!Bag, Promise!Pairs, Promise!Simple,
        Promise!Error, Promise!Null, Promise!Panic, Promise!OK, Promise!Has, Promise!Is,
        Promise!Put, Promise!Forget, Promise!Single, Promise!Drop, Promise!Insert,
        Promise!Update, Promise!UpdateOrDrop, Promise!Entry, Promise!Expired,
        Promise!StringValue, Promise!IntValue, Promise!ListValue, Promise!SetValue,
        Promise!HashValue, Promise!ZSetValue, Promise!StreamValue, Promise!Numeral,
        Promise!Text, Promise!BytesOf, Promise!IsString, Promise!ParseI64, Promise!Cardinality

LEMMA SameKeyMethods ==
    /\ \A d, k, t : Promise!Evict(d, k, t) = Evict(d, k, t)
    /\ \A d, t : Promise!PurgeExpiredAll(d, t) = PurgeExpiredAll(d, t)
    /\ \A d, k : Promise!RemoveKey(d, k) = RemoveKey(d, k)
    /\ \A d, k : Promise!Exists(d, k) = Exists(d, k)
    /\ \A d, k, t, ttl : Promise!SetExpireMs(d, k, t, ttl) = SetExpireMs(d, k, t, ttl)
    /\ \A d, k : Promise!Persist(d, k) = Persist(d, k)
    /\ \A d, k, t, unit : Promise!TtlMs(d, k, t, unit) = TtlMs(d, k, t, unit)
    /\ \A d, k : Promise!ValueType(d, k) = ValueType(d, k)
    /\ \A d : Promise!KeyCount(d) = KeyCount(d)
    /\ \A d : Promise!KeyList(d) = KeyList(d)
    /\ \A d : Promise!Flush(d) = Flush(d)
  BY DEF Evict, PurgeExpiredAll, RemoveKey, Exists, SetExpireMs, Persist, TtlMs, ValueType, KeyCount,
         KeyList, Flush,
         Promise!Evict, Promise!PurgeExpiredAll, Promise!RemoveKey, Promise!Exists, Promise!SetExpireMs,
         Promise!Persist, Promise!TtlMs, Promise!ValueType, Promise!KeyCount, Promise!KeyList,
         Promise!Flush

LEMMA SameStringMethods ==
    /\ \A d, k : Promise!GetString(d, k) = GetString(d, k)
    /\ \A d, k : Promise!StrLen(d, k) = StrLen(d, k)
    /\ \A d, k, b, at : Promise!SetStringRef(d, k, b, at) = SetStringRef(d, k, b, at)
    /\ \A d, k, b : Promise!SetNx(d, k, b) = SetNx(d, k, b)
    /\ \A d, k, len : Promise!AppendBytes(d, k, len) = AppendBytes(d, k, len)
    /\ \A d, k, delta : Promise!IncrBy(d, k, delta) = IncrBy(d, k, delta)
    /\ \A n : Promise!WrappingNeg(n) = WrappingNeg(n)
  BY DEF GetString, StrLen, ByteLen, Digits, Abs, SetStringRef, SetNx, AppendBytes, IncrBy,
         SaturatingAdd, MaxInt, MinInt, WrappingNeg, WrappingAdd,
         Promise!GetString, Promise!StrLen, Promise!ByteLen, Promise!Digits, Promise!Abs,
         Promise!SetStringRef, Promise!SetNx, Promise!AppendBytes, Promise!IncrBy,
         Promise!SaturatingAdd, Promise!MaxInt, Promise!MinInt, Promise!WrappingNeg,
         Promise!WrappingAdd

LEMMA SameListMethods ==
    /\ \A d, k, vs, left : Promise!ListPush(d, k, vs, left) = ListPush(d, k, vs, left)
    /\ \A d, k, vs, left : Promise!ListPushX(d, k, vs, left) = ListPushX(d, k, vs, left)
    /\ \A d, k, left : Promise!ListPop(d, k, left) = ListPop(d, k, left)
    /\ \A d, k, start, stop : Promise!ListRange(d, k, start, stop) = ListRange(d, k, start, stop)
    /\ \A d, k : Promise!ListLen(d, k) = ListLen(d, k)
    /\ \A d, k, index : Promise!ListIndex(d, k, index) = ListIndex(d, k, index)
    /\ \A d, k, index, v : Promise!ListSet(d, k, index, v) = ListSet(d, k, index, v)
    /\ \A d, k, before, pivot, v : Promise!ListInsert(d, k, before, pivot, v) = ListInsert(d, k, before, pivot, v)
    /\ \A d, k, count, v : Promise!ListRem(d, k, count, v) = ListRem(d, k, count, v)
    /\ \A d, k, start, stop : Promise!ListTrim(d, k, start, stop) = ListTrim(d, k, start, stop)
  BY DEF ListPush, Push, Reverse, ListPushX, ListPop, Front, Last, ListRange, Slice, ListLen, ListIndex,
         Position, ListSet, ListInsert, InsertAt, Contains, ListRem, RemPositions, Without,
         ListTrim, TrimStart, TrimStop, FirstAt, WrappingNeg, WrappingAdd, MinInt,
         Promise!WrappingNeg, Promise!WrappingAdd, Promise!MinInt,
         Promise!ListPush, Promise!Push, Promise!Reverse, Promise!ListPushX, Promise!ListPop,
         Promise!Front, Promise!Last, Promise!ListRange, Promise!Slice, Promise!ListLen,
         Promise!ListIndex, Promise!Position, Promise!ListSet, Promise!ListInsert,
         Promise!InsertAt, Promise!Contains, Promise!ListRem, Promise!RemPositions,
         Promise!Without, Promise!ListTrim, Promise!TrimStart, Promise!TrimStop, Promise!FirstAt

LEMMA SameHashMethods ==
    /\ \A d, k, field, b : Promise!HashSet(d, k, field, b) = HashSet(d, k, field, b)
    /\ \A d, k, field, b : Promise!HashSetNx(d, k, field, b) = HashSetNx(d, k, field, b)
    /\ \A d, k, field : Promise!HashGet(d, k, field) = HashGet(d, k, field)
    /\ \A d, k, fs : Promise!HashDel(d, k, fs) = HashDel(d, k, fs)
    /\ \A d, k : Promise!HashLen(d, k) = HashLen(d, k)
    /\ \A d, k : Promise!HashGetAll(d, k) = HashGetAll(d, k)
    /\ \A d, k, field : Promise!HashExists(d, k, field) = HashExists(d, k, field)
    /\ \A d, k, field, delta : Promise!HashIncrBy(d, k, field, delta) = HashIncrBy(d, k, field, delta)
  BY DEF HashSet, HashSetNx, HashGet, HashDel, HashLen, HashGetAll, HashExists, HashIncrBy, WrappingAdd,
         MinInt,
         Promise!HashSet, Promise!HashSetNx, Promise!HashGet, Promise!HashDel, Promise!HashLen,
         Promise!HashGetAll, Promise!HashExists, Promise!HashIncrBy, Promise!WrappingAdd,
         Promise!MinInt

LEMMA SameSetMethods ==
    /\ \A d, k, ms : Promise!SetAdd(d, k, ms) = SetAdd(d, k, ms)
    /\ \A d, k, ms : Promise!SetRemove(d, k, ms) = SetRemove(d, k, ms)
    /\ \A d, k : Promise!SetMembers(d, k) = SetMembers(d, k)
    /\ \A d, k, m : Promise!SetIsMember(d, k, m) = SetIsMember(d, k, m)
    /\ \A d, k : Promise!SetCard(d, k) = SetCard(d, k)
    /\ \A d, src, dst, m : Promise!SetMove(d, src, dst, m) = SetMove(d, src, dst, m)
  BY DEF SetAdd, SetRemove, SetMembers, SetIsMember, SetCard, SetMove,
         Promise!SetAdd, Promise!SetRemove, Promise!SetMembers, Promise!SetIsMember, Promise!SetCard,
         Promise!SetMove

LEMMA SameZSetMethods ==
    /\ \A d, k, score, m : Promise!ZAdd(d, k, score, m) = ZAdd(d, k, score, m)
    /\ \A d, k, ms : Promise!ZRem(d, k, ms) = ZRem(d, k, ms)
    /\ \A d, k : Promise!ZCard(d, k) = ZCard(d, k)
    /\ \A d, k, start, stop : Promise!ZRange(d, k, start, stop) = ZRange(d, k, start, stop)
  BY DEF ZAdd, ZRem, ZCard, ZRange, Slice, ZOrder,
         Promise!ZAdd, Promise!ZRem, Promise!ZCard, Promise!ZRange, Promise!Slice, Promise!ZOrder

LEMMA SameStreamMethods ==
    /\ \A d, k, auto, body : Promise!StreamAdd(d, k, auto, body) = StreamAdd(d, k, auto, body)
    /\ \A d, k : Promise!StreamLen(d, k) = StreamLen(d, k)
    /\ \A d, k, whole : Promise!StreamRange(d, k, whole) = StreamRange(d, k, whole)
    /\ \A d, k, whole : Promise!StreamRevRange(d, k, whole) = StreamRevRange(d, k, whole)
    /\ \A d, k, ids : Promise!StreamDel(d, k, ids) = StreamDel(d, k, ids)
  BY DEF StreamAdd, StreamLen, StreamRange, StreamRevRange, Reverse, StreamDel, Without,
         Promise!StreamAdd, Promise!StreamLen, Promise!StreamRange, Promise!StreamRevRange,
         Promise!Reverse, Promise!StreamDel, Promise!Without

HIDE DEF Result, WrongType, NotAnInteger, Integer, Blob, Member, Array, Bag, Pairs, Simple, Error, Null,
         Panic, OK, Has, Is, Put, Forget, Single, Drop, Insert, Update, UpdateOrDrop, Entry,
         Expired, StringValue, IntValue, ListValue, SetValue, HashValue, ZSetValue, StreamValue,
         Numeral, Text, BytesOf, IsString, ParseI64, Cardinality
HIDE DEF Promise!Result, Promise!WrongType, Promise!NotAnInteger, Promise!Integer, Promise!Blob,
         Promise!Member, Promise!Array, Promise!Bag, Promise!Pairs, Promise!Simple,
         Promise!Error, Promise!Null, Promise!Panic, Promise!OK, Promise!Has, Promise!Is,
         Promise!Put, Promise!Forget, Promise!Single, Promise!Drop, Promise!Insert,
         Promise!Update, Promise!UpdateOrDrop, Promise!Entry, Promise!Expired,
         Promise!StringValue, Promise!IntValue, Promise!ListValue, Promise!SetValue,
         Promise!HashValue, Promise!ZSetValue, Promise!StreamValue, Promise!Numeral,
         Promise!Text, Promise!BytesOf, Promise!IsString, Promise!ParseI64, Promise!Cardinality

----------------------------------------------------------------------------
(* A method looks at the entry of its key and at nothing else.             *)

\* Stores d and e have the same entry, or none, under k.
Agree(d, e, k) == (Has(d, k) <=> Has(e, k)) /\ (Has(d, k) => d[k] = e[k])

\* Store x is d but for the entry of k.
Touched(d, x, k) ==
    /\ \A j : j # k => (j \in DOMAIN x <=> j \in DOMAIN d)
    /\ \A j \in DOMAIN d : j # k => x[j] = d[j]

\* Two results on d and on e with the same answer and the same effect on k.
Alike(d, e, k, r, q) ==
    /\ r.reply = q.reply
    /\ Touched(d, r.data, k) /\ Touched(e, q.data, k)
    /\ Agree(r.data, q.data, k)

LEMMA AlikeVisible ==
    ASSUME NEW d, NEW e, NEW k, NEW x, NEW y, NEW t,
           Touched(d, x, k), Touched(e, y, k), Agree(x, y, k),
           PurgeExpiredAll(d, t) = PurgeExpiredAll(e, t)
    PROVE  PurgeExpiredAll(x, t) = PurgeExpiredAll(y, t)
<1>1. Visible(d, t) = Visible(e, t) /\ \A j \in Visible(d, t) : d[j] = e[j]
  BY PurgeParts
<1>2. ASSUME NEW j
      PROVE  /\ j \in Visible(x, t) <=> j \in Visible(y, t)
             /\ j \in Visible(x, t) => x[j] = y[j]
  <2>1. CASE j = k
    BY <2>1 DEF Visible, Agree, Has
  <2>2. CASE j # k
    <3>1. j \in Visible(x, t) <=> j \in Visible(d, t)
      BY <2>2 DEF Visible, Touched
    <3>2. j \in Visible(y, t) <=> j \in Visible(e, t)
      BY <2>2 DEF Visible, Touched
    <3>3. j \in Visible(x, t) => x[j] = d[j] /\ y[j] = e[j]
      BY <2>2, <1>1, <3>1 DEF Visible, Touched
    <3> QED
      BY <1>1, <3>1, <3>2, <3>3
  <2> QED
    BY <2>1, <2>2
<1>3. Visible(x, t) = Visible(y, t)
  BY <1>2
<1> QED
  BY <1>2, <1>3, PurgeEqual

LEMMA TouchedParts ==
    ASSUME NEW d, NEW k
    PROVE  /\ Touched(d, d, k) /\ Touched(d, Drop(d, k), k)
           /\ \A v, at : Touched(d, Insert(d, k, v, at), k)
           /\ \A v : Touched(d, Update(d, k, v), k)
           /\ \A at : Touched(d, [d EXCEPT ![k].expires_at = at], k)
<1>1. Touched(d, d, k) /\ Touched(d, Drop(d, k), k)
  BY DEF Touched, Drop, Forget
<1>2. \A v, at : Touched(d, Insert(d, k, v, at), k)
  BY DEF Touched, Insert, Put
<1>3. \A v : Touched(d, Update(d, k, v), k)
  BY DEF Touched, Update
<1>4. \A at : Touched(d, [d EXCEPT ![k].expires_at = at], k)
  BY DEF Touched
<1> QED
  BY <1>1, <1>2, <1>3, <1>4

LEMMA AgreeParts ==
    ASSUME NEW d, NEW e, NEW k
    PROVE  /\ Agree(Drop(d, k), Drop(e, k), k)
           /\ \A v, at : Agree(Insert(d, k, v, at), Insert(e, k, v, at), k)
           /\ Agree(d, e, k) /\ Has(d, k) => \A v : Agree(Update(d, k, v), Update(e, k, v), k)
           /\ Agree(d, e, k) /\ Has(d, k)
              => \A at : Agree([d EXCEPT ![k].expires_at = at], [e EXCEPT ![k].expires_at = at], k)
<1>1. Agree(Drop(d, k), Drop(e, k), k)
  BY DEF Agree, Has, Drop, Forget
<1>2. \A v, at : Agree(Insert(d, k, v, at), Insert(e, k, v, at), k)
  BY DEF Agree, Has, Insert, Put
<1>3. ASSUME Agree(d, e, k), Has(d, k), NEW v PROVE Agree(Update(d, k, v), Update(e, k, v), k)
  BY <1>3 DEF Agree, Has, Update
<1>4. ASSUME Agree(d, e, k), Has(d, k), NEW at
      PROVE  Agree([d EXCEPT ![k].expires_at = at], [e EXCEPT ![k].expires_at = at], k)
  BY <1>4 DEF Agree, Has
<1> QED
  BY <1>1, <1>2, <1>3, <1>4

\* The forms in which a method leaves the store.
LEMMA AlikeForms ==
    ASSUME NEW d, NEW e, NEW k, Agree(d, e, k), NEW x
    PROVE  /\ Alike(d, e, k, Result(d, x), Result(e, x))
           /\ Alike(d, e, k, Result(Drop(d, k), x), Result(Drop(e, k), x))
           /\ \A v, at : Alike(d, e, k, Result(Insert(d, k, v, at), x), Result(Insert(e, k, v, at), x))
           /\ Has(d, k) => \A v : Alike(d, e, k, Result(Update(d, k, v), x), Result(Update(e, k, v), x))
<1>1. Alike(d, e, k, Result(d, x), Result(e, x))
  BY ResultParts, TouchedParts DEF Alike
<1>2. Alike(d, e, k, Result(Drop(d, k), x), Result(Drop(e, k), x))
  BY ResultParts, TouchedParts, AgreeParts DEF Alike
<1>3. ASSUME NEW v, NEW at
      PROVE  Alike(d, e, k, Result(Insert(d, k, v, at), x), Result(Insert(e, k, v, at), x))
  <2>1. Touched(d, Insert(d, k, v, at), k) /\ Touched(e, Insert(e, k, v, at), k)
    BY TouchedParts
  <2>2. Agree(Insert(d, k, v, at), Insert(e, k, v, at), k)
    BY AgreeParts
  <2> QED
    BY <2>1, <2>2, ResultParts DEF Alike
<1>4. ASSUME Has(d, k), NEW v
      PROVE  Alike(d, e, k, Result(Update(d, k, v), x), Result(Update(e, k, v), x))
  <2>1. Touched(d, Update(d, k, v), k) /\ Touched(e, Update(e, k, v), k)
    BY TouchedParts
  <2>2. Agree(Update(d, k, v), Update(e, k, v), k)
    BY <1>4, AgreeParts
  <2> QED
    BY <2>1, <2>2, ResultParts DEF Alike
<1> QED
  BY <1>1, <1>2, <1>3, <1>4


LEMMA AlikeKeyMethods ==
    ASSUME NEW d, NEW e, NEW k, Agree(d, e, k)
    PROVE  /\ Alike(d, e, k, Exists(d, k), Exists(e, k))
           /\ Alike(d, e, k, ValueType(d, k), ValueType(e, k))
           /\ Alike(d, e, k, Persist(d, k), Persist(e, k))
           /\ Alike(d, e, k, RemoveKey(d, k), RemoveKey(e, k))
           /\ \A t, unit : Alike(d, e, k, TtlMs(d, k, t, unit), TtlMs(e, k, t, unit))
           /\ \A t, ttl : Alike(d, e, k, SetExpireMs(d, k, t, ttl), SetExpireMs(e, k, t, ttl))
           /\ \A b, at : Alike(d, e, k, SetStringRef(d, k, b, at), SetStringRef(e, k, b, at))
<1>0. /\ Has(d, k) <=> Has(e, k)
      /\ Has(d, k) => d[k] = e[k]
  BY DEF Agree
<1>1. Alike(d, e, k, Exists(d, k), Exists(e, k))
  BY <1>0, AlikeForms DEF Exists
<1>2. Alike(d, e, k, ValueType(d, k), ValueType(e, k))
  BY <1>0, AlikeForms DEF ValueType, Is
<1>3. Alike(d, e, k, RemoveKey(d, k), RemoveKey(e, k))
  BY <1>0, AlikeForms DEF RemoveKey
<1>4. \A t, unit : Alike(d, e, k, TtlMs(d, k, t, unit), TtlMs(e, k, t, unit))
  BY <1>0, AlikeForms DEF TtlMs
<1>5. \A b, at : Alike(d, e, k, SetStringRef(d, k, b, at), SetStringRef(e, k, b, at))
  BY <1>0, AlikeForms DEF SetStringRef
<1>6. ASSUME Has(d, k), NEW at, NEW x
      PROVE  Alike(d, e, k, Result([d EXCEPT ![k].expires_at = at], x), Result([e EXCEPT ![k].expires_at = at], x))
  <2>1. /\ Touched(d, [d EXCEPT ![k].expires_at = at], k)
        /\ Touched(e, [e EXCEPT ![k].expires_at = at], k)
    BY TouchedParts
  <2>2. Agree([d EXCEPT ![k].expires_at = at], [e EXCEPT ![k].expires_at = at], k)
    BY <1>6, AgreeParts
  <2> QED
    BY <2>1, <2>2, ResultParts DEF Alike
<1>7. \A t, ttl : Alike(d, e, k, SetExpireMs(d, k, t, ttl), SetExpireMs(e, k, t, ttl))
  BY <1>0, <1>6, AlikeForms DEF SetExpireMs
<1>8. Alike(d, e, k, Persist(d, k), Persist(e, k))
  BY <1>0, <1>6, AlikeForms DEF Persist
<1> QED
  BY <1>1, <1>2, <1>3, <1>4, <1>5, <1>7, <1>8

LEMMA AlikeStringMethods ==
    ASSUME NEW d, NEW e, NEW k, Agree(d, e, k)
    PROVE  /\ Alike(d, e, k, GetString(d, k), GetString(e, k))
           /\ Alike(d, e, k, StrLen(d, k), StrLen(e, k))
           /\ \A b : Alike(d, e, k, SetNx(d, k, b), SetNx(e, k, b))
           /\ \A n : Alike(d, e, k, AppendBytes(d, k, n), AppendBytes(e, k, n))
           /\ \A n : Alike(d, e, k, IncrBy(d, k, n), IncrBy(e, k, n))
<1>0. /\ Has(d, k) <=> Has(e, k)
      /\ Has(d, k) => d[k] = e[k]
  BY DEF Agree
<1>1. Alike(d, e, k, GetString(d, k), GetString(e, k))
  BY <1>0, AlikeForms DEF GetString, WrongType, IsString, Is
<1>2. Alike(d, e, k, StrLen(d, k), StrLen(e, k))
  BY <1>0, AlikeForms DEF StrLen, WrongType, IsString, Is
<1>3. \A b : Alike(d, e, k, SetNx(d, k, b), SetNx(e, k, b))
  BY <1>0, AlikeForms DEF SetNx
<1>4. \A n : Alike(d, e, k, AppendBytes(d, k, n), AppendBytes(e, k, n))
  BY <1>0, AlikeForms DEF AppendBytes, WrongType, IsString, Is
<1>5. \A n : Alike(d, e, k, IncrBy(d, k, n), IncrBy(e, k, n))
  BY <1>0, AlikeForms DEF IncrBy, NotAnInteger, IsString, Is
<1> QED
  BY <1>1, <1>2, <1>3, <1>4, <1>5

LEMMA AlikeListMethods ==
    ASSUME NEW d, NEW e, NEW k, Agree(d, e, k)
    PROVE  /\ Alike(d, e, k, ListLen(d, k), ListLen(e, k))
           /\ \A vs, left : Alike(d, e, k, ListPush(d, k, vs, left), ListPush(e, k, vs, left))
           /\ \A vs, left : Alike(d, e, k, ListPushX(d, k, vs, left), ListPushX(e, k, vs, left))
           /\ \A left \in BOOLEAN : Alike(d, e, k, ListPop(d, k, left), ListPop(e, k, left))
           /\ \A b \in BOOLEAN : \A p, v : Alike(d, e, k, ListInsert(d, k, b, p, v), ListInsert(e, k, b, p, v))
           /\ \A i : Alike(d, e, k, ListIndex(d, k, i), ListIndex(e, k, i))
           /\ \A i, v : Alike(d, e, k, ListSet(d, k, i, v), ListSet(e, k, i, v))
           /\ \A i, v : Alike(d, e, k, ListRem(d, k, i, v), ListRem(e, k, i, v))
           /\ \A i, j : Alike(d, e, k, ListRange(d, k, i, j), ListRange(e, k, i, j))
           /\ \A i, j \in Int : Alike(d, e, k, ListTrim(d, k, i, j), ListTrim(e, k, i, j))
<1>0. /\ Has(d, k) <=> Has(e, k)
      /\ Has(d, k) => d[k] = e[k]
  BY DEF Agree
<1>1. Alike(d, e, k, ListLen(d, k), ListLen(e, k))
  BY <1>0, AlikeForms DEF ListLen, WrongType, Is
<1>2. \A vs, left : Alike(d, e, k, ListPush(d, k, vs, left), ListPush(e, k, vs, left))
  BY <1>0, AlikeForms DEF ListPush, WrongType, Is
<1>3. \A vs, left : Alike(d, e, k, ListPushX(d, k, vs, left), ListPushX(e, k, vs, left))
  BY <1>0, <1>2, AlikeForms DEF ListPushX
<1>4. \A left \in BOOLEAN : Alike(d, e, k, ListPop(d, k, left), ListPop(e, k, left))
  BY <1>0, AlikeForms DEF ListPop, UpdateOrDrop, WrongType, Is
<1>5. \A b \in BOOLEAN : \A p, v : Alike(d, e, k, ListInsert(d, k, b, p, v), ListInsert(e, k, b, p, v))
  BY <1>0, AlikeForms DEF ListInsert, WrongType, Is
<1>6. \A i : Alike(d, e, k, ListIndex(d, k, i), ListIndex(e, k, i))
  BY <1>0, AlikeForms DEF ListIndex, WrongType, Is
<1>7. \A i, v : Alike(d, e, k, ListSet(d, k, i, v), ListSet(e, k, i, v))
  BY <1>0, AlikeForms DEF ListSet, WrongType, Is
<1>8. \A i, v : Alike(d, e, k, ListRem(d, k, i, v), ListRem(e, k, i, v))
  BY <1>0, AlikeForms DEF ListRem, UpdateOrDrop, WrongType, Is
<1>9. \A i, j : Alike(d, e, k, ListRange(d, k, i, j), ListRange(e, k, i, j))
  BY <1>0, AlikeForms DEF ListRange, WrongType, Is
<1>10. ASSUME NEW i \in Int, NEW j \in Int PROVE Alike(d, e, k, ListTrim(d, k, i, j), ListTrim(e, k, i, j))
  <2>1. CASE ~Is(d, k, "list")
    BY <1>0, <2>1, AlikeForms DEF ListTrim, WrongType, Is
  <2>2. CASE Is(d, k, "list")
    <3> DEFINE s == d[k].value.items
               b == TrimStart(Len(s), i)
               z == TrimStop(Len(s), j)
               next == IF z = -1 \/ b > z \/ b >= Len(s) THEN <<>> ELSE SubSeq(s, b + 1, z + 1)
               Trimmed(x) == IF z = -1 /\ b \in 1 .. Len(s) - 1 THEN Result(x, Panic)
                             ELSE Result(UpdateOrDrop(x, k, ListValue(next), next = <<>>), OK)
    <3>1. Has(d, k) /\ Has(e, k) /\ e[k] = d[k] /\ Is(e, k, "list")
      BY <1>0, <2>2 DEF Is
    <3>2. ListTrim(d, k, i, j) = Trimmed(d)
      BY <2>2, <3>1 DEF ListTrim
    <3>3. ListTrim(e, k, i, j) = Trimmed(e)
      BY <3>1 DEF ListTrim
    <3> HIDE DEF next, b, z, s
    <3>4. Alike(d, e, k, Trimmed(d), Trimmed(e))
      BY <3>1, AlikeForms DEF UpdateOrDrop
    <3> QED
      BY <3>2, <3>3, <3>4
  <2> QED
    BY <2>1, <2>2
<1> QED
  BY <1>1, <1>2, <1>3, <1>4, <1>5, <1>6, <1>7, <1>8, <1>9, <1>10


LEMMA AlikeHashMethods ==
    ASSUME NEW d, NEW e, NEW k, Agree(d, e, k)
    PROVE  /\ Alike(d, e, k, HashLen(d, k), HashLen(e, k))
           /\ Alike(d, e, k, HashGetAll(d, k), HashGetAll(e, k))
           /\ \A fs : Alike(d, e, k, HashDel(d, k, fs), HashDel(e, k, fs))
           /\ \A f : Alike(d, e, k, HashGet(d, k, f), HashGet(e, k, f))
           /\ \A f : Alike(d, e, k, HashExists(d, k, f), HashExists(e, k, f))
           /\ \A f, b : Alike(d, e, k, HashSet(d, k, f, b), HashSet(e, k, f, b))
           /\ \A f, b : Alike(d, e, k, HashSetNx(d, k, f, b), HashSetNx(e, k, f, b))
           /\ \A f, n : Alike(d, e, k, HashIncrBy(d, k, f, n), HashIncrBy(e, k, f, n))
<1>0. /\ Has(d, k) <=> Has(e, k)
      /\ Has(d, k) => d[k] = e[k]
  BY DEF Agree
<1>1. Alike(d, e, k, HashLen(d, k), HashLen(e, k))
  BY <1>0, AlikeForms DEF HashLen, WrongType, Is
<1>2. Alike(d, e, k, HashGetAll(d, k), HashGetAll(e, k))
  BY <1>0, AlikeForms DEF HashGetAll, WrongType, Is
<1>3. \A fs : Alike(d, e, k, HashDel(d, k, fs), HashDel(e, k, fs))
  BY <1>0, AlikeForms DEF HashDel, UpdateOrDrop, WrongType, Is
<1>4. \A f : Alike(d, e, k, HashGet(d, k, f), HashGet(e, k, f))
  BY <1>0, AlikeForms DEF HashGet, WrongType, Is
<1>5. \A f : Alike(d, e, k, HashExists(d, k, f), HashExists(e, k, f))
  BY <1>0, AlikeForms DEF HashExists, WrongType, Is
<1>6. \A f, b : Alike(d, e, k, HashSet(d, k, f, b), HashSet(e, k, f, b))
  BY <1>0, AlikeForms DEF HashSet, WrongType, Is
<1>7. \A f, b : Alike(d, e, k, HashSetNx(d, k, f, b), HashSetNx(e, k, f, b))
  BY <1>0, <1>6, AlikeForms DEF HashSetNx, Is
<1>8. \A f, n : Alike(d, e, k, HashIncrBy(d, k, f, n), HashIncrBy(e, k, f, n))
  BY <1>0, AlikeForms DEF HashIncrBy, NotAnInteger, Is
<1> QED
  BY <1>1, <1>2, <1>3, <1>4, <1>5, <1>6, <1>7, <1>8

LEMMA AlikeSetMethods ==
    ASSUME NEW d, NEW e, NEW k, Agree(d, e, k)
    PROVE  /\ Alike(d, e, k, SetMembers(d, k), SetMembers(e, k))
           /\ Alike(d, e, k, SetCard(d, k), SetCard(e, k))
           /\ \A ms : Alike(d, e, k, SetAdd(d, k, ms), SetAdd(e, k, ms))
           /\ \A ms : Alike(d, e, k, SetRemove(d, k, ms), SetRemove(e, k, ms))
           /\ \A m : Alike(d, e, k, SetIsMember(d, k, m), SetIsMember(e, k, m))
<1>0. /\ Has(d, k) <=> Has(e, k)
      /\ Has(d, k) => d[k] = e[k]
  BY DEF Agree
<1>1. Alike(d, e, k, SetMembers(d, k), SetMembers(e, k))
  BY <1>0, AlikeForms DEF SetMembers, WrongType, Is
<1>2. Alike(d, e, k, SetCard(d, k), SetCard(e, k))
  BY <1>0, AlikeForms DEF SetCard, WrongType, Is
<1>3. \A ms : Alike(d, e, k, SetAdd(d, k, ms), SetAdd(e, k, ms))
  BY <1>0, AlikeForms DEF SetAdd, WrongType, Is
<1>4. \A ms : Alike(d, e, k, SetRemove(d, k, ms), SetRemove(e, k, ms))
  BY <1>0, AlikeForms DEF SetRemove, UpdateOrDrop, WrongType, Is
<1>5. \A m : Alike(d, e, k, SetIsMember(d, k, m), SetIsMember(e, k, m))
  BY <1>0, AlikeForms DEF SetIsMember, WrongType, Is
<1> QED
  BY <1>1, <1>2, <1>3, <1>4, <1>5

LEMMA AlikeZSetMethods ==
    ASSUME NEW d, NEW e, NEW k, Agree(d, e, k)
    PROVE  /\ Alike(d, e, k, ZCard(d, k), ZCard(e, k))
           /\ \A ms : Alike(d, e, k, ZRem(d, k, ms), ZRem(e, k, ms))
           /\ \A x, m : Alike(d, e, k, ZAdd(d, k, x, m), ZAdd(e, k, x, m))
           /\ \A i, j : Alike(d, e, k, ZRange(d, k, i, j), ZRange(e, k, i, j))
<1>0. /\ Has(d, k) <=> Has(e, k)
      /\ Has(d, k) => d[k] = e[k]
  BY DEF Agree
<1>1. Alike(d, e, k, ZCard(d, k), ZCard(e, k))
  BY <1>0, AlikeForms DEF ZCard, WrongType, Is
<1>2. \A ms : Alike(d, e, k, ZRem(d, k, ms), ZRem(e, k, ms))
  BY <1>0, AlikeForms DEF ZRem, UpdateOrDrop, WrongType, Is
<1>3. \A x, m : Alike(d, e, k, ZAdd(d, k, x, m), ZAdd(e, k, x, m))
  BY <1>0, AlikeForms DEF ZAdd, WrongType, Is
<1>4. \A i, j : Alike(d, e, k, ZRange(d, k, i, j), ZRange(e, k, i, j))
  BY <1>0, AlikeForms DEF ZRange, WrongType, Is
<1> QED
  BY <1>1, <1>2, <1>3, <1>4

LEMMA AlikeStreamMethods ==
    ASSUME NEW d, NEW e, NEW k, Agree(d, e, k)
    PROVE  /\ Alike(d, e, k, StreamLen(d, k), StreamLen(e, k))
           /\ \A w : Alike(d, e, k, StreamRange(d, k, w), StreamRange(e, k, w))
           /\ \A w : Alike(d, e, k, StreamRevRange(d, k, w), StreamRevRange(e, k, w))
           /\ \A a \in BOOLEAN : \A v : Alike(d, e, k, StreamAdd(d, k, a, v), StreamAdd(e, k, a, v))
           /\ \A ids : Alike(d, e, k, StreamDel(d, k, ids), StreamDel(e, k, ids))
<1>0. /\ Has(d, k) <=> Has(e, k)
      /\ Has(d, k) => d[k] = e[k]
  BY DEF Agree
<1>1. Alike(d, e, k, StreamLen(d, k), StreamLen(e, k))
  BY <1>0, AlikeForms DEF StreamLen, WrongType, Is
<1>2. \A w : Alike(d, e, k, StreamRange(d, k, w), StreamRange(e, k, w))
  BY <1>0, AlikeForms DEF StreamRange, WrongType, Is
<1>3. \A w : Alike(d, e, k, StreamRevRange(d, k, w), StreamRevRange(e, k, w))
  BY <1>0, AlikeForms DEF StreamRevRange, WrongType, Is
<1>4. \A a \in BOOLEAN : \A v : Alike(d, e, k, StreamAdd(d, k, a, v), StreamAdd(e, k, a, v))
  BY <1>0, AlikeForms DEF StreamAdd, Is
<1>5. \A ids : Alike(d, e, k, StreamDel(d, k, ids), StreamDel(e, k, ids))
  BY <1>0, AlikeForms DEF StreamDel, WrongType, Is
<1> QED
  BY <1>1, <1>2, <1>3, <1>4, <1>5


----------------------------------------------------------------------------
(* A method called by the code and by the promise.                         *)

LEMMA LiveEntries ==
    /\ DOMAIN Live = Visible(db, now)
    /\ \A k : Has(Live, k) => Has(db, k) /\ Live[k] = db[k]
<1>1. DOMAIN Live = Visible(db, now) /\ \A j \in Visible(db, now) : Live[j] = db[j]
  BY PurgeParts DEF Live
<1>2. Visible(db, now) \subseteq DOMAIN db
  BY DEF Visible
<1> QED
  BY <1>1, <1>2 DEF Has

LEMMA LiveParts ==
    ASSUME NEW k
    PROVE  /\ Promise!At(k) = Live
           /\ Agree(At(k), Live, k)
           /\ PurgeExpiredAll(At(k), now) = PurgeExpiredAll(Live, now)
           /\ PurgeExpiredAll(Live, now) = Live
<1>0. DOMAIN Live = Visible(db, now) /\ \A j \in Visible(db, now) : Live[j] = db[j]
  BY PurgeParts DEF Live
<1>1. Promise!At(k) = Live
  <2>1. ~(Has(Live, k) /\ Expired(Live[k], now))
    BY <1>0 DEF Visible, Has
  <2>2. Evict(Live, k, now) = Live
    BY <2>1 DEF Evict
  <2> QED
    BY <2>2, SameKeyMethods DEF Promise!At
<1>2. Agree(At(k), Live, k)
  <2>0. /\ DOMAIN Evict(db, k, now) = IF Has(db, k) /\ Expired(db[k], now) THEN DOMAIN db \ {k} ELSE DOMAIN db
        /\ \A j \in DOMAIN Evict(db, k, now) : Evict(db, k, now)[j] = db[j]
    BY DEF Evict, Drop, Forget
  <2>1. Has(At(k), k) <=> k \in Visible(db, now)
    BY <2>0 DEF Has, At, Visible
  <2>2. Has(At(k), k) => At(k)[k] = db[k]
    BY <2>0 DEF Has, At
  <2> QED
    BY <1>0, <2>1, <2>2 DEF Agree, Has
<1>3. PurgeExpiredAll(Live, now) = Live
  BY PurgeTwice DEF Live
<1>4. PurgeExpiredAll(At(k), now) = Live
  BY EvictInvisible DEF At, Live
<1> QED
  BY <1>1, <1>2, <1>3, <1>4

LEMMA PromiseAnswer ==
    ASSUME NEW cmd, NEW k, NEW r, NEW q, Answer(cmd, k, r), r.reply = q.reply,
           PurgeExpiredAll(r.data, now) = PurgeExpiredAll(q.data, now)
    PROVE  Promise!Answer(cmd, k, q)
<1>1. Running /\ now' = now /\ scope' = scope /\ reply' = r.reply /\ db' = Settle(r.data, now)
      /\ last' = [cmd |-> cmd, key |-> k, bit |-> 1 - last.bit]
  BY DEF Answer
<1>2. Live' = PurgeExpiredAll(db', now')
  BY DEF Live
<1>3. Live' = PurgeExpiredAll(q.data, now)
  BY <1>1, <1>2, SettleParts
<1>4. Promise!Running
  BY <1>1 DEF Running, Promise!Running, IsPanic, Promise!IsPanic
<1>5. Promise!Settle(q.data, now) = PurgeExpiredAll(q.data, now)
  BY SameKeyMethods DEF Promise!Settle
<1> QED
  BY <1>1, <1>3, <1>4, <1>5 DEF Promise!Answer

LEMMA MethodPromised ==
    ASSUME NEW cmd, NEW k, NEW r, NEW q, Answer(cmd, k, r), Alike(At(k), Live, k, r, q)
    PROVE  Promise!Answer(cmd, k, q)
<1>1. r.reply = q.reply
  BY DEF Alike
<1>2. Touched(At(k), r.data, k) /\ Touched(Live, q.data, k) /\ Agree(r.data, q.data, k)
  BY DEF Alike
<1>3. PurgeExpiredAll(At(k), now) = PurgeExpiredAll(Live, now)
  BY LiveParts
<1>4. PurgeExpiredAll(r.data, now) = PurgeExpiredAll(q.data, now)
  BY <1>2, <1>3, AlikeVisible
<1> QED
  BY <1>1, <1>4, PromiseAnswer

LEMMA StringPromised == StringCommand => Promise!StringCommand
<1> SUFFICES ASSUME StringCommand PROVE Promise!StringCommand
  OBVIOUS
<1>1. PICK k \in scope.keys :
         \/ Answer("GET", k, GetString(At(k), k))
         \/ Answer("STRLEN", k, StrLen(At(k), k))
         \/ \E b \in scope.strings : Answer("SETNX", k, SetNx(At(k), k, b))
         \/ TailRoom(k) /\ Answer("APPEND", k, AppendBytes(At(k), k, 1))
         \/ \E n \in Deltas : \/ Answer("INCRBY", k, IncrBy(At(k), k, n))
                              \/ Answer("DECRBY", k, IncrBy(At(k), k, WrappingNeg(n)))
  BY DEF StringCommand
<1> DEFINE d == At(k)
<1>2. Agree(d, Live, k) /\ Promise!At(k) = Live
  BY LiveParts
<1>3. ASSUME NEW cmd, NEW r, NEW q, Answer(cmd, k, r), Alike(d, Live, k, r, q)
      PROVE  Promise!Answer(cmd, k, q)
  BY <1>3, MethodPromised
<1>4. TailRoom(k) => Promise!TailRoom(k)
  <2>1. Has(Live, k) => Has(db, k) /\ Live[k] = db[k]
    BY LiveEntries
  <2> QED
    BY <2>1 DEF TailRoom, Promise!TailRoom, IsString, Promise!IsString, BytesOf, Promise!BytesOf,
             Is, Promise!Is, Promise!Has, Numeral, Promise!Numeral, Has
<1> HIDE DEF d
<1>5. CASE Answer("GET", k, GetString(d, k))
  BY <1>2, <1>3, <1>5, AlikeStringMethods, SameStringMethods DEF Promise!StringCommand
<1>6. CASE Answer("STRLEN", k, StrLen(d, k))
  BY <1>2, <1>3, <1>6, AlikeStringMethods, SameStringMethods DEF Promise!StringCommand
<1>7. ASSUME NEW b \in scope.strings, Answer("SETNX", k, SetNx(d, k, b)) PROVE Promise!StringCommand
  BY <1>2, <1>3, <1>7, AlikeStringMethods, SameStringMethods DEF Promise!StringCommand
<1>8. CASE TailRoom(k) /\ Answer("APPEND", k, AppendBytes(d, k, 1))
  BY <1>2, <1>3, <1>4, <1>8, AlikeStringMethods, SameStringMethods DEF Promise!StringCommand
<1>9. ASSUME NEW n \in Deltas, \/ Answer("INCRBY", k, IncrBy(d, k, n))
                               \/ Answer("DECRBY", k, IncrBy(d, k, WrappingNeg(n)))
      PROVE  Promise!StringCommand
  BY <1>2, <1>3, <1>9, AlikeStringMethods, SameStringMethods DEF Promise!StringCommand
<1> QED
  BY <1>1, <1>5, <1>6, <1>7, <1>8, <1>9 DEF d


LEMMA RoomPromised ==
    ASSUME Inv, NEW k, NEW n \in Nat, Room(k, n)
    PROVE  Promise!Room(k, n)
<1>1. MaxLen \in Nat
  BY KeyspaceAssumption
<1>2. Items(k) \in Nat
  <2>1. Sound(db, k)
    BY StoreKept DEF Inv
  <2>2. Is(db, k, "list") => IsSeq(db[k].value.items)
    BY <2>1 DEF Sound, Is, Filled
  <2>3. Is(db, k, "stream") => IsSeq(db[k].value.entries)
    BY <2>1 DEF Sound, Is, Filled
  <2> QED
    BY <2>2, <2>3, CutSeq DEF Items
<1>3. Promise!Items(k) = Items(k) \/ Promise!Items(k) = 0
  <2>1. Has(Live, k) => Has(db, k) /\ Live[k] = db[k]
    BY LiveEntries
  <2> QED
    BY <2>1 DEF Items, Promise!Items, Is, Promise!Is, Promise!Has, Has
<1> QED
  BY <1>1, <1>2, <1>3 DEF Room, Promise!Room

LEMMA ListPromised == Inv /\ ListCommand => Promise!ListCommand
<1> SUFFICES ASSUME Inv, ListCommand PROVE Promise!ListCommand
  OBVIOUS
<1>1. PICK k \in scope.keys :
         \/ Answer("LLEN", k, ListLen(At(k), k))
         \/ \E left \in BOOLEAN :
               \/ Answer("POP", k, ListPop(At(k), k, left))
               \/ \E vs \in Values :
                     /\ Room(k, Len(vs))
                     /\ \/ Answer("PUSH", k, ListPush(At(k), k, vs, left))
                        \/ Answer("PUSHX", k, ListPushX(At(k), k, vs, left))
               \/ \E v, pivot \in Elems :
                     Room(k, 1) /\ Answer("LINSERT", k, ListInsert(At(k), k, left, pivot, v))
         \/ \E i \in Indices :
               \/ Answer("LINDEX", k, ListIndex(At(k), k, i))
               \/ \E v \in Elems : \/ Answer("LSET", k, ListSet(At(k), k, i, v))
                                   \/ Answer("LREM", k, ListRem(At(k), k, i, v))
               \/ \E j \in Indices : \/ Answer("LRANGE", k, ListRange(At(k), k, i, j))
                                     \/ Answer("LTRIM", k, ListTrim(At(k), k, i, j))
  BY DEF ListCommand
<1> DEFINE d == At(k)
<1>2. Agree(d, Live, k) /\ Promise!At(k) = Live
  BY LiveParts
<1>3. ASSUME NEW cmd, NEW r, NEW q, Answer(cmd, k, r), Alike(d, Live, k, r, q)
      PROVE  Promise!Answer(cmd, k, q)
  BY <1>3, MethodPromised
<1>4. \A n \in Nat : Room(k, n) => Promise!Room(k, n)
  BY RoomPromised
<1>5. Promise!Values = Values /\ \A vs \in Values : Len(vs) \in Nat
  BY DEF Values, Promise!Values
<1>6. Indices \subseteq Int
  BY KeyspaceAssumption
<1> HIDE DEF d
<1>7. CASE Answer("LLEN", k, ListLen(d, k))
  BY <1>2, <1>3, <1>7, AlikeListMethods, SameListMethods DEF Promise!ListCommand
<1>8. ASSUME NEW left \in BOOLEAN, Answer("POP", k, ListPop(d, k, left)) PROVE Promise!ListCommand
  BY <1>2, <1>3, <1>8, AlikeListMethods, SameListMethods DEF Promise!ListCommand
<1>9. ASSUME NEW left \in BOOLEAN, NEW vs \in Values, Room(k, Len(vs)),
             \/ Answer("PUSH", k, ListPush(d, k, vs, left))
             \/ Answer("PUSHX", k, ListPushX(d, k, vs, left))
      PROVE  Promise!ListCommand
  <2>1. Promise!Room(k, Len(vs)) /\ vs \in Promise!Values
    BY <1>4, <1>5, <1>9
  <2>2. \/ Promise!Answer("PUSH", k, ListPush(Live, k, vs, left))
        \/ Promise!Answer("PUSHX", k, ListPushX(Live, k, vs, left))
    BY <1>2, <1>3, <1>9, AlikeListMethods
  <2> QED
    BY <1>2, <2>1, <2>2, SameListMethods DEF Promise!ListCommand
<1>10. ASSUME NEW left \in BOOLEAN, NEW v \in Elems, NEW p \in Elems, Room(k, 1),
              Answer("LINSERT", k, ListInsert(d, k, left, p, v))
       PROVE  Promise!ListCommand
  <2>1. Promise!Room(k, 1)
    BY <1>4, <1>10
  <2>2. Promise!Answer("LINSERT", k, ListInsert(Live, k, left, p, v))
    BY <1>2, <1>3, <1>10, AlikeListMethods
  <2> QED
    BY <1>2, <2>1, <2>2, SameListMethods DEF Promise!ListCommand
<1>11. ASSUME NEW i \in Indices, Answer("LINDEX", k, ListIndex(d, k, i)) PROVE Promise!ListCommand
  <2>1. Promise!Answer("LINDEX", k, ListIndex(Live, k, i))
    BY <1>2, <1>3, <1>11, AlikeListMethods
  <2> QED
    BY <1>2, <2>1, SameListMethods DEF Promise!ListCommand
<1>12. ASSUME NEW i \in Indices, NEW v \in Elems,
              \/ Answer("LSET", k, ListSet(d, k, i, v))
              \/ Answer("LREM", k, ListRem(d, k, i, v))
       PROVE  Promise!ListCommand
  <2>1. \/ Promise!Answer("LSET", k, ListSet(Live, k, i, v))
        \/ Promise!Answer("LREM", k, ListRem(Live, k, i, v))
    BY <1>2, <1>3, <1>12, AlikeListMethods
  <2> QED
    BY <1>2, <2>1, SameListMethods DEF Promise!ListCommand
<1>13. ASSUME NEW i \in Indices, NEW j \in Indices,
              \/ Answer("LRANGE", k, ListRange(d, k, i, j))
              \/ Answer("LTRIM", k, ListTrim(d, k, i, j))
       PROVE  Promise!ListCommand
  <2>1. \/ Promise!Answer("LRANGE", k, ListRange(Live, k, i, j))
        \/ Promise!Answer("LTRIM", k, ListTrim(Live, k, i, j))
    BY <1>2, <1>3, <1>6, <1>13, AlikeListMethods
  <2> QED
    BY <1>2, <2>1, SameListMethods DEF Promise!ListCommand
<1> QED
  BY <1>1, <1>7, <1>8, <1>9, <1>10, <1>11, <1>12, <1>13 DEF d


LEMMA HashPromised == HashCommand => Promise!HashCommand
<1> SUFFICES ASSUME HashCommand PROVE Promise!HashCommand
  OBVIOUS
<1>1. PICK k \in scope.keys :
         \/ Answer("HLEN", k, HashLen(At(k), k))
         \/ Answer("HGETALL", k, HashGetAll(At(k), k))
         \/ \E fs \in (SUBSET Fields) \ {{}} : Answer("HDEL", k, HashDel(At(k), k, fs))
         \/ \E f \in Fields :
               \/ Answer("HGET", k, HashGet(At(k), k, f))
               \/ Answer("HEXISTS", k, HashExists(At(k), k, f))
               \/ \E b \in scope.strings : \/ Answer("HSET", k, HashSet(At(k), k, f, b))
                                           \/ Answer("HSETNX", k, HashSetNx(At(k), k, f, b))
               \/ \E n \in Deltas : Answer("HINCRBY", k, HashIncrBy(At(k), k, f, n))
  BY DEF HashCommand
<1> DEFINE d == At(k)
<1>2. Agree(d, Live, k) /\ Promise!At(k) = Live
  BY LiveParts
<1>3. ASSUME NEW cmd, NEW r, NEW q, Answer(cmd, k, r), Alike(d, Live, k, r, q)
      PROVE  Promise!Answer(cmd, k, q)
  BY <1>3, MethodPromised
<1> HIDE DEF d
<1>4. CASE Answer("HLEN", k, HashLen(d, k)) \/ Answer("HGETALL", k, HashGetAll(d, k))
  BY <1>2, <1>3, <1>4, AlikeHashMethods, SameHashMethods DEF Promise!HashCommand
<1>5. ASSUME NEW fs \in (SUBSET Fields) \ {{}}, Answer("HDEL", k, HashDel(d, k, fs))
      PROVE  Promise!HashCommand
  BY <1>2, <1>3, <1>5, AlikeHashMethods, SameHashMethods DEF Promise!HashCommand
<1>6. ASSUME NEW f \in Fields, \/ Answer("HGET", k, HashGet(d, k, f))
                               \/ Answer("HEXISTS", k, HashExists(d, k, f))
      PROVE  Promise!HashCommand
  BY <1>2, <1>3, <1>6, AlikeHashMethods, SameHashMethods DEF Promise!HashCommand
<1>7. ASSUME NEW f \in Fields, NEW b \in scope.strings,
             \/ Answer("HSET", k, HashSet(d, k, f, b))
             \/ Answer("HSETNX", k, HashSetNx(d, k, f, b))
      PROVE  Promise!HashCommand
  <2>1. \/ Promise!Answer("HSET", k, HashSet(Live, k, f, b))
        \/ Promise!Answer("HSETNX", k, HashSetNx(Live, k, f, b))
    BY <1>2, <1>3, <1>7, AlikeHashMethods
  <2> QED
    BY <1>2, <2>1, SameHashMethods DEF Promise!HashCommand
<1>8. ASSUME NEW f \in Fields, NEW n \in Deltas, Answer("HINCRBY", k, HashIncrBy(d, k, f, n))
      PROVE  Promise!HashCommand
  <2>1. Promise!Answer("HINCRBY", k, HashIncrBy(Live, k, f, n))
    BY <1>2, <1>3, <1>8, AlikeHashMethods
  <2> QED
    BY <1>2, <2>1, SameHashMethods DEF Promise!HashCommand
<1> QED
  BY <1>1, <1>4, <1>5, <1>6, <1>7, <1>8 DEF d

LEMMA ZSetPromised == ZSetCommand => Promise!ZSetCommand
<1> SUFFICES ASSUME ZSetCommand PROVE Promise!ZSetCommand
  OBVIOUS
<1>1. PICK k \in scope.keys :
         \/ Answer("ZCARD", k, ZCard(At(k), k))
         \/ \E ms \in (SUBSET Elems) \ {{}} : Answer("ZREM", k, ZRem(At(k), k, ms))
         \/ \E m, score \in Elems : Answer("ZADD", k, ZAdd(At(k), k, score, m))
         \/ \E i, j \in Indices : Answer("ZRANGE", k, ZRange(At(k), k, i, j))
  BY DEF ZSetCommand
<1> DEFINE d == At(k)
<1>2. Agree(d, Live, k) /\ Promise!At(k) = Live
  BY LiveParts
<1>3. ASSUME NEW cmd, NEW r, NEW q, Answer(cmd, k, r), Alike(d, Live, k, r, q)
      PROVE  Promise!Answer(cmd, k, q)
  BY <1>3, MethodPromised
<1> HIDE DEF d
<1>4. CASE Answer("ZCARD", k, ZCard(d, k))
  BY <1>2, <1>3, <1>4, AlikeZSetMethods, SameZSetMethods DEF Promise!ZSetCommand
<1>5. ASSUME NEW ms \in (SUBSET Elems) \ {{}}, Answer("ZREM", k, ZRem(d, k, ms))
      PROVE  Promise!ZSetCommand
  BY <1>2, <1>3, <1>5, AlikeZSetMethods, SameZSetMethods DEF Promise!ZSetCommand
<1>6. ASSUME NEW m \in Elems, NEW score \in Elems, Answer("ZADD", k, ZAdd(d, k, score, m))
      PROVE  Promise!ZSetCommand
  <2>1. Promise!Answer("ZADD", k, ZAdd(Live, k, score, m))
    BY <1>2, <1>3, <1>6, AlikeZSetMethods
  <2> QED
    BY <1>2, <2>1, SameZSetMethods DEF Promise!ZSetCommand
<1>7. ASSUME NEW i \in Indices, NEW j \in Indices, Answer("ZRANGE", k, ZRange(d, k, i, j))
      PROVE  Promise!ZSetCommand
  <2>1. Promise!Answer("ZRANGE", k, ZRange(Live, k, i, j))
    BY <1>2, <1>3, <1>7, AlikeZSetMethods
  <2> QED
    BY <1>2, <2>1, SameZSetMethods DEF Promise!ZSetCommand
<1> QED
  BY <1>1, <1>4, <1>5, <1>6, <1>7 DEF d

LEMMA StreamPromised == Inv /\ StreamCommand => Promise!StreamCommand
<1> SUFFICES ASSUME Inv, StreamCommand PROVE Promise!StreamCommand
  OBVIOUS
<1>1. PICK k \in scope.keys :
         \/ Answer("XLEN", k, StreamLen(At(k), k))
         \/ \E whole \in BOOLEAN :
               \/ Answer("XRANGE", k, StreamRange(At(k), k, whole))
               \/ Answer("XREVRANGE", k, StreamRevRange(At(k), k, whole))
         \/ \E auto \in BOOLEAN, v \in Elems :
               Room(k, 1) /\ Answer("XADD", k, StreamAdd(At(k), k, auto, v))
         \/ \E ids \in (SUBSET (1 .. MaxLen)) \ {{}} : Answer("XDEL", k, StreamDel(At(k), k, ids))
  BY DEF StreamCommand
<1> DEFINE d == At(k)
<1>2. Agree(d, Live, k) /\ Promise!At(k) = Live
  BY LiveParts
<1>3. ASSUME NEW cmd, NEW r, NEW q, Answer(cmd, k, r), Alike(d, Live, k, r, q)
      PROVE  Promise!Answer(cmd, k, q)
  BY <1>3, MethodPromised
<1> HIDE DEF d
<1>4. CASE Answer("XLEN", k, StreamLen(d, k))
  BY <1>2, <1>3, <1>4, AlikeStreamMethods, SameStreamMethods DEF Promise!StreamCommand
<1>5. ASSUME NEW whole \in BOOLEAN, \/ Answer("XRANGE", k, StreamRange(d, k, whole))
                                    \/ Answer("XREVRANGE", k, StreamRevRange(d, k, whole))
      PROVE  Promise!StreamCommand
  BY <1>2, <1>3, <1>5, AlikeStreamMethods, SameStreamMethods DEF Promise!StreamCommand
<1>6. ASSUME NEW auto \in BOOLEAN, NEW v \in Elems, Room(k, 1), Answer("XADD", k, StreamAdd(d, k, auto, v))
      PROVE  Promise!StreamCommand
  <2>1. Promise!Room(k, 1)
    BY <1>6, RoomPromised
  <2>2. Promise!Answer("XADD", k, StreamAdd(Live, k, auto, v))
    BY <1>2, <1>3, <1>6, AlikeStreamMethods
  <2> QED
    BY <1>2, <2>1, <2>2, SameStreamMethods DEF Promise!StreamCommand
<1>7. ASSUME NEW ids \in (SUBSET (1 .. MaxLen)) \ {{}}, Answer("XDEL", k, StreamDel(d, k, ids))
      PROVE  Promise!StreamCommand
  BY <1>2, <1>3, <1>7, AlikeStreamMethods, SameStreamMethods DEF Promise!StreamCommand
<1> QED
  BY <1>1, <1>4, <1>5, <1>6, <1>7 DEF d


LEMMA EvictedAgree ==
    ASSUME NEW d, NEW k, Visible(d, now) = Visible(db, now), \A j \in DOMAIN d : d[j] = db[j],
           Has(d, k) => ~Expired(d[k], now)
    PROVE  Agree(d, Live, k)
<1>1. Has(d, k) <=> Has(Live, k)
  BY LiveEntries DEF Visible, Has
<1>2. Has(d, k) => d[k] = Live[k]
  BY <1>1, LiveEntries DEF Has
<1> QED
  BY <1>1, <1>2 DEF Agree

LEMMA AgreeElsewhere ==
    ASSUME NEW d, NEW e, NEW x, NEW y, NEW k, NEW j, Touched(d, x, k), Touched(e, y, k),
           Agree(d, e, j), j # k
    PROVE  Agree(x, y, j)
  BY DEF Touched, Agree, Has

\* SMOVE reaches two keys: it takes the member out under the one and adds it
\* under the other.
LEMMA AlikeMoves ==
    ASSUME NEW d, NEW e, NEW src, NEW dst, NEW m, NEW t, Agree(d, e, src), Agree(d, e, dst),
           PurgeExpiredAll(d, t) = PurgeExpiredAll(e, t)
    PROVE  /\ SetMove(d, src, dst, m).reply = SetMove(e, src, dst, m).reply
           /\ PurgeExpiredAll(SetMove(d, src, dst, m).data, t) = PurgeExpiredAll(SetMove(e, src, dst, m).data, t)
<1>0. /\ Has(d, src) <=> Has(e, src)
      /\ Has(d, src) => d[src] = e[src]
  BY DEF Agree
<1>1. CASE ~(Is(d, src, "set") /\ m \in d[src].value.members)
  <2>1. \E x : SetMove(d, src, dst, m) = Result(d, x) /\ SetMove(e, src, dst, m) = Result(e, x)
    <3>1. CASE ~Has(d, src)
      BY <1>0, <3>1 DEF SetMove
    <3>2. CASE Has(d, src) /\ ~Is(d, src, "set")
      BY <1>0, <3>2 DEF SetMove, WrongType, Is
    <3>3. CASE Is(d, src, "set") /\ m \notin d[src].value.members
      BY <1>0, <3>3 DEF SetMove, Is
    <3> QED
      BY <1>1, <3>1, <3>2, <3>3
  <2> QED
    BY <2>1, ResultParts
<1>2. CASE Is(d, src, "set") /\ m \in d[src].value.members
  <2> DEFINE x == Left(d, src, m)
             y == Left(e, src, m)
             Rest(z) == IF ~Has(z, dst) THEN Result(Insert(z, dst, SetValue({m}), None), Integer(1))
                        ELSE IF Is(z, dst, "set")
                        THEN Result(Update(z, dst, SetValue(z[dst].value.members \cup {m})), Integer(1))
                        ELSE WrongType(z)
  <2>0. Has(d, src) /\ Has(e, src) /\ Is(e, src, "set") /\ d[src] = e[src]
    BY <1>0, <1>2 DEF Is
  <2>1. SetMove(d, src, dst, m) = Rest(x)
    BY <1>2, <2>0 DEF SetMove, Left, UpdateOrDrop
  <2>2. SetMove(e, src, dst, m) = Rest(y)
    BY <1>2, <2>0 DEF SetMove, Left, UpdateOrDrop
  <2>3. Touched(d, x, src) /\ Touched(e, y, src) /\ Agree(x, y, src)
    BY <2>0, TouchedParts, AgreeParts DEF Left
  <2> HIDE DEF x, y
  <2>4. PurgeExpiredAll(x, t) = PurgeExpiredAll(y, t)
    BY <2>3, AlikeVisible
  <2>5. Agree(x, y, dst)
    BY <2>3, AgreeElsewhere
  <2>6. Alike(x, y, dst, Rest(x), Rest(y))
    <3>1. /\ Has(x, dst) <=> Has(y, dst)
          /\ Has(x, dst) => x[dst] = y[dst]
      BY <2>5 DEF Agree
    <3> QED
      BY <2>5, <3>1, AlikeForms DEF WrongType, Is
  <2> HIDE DEF Rest
  <2>7. Rest(x).reply = Rest(y).reply
    BY <2>6 DEF Alike
  <2>8. PurgeExpiredAll(Rest(x).data, t) = PurgeExpiredAll(Rest(y).data, t)
    BY <2>4, <2>6, AlikeVisible DEF Alike
  <2> QED
    BY <2>1, <2>2, <2>7, <2>8
<1> QED
  BY <1>1, <1>2

LEMMA SetPromised == SetCommand => Promise!SetCommand
<1> SUFFICES ASSUME SetCommand PROVE Promise!SetCommand
  OBVIOUS
<1>1. PICK k \in scope.keys :
         \/ Answer("SMEMBERS", k, SetMembers(At(k), k))
         \/ Answer("SCARD", k, SetCard(At(k), k))
         \/ \E ms \in (SUBSET Elems) \ {{}} :
               \/ Answer("SADD", k, SetAdd(At(k), k, ms))
               \/ Answer("SREM", k, SetRemove(At(k), k, ms))
         \/ \E m \in Elems :
               \/ Answer("SISMEMBER", k, SetIsMember(At(k), k, m))
               \/ \E dst \in scope.keys :
                     Answer("SMOVE", k, SetMove(Evict(At(k), dst, now), k, dst, m))
  BY DEF SetCommand
<1> DEFINE d == At(k)
<1>2. Agree(d, Live, k) /\ Promise!At(k) = Live
  BY LiveParts
<1>3. ASSUME NEW cmd, NEW r, NEW q, Answer(cmd, k, r), Alike(d, Live, k, r, q)
      PROVE  Promise!Answer(cmd, k, q)
  BY <1>3, MethodPromised
<1>4. ASSUME NEW m \in Elems, NEW dst \in scope.keys,
             Answer("SMOVE", k, SetMove(Evict(d, dst, now), k, dst, m))
      PROVE  Promise!SetCommand
  <2> DEFINE x == Evict(d, dst, now)
  <2>1. Visible(x, now) = Visible(db, now) /\ PurgeExpiredAll(x, now) = Live
    BY EvictInvisible DEF At, Live
  <2>2. /\ \A j \in DOMAIN x : d[j] = x[j] /\ j \in DOMAIN d
        /\ Has(x, dst) => ~Expired(x[dst], now)
    BY DEF Evict, Drop, Forget, Has
  <2>3. /\ \A j \in DOMAIN d : d[j] = db[j]
        /\ Has(d, k) => ~Expired(d[k], now)
    BY DEF At, Evict, Drop, Forget, Has
  <2> HIDE DEF x, d
  <2>4. Agree(x, Live, k) /\ Agree(x, Live, dst)
    <3>1. \A j \in DOMAIN x : x[j] = db[j]
      BY <2>2, <2>3
    <3>2. Has(x, k) => ~Expired(x[k], now)
      BY <2>2, <2>3 DEF Has
    <3> QED
      BY <2>1, <2>2, <3>1, <3>2, EvictedAgree
  <2>5. PurgeExpiredAll(x, now) = PurgeExpiredAll(Live, now)
    BY <2>1, LiveParts
  <2> DEFINE r == SetMove(x, k, dst, m)
             q == SetMove(Live, k, dst, m)
  <2>6. r.reply = q.reply /\ PurgeExpiredAll(r.data, now) = PurgeExpiredAll(q.data, now)
    BY <2>4, <2>5, AlikeMoves
  <2>7. Answer("SMOVE", k, r)
    BY <1>4 DEF x
  <2> HIDE DEF r, q
  <2>8. Promise!Answer("SMOVE", k, q)
    BY <2>6, <2>7, PromiseAnswer
  <2>9. Promise!Evict(Promise!At(k), dst, now) = Live
    <3>1. Promise!At(dst) = Live
      BY LiveParts
    <3> QED
      BY <1>2, <3>1 DEF Promise!At
  <2>10. q = Promise!SetMove(Promise!Evict(Promise!At(k), dst, now), k, dst, m)
    BY <2>9, SameSetMethods DEF q
  <2> QED
    BY <2>8, <2>10 DEF Promise!SetCommand
<1> HIDE DEF d
<1>5. CASE Answer("SMEMBERS", k, SetMembers(d, k)) \/ Answer("SCARD", k, SetCard(d, k))
  BY <1>2, <1>3, <1>5, AlikeSetMethods, SameSetMethods DEF Promise!SetCommand
<1>6. ASSUME NEW ms \in (SUBSET Elems) \ {{}}, \/ Answer("SADD", k, SetAdd(d, k, ms))
                                               \/ Answer("SREM", k, SetRemove(d, k, ms))
      PROVE  Promise!SetCommand
  BY <1>2, <1>3, <1>6, AlikeSetMethods, SameSetMethods DEF Promise!SetCommand
<1>7. ASSUME NEW m \in Elems, Answer("SISMEMBER", k, SetIsMember(d, k, m))
      PROVE  Promise!SetCommand
  BY <1>2, <1>3, <1>7, AlikeSetMethods, SameSetMethods DEF Promise!SetCommand
<1> QED
  BY <1>1, <1>4, <1>5, <1>6, <1>7 DEF d


----------------------------------------------------------------------------
(* Key commands: EXPIRE and DEL are the two that look at an expired entry. *)

LEMMA ExpiredEntry ==
    ASSUME NEW k, Has(db, k), ~Has(Live, k)
    PROVE  PurgeExpiredAll(Drop(db, k), now) = Live
<1>1. Expired(db[k], now)
  BY LiveEntries DEF Has, Visible
<1>2. Evict(db, k, now) = Drop(db, k)
  BY <1>1 DEF Evict
<1> QED
  BY <1>2, EvictInvisible DEF Live

LEMMA StoredPromised ==
    ASSUME NEW cmd, NEW k, NEW r, NEW q, Answer(cmd, k, r), Alike(db, Live, k, r, q)
    PROVE  Promise!Answer(cmd, k, q)
<1>1. r.reply = q.reply
  BY DEF Alike
<1>2. Touched(db, r.data, k) /\ Touched(Live, q.data, k) /\ Agree(r.data, q.data, k)
  BY DEF Alike
<1>3. PurgeExpiredAll(db, now) = PurgeExpiredAll(Live, now)
  BY PurgeTwice DEF Live
<1>4. PurgeExpiredAll(r.data, now) = PurgeExpiredAll(q.data, now)
  BY <1>2, <1>3, AlikeVisible
<1> QED
  BY <1>1, <1>4, PromiseAnswer

LEMMA AnswerParts ==
    ASSUME NEW cmd, NEW k, NEW r, Answer(cmd, k, r)
    PROVE  /\ last'.cmd = cmd /\ last'.key = k /\ reply' = r.reply /\ now' = now
           /\ Live' = PurgeExpiredAll(r.data, now)
<1>1. db' = Settle(r.data, now) /\ now' = now /\ reply' = r.reply
      /\ last' = [cmd |-> cmd, key |-> k, bit |-> 1 - last.bit]
  BY DEF Answer
<1>2. Live' = PurgeExpiredAll(db', now')
  BY DEF Live
<1> QED
  BY <1>1, <1>2, SettleParts

LEMMA AgreeUnlessExpired ==
    ASSUME NEW k, ~(Has(db, k) /\ ~Has(Live, k))
    PROVE  Agree(db, Live, k)
  BY LiveEntries DEF Agree

LEMMA DelPromised ==
    ASSUME NEW k \in scope.keys, Del(k)
    PROVE  Promise!KeyCommand \/ DelCountsExpired
<1>0. Answer("DEL", k, RemoveKey(db, k))
  BY DEF Del
<1>1. CASE Has(db, k) /\ ~Has(Live, k)
  <2>1. RemoveKey(db, k) = Result(Drop(db, k), Integer(1))
    BY <1>1 DEF RemoveKey
  <2>2. RemoveKey(db, k).data = Drop(db, k) /\ RemoveKey(db, k).reply = Integer(1)
    BY <2>1, ResultParts
  <2>3. Live' = Live
    BY <1>0, <1>1, <2>2, AnswerParts, ExpiredEntry
  <2> QED
    BY <1>0, <1>1, <2>2, <2>3, AnswerParts DEF DelCountsExpired
<1>2. CASE ~(Has(db, k) /\ ~Has(Live, k))
  <2>1. Agree(db, Live, k)
    BY <1>2, AgreeUnlessExpired
  <2>2. Alike(db, Live, k, RemoveKey(db, k), RemoveKey(Live, k))
    BY <2>1, AlikeKeyMethods
  <2>3. Promise!Answer("DEL", k, RemoveKey(Live, k))
    BY <1>0, <2>2, StoredPromised
  <2> QED
    BY <2>3, SameKeyMethods DEF Promise!KeyCommand, Promise!Del
<1> QED
  BY <1>1, <1>2

LEMMA ExpirePromised ==
    ASSUME NEW k, NEW ms, Answer("EXPIRE", k, SetExpireMs(db, k, now, ms))
    PROVE  Promise!Answer("EXPIRE", k, SetExpireMs(Live, k, now, ms)) \/ ExpireFindsExpired
<1>1. CASE Has(db, k) /\ ~Has(Live, k)
  <2> DEFINE x == [db EXCEPT ![k].expires_at = now + ms]
  <2>1. SetExpireMs(db, k, now, ms) = Result(x, Integer(1))
    BY <1>1 DEF SetExpireMs
  <2>2. SetExpireMs(db, k, now, ms).data = x /\ SetExpireMs(db, k, now, ms).reply = Integer(1)
    BY <2>1, ResultParts
  <2>3. Drop(x, k) = Drop(db, k)
    BY DEF Drop, Forget
  <2> HIDE DEF x
  <2>4. Live' = PurgeExpiredAll(x, now)
    BY <2>2, AnswerParts
  <2>5. Drop(PurgeExpiredAll(x, now), k) = PurgeExpiredAll(Drop(x, k), now)
    BY PurgeDrop
  <2>6. Drop(Live', k) = Live
    BY <1>1, <2>3, <2>4, <2>5, ExpiredEntry
  <2> QED
    BY <1>1, <2>2, <2>6, AnswerParts DEF ExpireFindsExpired
<1>2. CASE ~(Has(db, k) /\ ~Has(Live, k))
  <2>1. Agree(db, Live, k)
    BY <1>2, AgreeUnlessExpired
  <2>2. Alike(db, Live, k, SetExpireMs(db, k, now, ms), SetExpireMs(Live, k, now, ms))
    BY <2>1, AlikeKeyMethods
  <2> QED
    BY <2>2, StoredPromised
<1> QED
  BY <1>1, <1>2

LEMMA WholePromised == DbSize \/ KeysAll \/ FlushDb => Promise!KeyCommand
<1>0. PurgeExpiredAll(db, now) = Live /\ PurgeExpiredAll(Live, now) = Live
  BY PurgeTwice DEF Live
<1>1. ASSUME DbSize PROVE Promise!DbSize
  <2>1. Answer("DBSIZE", None, KeyCount(Live))
    BY <1>0, <1>1 DEF DbSize
  <2>2. Promise!Answer("DBSIZE", None, KeyCount(Live))
    BY <2>1, PromiseAnswer
  <2> QED
    BY <1>0, <2>2, SameKeyMethods DEF Promise!DbSize
<1>2. ASSUME KeysAll PROVE Promise!KeysAll
  <2>1. Answer("KEYS", None, KeyList(Live))
    BY <1>0, <1>2 DEF KeysAll
  <2>2. Promise!Answer("KEYS", None, KeyList(Live))
    BY <2>1, PromiseAnswer
  <2> QED
    BY <1>0, <2>2, SameKeyMethods DEF Promise!KeysAll
<1>3. ASSUME FlushDb PROVE Promise!FlushDb
  <2>1. Flush(db).reply = Flush(Live).reply
    BY ResultParts DEF Flush
  <2>2. \A d : Flush(d).data = Forget(d, DOMAIN d)
    BY ResultParts DEF Flush
  <2>3. \A d : Visible(Forget(d, DOMAIN d), now) = {}
    BY DEF Visible, Forget
  <2>4. PurgeExpiredAll(Forget(db, DOMAIN db), now) = PurgeExpiredAll(Forget(Live, DOMAIN Live), now)
    BY <2>3, PurgeEqual
  <2>5. PurgeExpiredAll(Flush(db).data, now) = PurgeExpiredAll(Flush(Live).data, now)
    BY <2>2, <2>4
  <2>6. Promise!Answer("FLUSHDB", None, Flush(Live))
    BY <1>3, <2>1, <2>5, PromiseAnswer DEF FlushDb
  <2> QED
    BY <2>6, SameKeyMethods DEF Promise!FlushDb
<1> QED
  BY <1>1, <1>2, <1>3 DEF Promise!KeyCommand

LEMMA KeyPromised == KeyCommand => Promise!KeyCommand \/ ExpireFindsExpired \/ DelCountsExpired
<1> SUFFICES ASSUME KeyCommand PROVE Promise!KeyCommand \/ ExpireFindsExpired \/ DelCountsExpired
  OBVIOUS
<1>1. ASSUME NEW k \in scope.keys, NEW b \in scope.strings, NEW at \in Deadlines, Set(k, b, at)
      PROVE  Promise!KeyCommand
  <2> DEFINE r == SetStringRef(db, k, b, at)
             q == SetStringRef(Live, k, b, at)
  <2>1. Alike(db, Live, k, r, q)
    <3>1. /\ Touched(db, Insert(db, k, StringValue(b), at), k)
          /\ Touched(Live, Insert(Live, k, StringValue(b), at), k)
      BY TouchedParts
    <3>2. Agree(Insert(db, k, StringValue(b), at), Insert(Live, k, StringValue(b), at), k)
      BY AgreeParts
    <3> QED
      BY <3>1, <3>2, ResultParts DEF Alike, SetStringRef
  <2>2. Answer("SET", k, r)
    BY <1>1 DEF Set
  <2>3. q = Promise!SetStringRef(Live, k, b, at)
    BY SameStringMethods
  <2> HIDE DEF r, q
  <2>4. Promise!Answer("SET", k, q)
    BY <2>1, <2>2, StoredPromised
  <2>5. at \in Promise!Deadlines
    BY <1>1 DEF Deadlines, Promise!Deadlines
  <2> QED
    BY <2>3, <2>4, <2>5 DEF Promise!KeyCommand, Promise!Set
<1>2. ASSUME NEW k \in scope.keys, Exist(k) \/ PersistKey(k) \/ Ttl(k) \/ PTtl(k) \/ Type(k)
      PROVE  Promise!KeyCommand
  <2> DEFINE d == At(k)
  <2>1. Agree(d, Live, k) /\ Promise!At(k) = Live
    BY LiveParts
  <2>2. ASSUME NEW cmd, NEW r, NEW q, Answer(cmd, k, r), Alike(d, Live, k, r, q)
        PROVE  Promise!Answer(cmd, k, q)
    BY <2>2, MethodPromised
  <2>3. \/ Answer("EXISTS", k, Exists(d, k)) \/ Answer("PERSIST", k, Persist(d, k))
        \/ Answer("TTL", k, TtlMs(d, k, now, Second)) \/ Answer("PTTL", k, TtlMs(d, k, now, 1))
        \/ Answer("TYPE", k, ValueType(d, k))
    BY <1>2 DEF Exist, PersistKey, Ttl, PTtl, Type
  <2> HIDE DEF d
  <2>4. \/ Promise!Answer("EXISTS", k, Exists(Live, k)) \/ Promise!Answer("PERSIST", k, Persist(Live, k))
        \/ Promise!Answer("TTL", k, TtlMs(Live, k, now, Second))
        \/ Promise!Answer("PTTL", k, TtlMs(Live, k, now, 1))
        \/ Promise!Answer("TYPE", k, ValueType(Live, k))
    BY <2>1, <2>2, <2>3, AlikeKeyMethods
  <2>5. Promise!Exist(k) \/ Promise!PersistKey(k) \/ Promise!Ttl(k) \/ Promise!PTtl(k) \/ Promise!Type(k)
    BY <2>1, <2>4, SameKeyMethods
       DEF Promise!Exist, Promise!PersistKey, Promise!Ttl, Promise!PTtl, Promise!Type
  <2> QED
    BY <2>5 DEF Promise!KeyCommand
<1>3. ASSUME NEW k \in scope.keys, NEW ttl \in Ttls, Expire(k, ttl) \/ PExpire(k, ttl)
      PROVE  Promise!KeyCommand \/ ExpireFindsExpired
  <2>1. \/ Promise!Answer("EXPIRE", k, SetExpireMs(Live, k, now, ttl * Second))
        \/ Promise!Answer("EXPIRE", k, SetExpireMs(Live, k, now, ttl))
        \/ ExpireFindsExpired
    BY <1>3, ExpirePromised DEF Expire, PExpire
  <2> QED
    BY <2>1, SameKeyMethods DEF Promise!KeyCommand, Promise!Expire, Promise!PExpire
<1> QED
  BY <1>1, <1>2, <1>3, DelPromised, WholePromised DEF KeyCommand

LEMMA CommandPromised ==
    Inv /\ Command => Promise!Command \/ ExpireFindsExpired \/ DelCountsExpired
  BY KeyPromised, StringPromised, ListPromised, HashPromised, SetPromised, ZSetPromised, StreamPromised
     DEF Command, Promise!Command

LEMMA TickPromised == Inv /\ Tick => Promise!Tick
<1> SUFFICES ASSUME Inv, Tick PROVE Promise!Tick
  OBVIOUS
<1>1. /\ Running /\ now < MaxTime /\ now' = now + 1 /\ db' = Settle(db, now') /\ scope' = scope
      /\ last' = [cmd |-> "tick", key |-> None, bit |-> 1 - last.bit] /\ reply' = Null
  BY DEF Tick
<1>2. now \in Int /\ IsStore(db)
  BY DEF Inv
<1>3. ASSUME NEW k \in DOMAIN db, Expired(db[k], now) PROVE Expired(db[k], now + 1)
  <2>1. db[k].expires_at \in Int \cup {None}
    BY <1>2 DEF IsStore, IsEntry
  <2> QED
    BY <1>2, <1>3, <2>1 DEF Expired
<1>4. DOMAIN Live = Visible(db, now) /\ \A k \in Visible(db, now) : Live[k] = db[k]
  BY PurgeParts DEF Live
<1>5. Visible(Live, now + 1) = Visible(db, now + 1)
  BY <1>3, <1>4 DEF Visible
<1>6. \A k \in Visible(db, now + 1) : Live[k] = db[k]
  BY <1>3, <1>4 DEF Visible
<1>7. PurgeExpiredAll(Live, now + 1) = PurgeExpiredAll(db, now + 1)
  BY <1>5, <1>6, PurgeEqual
<1>8. Live' = PurgeExpiredAll(db', now')
  BY DEF Live
<1>9. Live' = PurgeExpiredAll(Live, now')
  BY <1>1, <1>7, <1>8, SettleParts
<1>10. Promise!Settle(Live, now') = PurgeExpiredAll(Live, now')
  BY SameKeyMethods DEF Promise!Settle
<1>11. Promise!Running
  BY <1>1 DEF Running, Promise!Running, IsPanic, Promise!IsPanic
<1> QED
  BY <1>1, <1>9, <1>10, <1>11 DEF Promise!Tick, Null, Promise!Null

\* Every command answers and changes the visible entries as if entries vanished
\* at their deadline, except an EXPIRE or a DEL that finds an expired entry,
\* whatever the keys, the values, the deadlines and the sequence of commands.
THEOREM ExpiryIsInvisible == Spec => ExpiryInvisible
<1> DEFINE Seen == <<Live, now, last, reply, scope>>
<1>1. Inv /\ [Next]_vars => [Promise!Next \/ ExpireFindsExpired \/ DelCountsExpired]_Seen
  <2> SUFFICES ASSUME Inv, [Next]_vars
               PROVE  Promise!Next \/ ExpireFindsExpired \/ DelCountsExpired \/ Seen' = Seen
    OBVIOUS
  <2>1. CASE Command
    BY <2>1, CommandPromised DEF Promise!Next
  <2>2. CASE Tick
    BY <2>2, TickPromised DEF Promise!Next
  <2>3. CASE UNCHANGED vars
    BY <2>3 DEF vars, Live
  <2> QED
    BY <2>1, <2>2, <2>3 DEF Next
<1> QED
  BY <1>1, KeyspaceInv, PTL DEF Spec, ExpiryInvisible
=============================================================================
