------------------------------- MODULE Shard -------------------------------
(***************************************************************************)
(* The methods of MuonCache's `Shard` (src/src/muon_cache/store.rs) as     *)
(* pure operators.  A shard's `data` maps the keys it has to their entries *)
(* (a value and its deadline).  An operator takes the shard and returns    *)
(* the shard it leaves behind together with the reply of the command that  *)
(* called it.                                                              *)
(*                                                                         *)
(* Almost every method begins with                                         *)
(*     if self.is_expired(key) { self.remove(key); }                       *)
(* That prologue is the operator Evict; the operators below are the rest   *)
(* of the method and are applied to Evict(d, k, now).  RemoveKey,          *)
(* SetStringRef and SetExpireMs have no such prologue, as in the code.     *)
(***************************************************************************)
EXTENDS Integers, Sequences, FiniteSets, SequencesExt

CONSTANTS Keys,    \* the keys clients use
          Width,   \* bits of the integers the store keeps (64 in the code)
          None     \* Rust's None: no deadline, no number

ASSUME ShardAssumption == Width \in Nat \ {0} /\ None \notin Int

\* Arithmetic, stated because the provers have no rules for powers.
ASSUME PowersOfTwo == 2 ^ (Width - 1) > 0 /\ 2 ^ Width = 2 * 2 ^ (Width - 1)

MinInt == -(2 ^ (Width - 1))
MaxInt == 2 ^ (Width - 1) - 1
I64 == MinInt .. MaxInt

\* i64 arithmetic of the release build
SaturatingAdd(m, n) ==
    IF m + n > MaxInt THEN MaxInt ELSE IF m + n < MinInt THEN MinInt ELSE m + n
WrappingAdd(m, n) == ((m + n - MinInt) % (2 ^ Width)) + MinInt
WrappingNeg(n) == WrappingAdd(0, -n)

----------------------------------------------------------------------------
(* Byte strings, reduced to what the commands tell apart: an optional      *)
(* decimal numeral followed by a number of other bytes.                    *)

Numeral(n) == [num |-> n, tail |-> 0]
Text(len) == [num |-> None, tail |-> len]

\* parse_i64_bytes: only a numeral with nothing behind it is an integer.
ParseI64(b) == IF b.tail = 0 THEN b.num ELSE None

Abs(n) == IF n < 0 THEN -n ELSE n
Digits(n) == CHOOSE c \in 1 .. 9 :
                Abs(n) < 10 ^ c /\ (c = 1 \/ Abs(n) >= 10 ^ (c - 1))
ByteLen(b) == b.tail + (IF b.num = None THEN 0
                        ELSE Digits(b.num) + (IF b.num < 0 THEN 1 ELSE 0))

----------------------------------------------------------------------------
(* Values, entries and replies.                                            *)

StringValue(b)  == [type |-> "string", bytes |-> b]
IntValue(n)     == [type |-> "int", n |-> n]
ListValue(s)    == [type |-> "list", items |-> s]
SetValue(s)     == [type |-> "set", members |-> s]
HashValue(f)    == [type |-> "hash", fields |-> f]
ZSetValue(f)    == [type |-> "zset", scores |-> f]
StreamValue(s)  == [type |-> "stream", entries |-> s]

Entry(v, at) == [value |-> v, expires_at |-> at]

Integer(n) == [int |-> n]
Blob(b)    == [blob |-> b]
Member(x)  == [member |-> x]        \* a blob that is a list item or a set member
Array(s)   == [array |-> s]
Bag(s)     == [unordered |-> s]     \* an array in the hash map's own order
Pairs(f)   == [pairs |-> f]
Simple(s)  == [simple |-> s]
Error(e)   == [err |-> e]
Null       == [nil |-> TRUE]
Panic      == [panic |-> TRUE]      \* the thread panics; the build aborts
OK         == Simple("OK")

IsError(r) == "err" \in DOMAIN r
IsPanic(r) == "panic" \in DOMAIN r

Result(d, r) == [data |-> d, reply |-> r]
WrongType(d) == Result(d, Error("WRONGTYPE"))
NotAnInteger(d) == Result(d, Error("NOTINT"))

----------------------------------------------------------------------------
(* Entries and deadlines.                                                  *)

Put(f, x, v) == [y \in DOMAIN f \cup {x} |-> IF y = x THEN v ELSE f[y]]
Forget(f, X) == [y \in DOMAIN f \ X |-> f[y]]
Single(x, v) == [y \in {x} |-> v]

Has(d, k) == k \in DOMAIN d
Is(d, k, type) == Has(d, k) /\ d[k].value.type = type
Expired(e, t) == e.expires_at # None /\ e.expires_at <= t

Drop(d, k) == Forget(d, {k})
Insert(d, k, v, at) == Put(d, k, Entry(v, at))
Update(d, k, v) == [d EXCEPT ![k].value = v]       \* the deadline is kept
UpdateOrDrop(d, k, v, empty) == IF empty THEN Drop(d, k) ELSE Update(d, k, v)

\* is_expired followed by remove, the prologue of most methods
Evict(d, k, t) == IF Has(d, k) /\ Expired(d[k], t) THEN Drop(d, k) ELSE d

\* purge_expired_all
PurgeExpiredAll(d, t) == Forget(d, {k \in DOMAIN d : Expired(d[k], t)})

\* Key commands

RemoveKey(d, k) == Result(Drop(d, k), Integer(IF Has(d, k) THEN 1 ELSE 0))

Exists(d, k) == Result(d, Integer(IF Has(d, k) THEN 1 ELSE 0))

SetExpireMs(d, k, t, ttl) ==
    IF Has(d, k) THEN Result([d EXCEPT ![k].expires_at = t + ttl], Integer(1))
                 ELSE Result(d, Integer(0))

Persist(d, k) ==
    IF Has(d, k) /\ d[k].expires_at # None
    THEN Result([d EXCEPT ![k].expires_at = None], Integer(1))
    ELSE Result(d, Integer(0))

\* ttl_ms with the replies of PTTL (unit 1) and of TTL (unit: a second)
TtlMs(d, k, t, unit) ==
    Result(d, Integer(IF ~Has(d, k) THEN -2
                      ELSE IF d[k].expires_at = None THEN -1
                      ELSE (d[k].expires_at - t) \div unit))

ValueType(d, k) ==
    Result(d, Simple(IF ~Has(d, k) THEN "none"
                     ELSE IF Is(d, k, "int") THEN "string"
                     ELSE d[k].value.type))

\* len, keys and keys_matching purge the whole shard first.
KeyCount(d) == Result(d, Integer(Cardinality(DOMAIN d)))
KeyList(d) == Result(d, Bag(DOMAIN d))
Flush(d) == Result(Forget(d, DOMAIN d), OK)

----------------------------------------------------------------------------
(* Strings and integers.                                                   *)

\* The byte string a String or Int value is read as; write_i64_bytes renders
\* an Int as a numeral.
BytesOf(v) == IF v.type = "int" THEN Numeral(v.n) ELSE v.bytes
IsString(d, k) == Is(d, k, "string") \/ Is(d, k, "int")

\* Mutant: GET does not know integer values.
GetStringOnly(d, k) ==
    IF ~Has(d, k) THEN Result(d, Null)
    ELSE IF Is(d, k, "string") THEN Result(d, Blob(d[k].value.bytes))
    ELSE WrongType(d)

GetString(d, k) ==
    IF ~Has(d, k) THEN Result(d, Null)
    ELSE IF IsString(d, k) THEN Result(d, Blob(BytesOf(d[k].value)))
    ELSE WrongType(d)

StrLen(d, k) ==
    IF ~Has(d, k) THEN Result(d, Integer(0))
    ELSE IF IsString(d, k) THEN Result(d, Integer(ByteLen(BytesOf(d[k].value))))
    ELSE WrongType(d)

SetStringRef(d, k, b, at) == Result(Insert(d, k, StringValue(b), at), OK)

SetNx(d, k, b) ==
    IF Has(d, k) THEN Result(d, Integer(0))
    ELSE Result(Insert(d, k, StringValue(b), None), Integer(1))

\* Mutant: the longer string is stored as a new entry, without the deadline.
AppendReinserts(d, k, len) ==
    LET old == IF Has(d, k) /\ IsString(d, k) THEN BytesOf(d[k].value) ELSE Text(0)
        new == [old EXCEPT !.tail = @ + len]
    IN  IF Has(d, k) /\ ~IsString(d, k) THEN WrongType(d)
        ELSE Result(Insert(d, k, StringValue(new), None), Integer(ByteLen(new)))

\* The appended bytes are `len` bytes that are not digits.
AppendBytes(d, k, len) ==
    LET longer == [BytesOf(d[k].value) EXCEPT !.tail = @ + len]
    IN  IF ~Has(d, k) THEN Result(Insert(d, k, StringValue(Text(len)), None), Integer(len))
        ELSE IF IsString(d, k) THEN Result(Update(d, k, StringValue(longer)), Integer(ByteLen(longer)))
        ELSE WrongType(d)

\* Mutant: the sum is not saturated.
IncrByUnbounded(d, k, delta) ==
    LET old == IF Has(d, k) /\ IsString(d, k) THEN ParseI64(BytesOf(d[k].value)) ELSE None
    IN  IF ~Has(d, k) THEN Result(Insert(d, k, IntValue(delta), None), Integer(delta))
        ELSE IF old # None THEN Result(Update(d, k, IntValue(old + delta)), Integer(old + delta))
        ELSE NotAnInteger(d)

\* A String that parses is promoted to an Int.
IncrBy(d, k, delta) ==
    LET old  == ParseI64(BytesOf(d[k].value))
        next == SaturatingAdd(old, delta)
    IN  IF ~Has(d, k) THEN Result(Insert(d, k, IntValue(delta), None), Integer(delta))
        ELSE IF IsString(d, k) /\ old # None THEN Result(Update(d, k, IntValue(next)), Integer(next))
        ELSE NotAnInteger(d)

----------------------------------------------------------------------------
(* Lists.                                                                  *)

Push(s, vs, left) == IF left THEN Reverse(vs) \o s ELSE s \o vs

ListPush(d, k, vs, left) ==
    LET longer == Push(d[k].value.items, vs, left)
    IN  IF ~Has(d, k) THEN Result(Insert(d, k, ListValue(Push(<<>>, vs, left)), None), Integer(Len(vs)))
        ELSE IF Is(d, k, "list") THEN Result(Update(d, k, ListValue(longer)), Integer(Len(longer)))
        ELSE WrongType(d)

ListPushX(d, k, vs, left) ==
    IF Has(d, k) THEN ListPush(d, k, vs, left) ELSE Result(d, Integer(0))

ListPop(d, k, left) ==
    LET s    == d[k].value.items
        rest == IF left THEN Tail(s) ELSE Front(s)
    IN  IF ~Has(d, k) THEN Result(d, Null)
        ELSE IF Is(d, k, "list")
        THEN Result(UpdateOrDrop(d, k, ListValue(rest), rest = <<>>),
                    Member(IF left THEN Head(s) ELSE Last(s)))
        ELSE WrongType(d)

\* The items between two client indices (negative ones count from the end),
\* as list_range and zrange cut them out.
Slice(s, start, stop) ==
    LET len == Len(s)
        lo  == IF start < 0 THEN len + start ELSE start
        hi  == IF stop < 0 THEN len + stop ELSE stop
        b   == IF lo < 0 THEN 0 ELSE lo
        e   == IF hi >= len THEN len - 1 ELSE hi
    IN  IF hi < 0 \/ b >= len \/ b > e THEN <<>> ELSE SubSeq(s, b + 1, e + 1)

ListRange(d, k, start, stop) ==
    IF ~Has(d, k) THEN Result(d, Array(<<>>))
    ELSE IF Is(d, k, "list") THEN Result(d, Array(Slice(d[k].value.items, start, stop)))
    ELSE WrongType(d)

ListLen(d, k) ==
    IF ~Has(d, k) THEN Result(d, Integer(0))
    ELSE IF Is(d, k, "list") THEN Result(d, Integer(Len(d[k].value.items)))
    ELSE WrongType(d)

\* The position (from 1) a client index names in s, or 0.
Position(s, index) ==
    LET idx == IF index < 0 THEN Len(s) + index ELSE index
    IN  IF idx < 0 \/ idx >= Len(s) THEN 0 ELSE idx + 1

ListIndex(d, k, index) ==
    LET p == Position(d[k].value.items, index)
    IN  IF ~Has(d, k) THEN Result(d, Null)
        ELSE IF ~Is(d, k, "list") THEN WrongType(d)
        ELSE IF p = 0 THEN Result(d, Null)
        ELSE Result(d, Member(d[k].value.items[p]))

\* Mutant: an index out of range writes the last item before it is reported.
ListSetClamps(d, k, index, v) ==
    LET s == d[k].value.items
    IN  IF Is(d, k, "list") /\ Position(s, index) # 0
        THEN Result(Update(d, k, ListValue([s EXCEPT ![Position(s, index)] = v])), OK)
        ELSE IF Is(d, k, "list")
        THEN Result(Update(d, k, ListValue([s EXCEPT ![Len(s)] = v])), Error("WRONGTYPE"))
        ELSE WrongType(d)

\* A missing key and an index out of range are reported as WRONGTYPE too.
ListSet(d, k, index, v) ==
    LET s == d[k].value.items
    IN  IF Is(d, k, "list") /\ Position(s, index) # 0
        THEN Result(Update(d, k, ListValue([s EXCEPT ![Position(s, index)] = v])), OK)
        ELSE WrongType(d)

\* The position of the first v in s
FirstAt(s, v) == CHOOSE i \in DOMAIN s : s[i] = v /\ \A j \in 1 .. i - 1 : s[j] # v

ListInsert(d, k, before, pivot, v) ==
    LET s    == d[k].value.items
        pos  == FirstAt(s, pivot)
        next == InsertAt(s, IF before THEN pos ELSE pos + 1, v)
    IN  IF ~Has(d, k) THEN Result(d, Integer(0))
        ELSE IF ~Is(d, k, "list") THEN WrongType(d)
        ELSE IF Contains(s, pivot) THEN Result(Update(d, k, ListValue(next)), Integer(Len(next)))
        ELSE Result(d, Integer(-1))

\* The positions LREM removes: every occurrence of v, or the first (count > 0)
\* or the last (count < 0) |count| of them; none for the smallest i64, whose
\* negation wraps to itself.
RemPositions(s, count, v) ==
    LET occ == {i \in DOMAIN s : s[i] = v}
    IN  IF count = 0 THEN occ
        ELSE IF count > 0 THEN {i \in occ : Cardinality({j \in occ : j < i}) < count}
        ELSE {i \in occ : Cardinality({j \in occ : j > i}) < WrappingNeg(count)}

\* The items at the positions that stay, in their order.
Without(s, I) ==
    LET kept == DOMAIN s \ I
        nth(i) == CHOOSE p \in kept : Cardinality({q \in kept : q <= p}) = i
    IN  [i \in 1 .. Cardinality(kept) |-> s[nth(i)]]

\* Mutant: the key of an emptied list stays.
ListRemKeeps(d, k, count, v) ==
    LET s   == d[k].value.items
        rem == RemPositions(s, count, v)
    IN  IF ~Has(d, k) THEN Result(d, Integer(0))
        ELSE IF Is(d, k, "list") THEN Result(Update(d, k, ListValue(Without(s, rem))), Integer(Cardinality(rem)))
        ELSE WrongType(d)

ListRem(d, k, count, v) ==
    LET s    == d[k].value.items
        rem  == RemPositions(s, count, v)
        next == Without(s, rem)
    IN  IF ~Has(d, k) THEN Result(d, Integer(0))
        ELSE IF Is(d, k, "list")
        THEN Result(UpdateOrDrop(d, k, ListValue(next), next = <<>>),
                    Integer(Cardinality(rem)))
        ELSE WrongType(d)

\* The first and the last index LTRIM keeps of a list of length len.
TrimStart(len, start) ==
    IF start < 0 THEN (IF len + start < 0 THEN 0 ELSE len + start)
    ELSE (IF start < len THEN start ELSE len)
TrimStop(len, stop) ==
    IF stop < 0 THEN (IF len + stop < -1 THEN -1 ELSE len + stop)
    ELSE (IF stop < len - 1 THEN stop ELSE len - 1)

\* LTRIM.  `stop` below -len becomes -1, which the cast to usize turns into the
\* largest index: e + 1 wraps to 0, truncate(0) empties the list and drain(..s)
\* panics unless s = 0.
ListTrim(d, k, start, stop) ==
    LET s    == d[k].value.items
        len  == Len(s)
        b    == TrimStart(len, start)
        e    == TrimStop(len, stop)
        huge == e = -1
        next == IF huge \/ b > e \/ b >= len THEN <<>> ELSE SubSeq(s, b + 1, e + 1)
    IN  IF ~Has(d, k) THEN Result(d, OK)
        ELSE IF ~Is(d, k, "list") THEN WrongType(d)
        ELSE IF huge /\ b \in 1 .. len - 1 THEN Result(d, Panic)
        ELSE Result(UpdateOrDrop(d, k, ListValue(next), next = <<>>), OK)

----------------------------------------------------------------------------
(* Hashes, sets, sorted sets: finite functions and sets.                   *)

\* hash_set, hash_set_ref and hash_set_bytes: an expired entry is overwritten
\* in place, its deadline reset, which is Evict and then an insertion.
HashSet(d, k, field, b) ==
    LET f == d[k].value.fields
    IN  IF ~Has(d, k) THEN Result(Insert(d, k, HashValue(Single(field, b)), None), Integer(1))
        ELSE IF Is(d, k, "hash")
        THEN Result(Update(d, k, HashValue(Put(f, field, b))),
                    Integer(IF field \in DOMAIN f THEN 0 ELSE 1))
        ELSE WrongType(d)

HashSetNx(d, k, field, b) ==
    IF Is(d, k, "hash") /\ field \in DOMAIN d[k].value.fields
    THEN Result(d, Integer(0))
    ELSE HashSet(d, k, field, b)

HashGet(d, k, field) ==
    LET f == d[k].value.fields
    IN  IF ~Has(d, k) THEN Result(d, Null)
        ELSE IF Is(d, k, "hash") THEN Result(d, IF field \in DOMAIN f THEN Blob(f[field]) ELSE Null)
        ELSE WrongType(d)

HashDel(d, k, fs) ==
    LET f == d[k].value.fields
    IN  IF ~Has(d, k) THEN Result(d, Integer(0))
        ELSE IF Is(d, k, "hash")
        THEN Result(UpdateOrDrop(d, k, HashValue(Forget(f, fs)), DOMAIN f \ fs = {}),
                    Integer(Cardinality(fs \cap DOMAIN f)))
        ELSE WrongType(d)

HashLen(d, k) ==
    IF ~Has(d, k) THEN Result(d, Integer(0))
    ELSE IF Is(d, k, "hash") THEN Result(d, Integer(Cardinality(DOMAIN d[k].value.fields)))
    ELSE WrongType(d)

HashGetAll(d, k) ==
    IF ~Has(d, k) THEN Result(d, Pairs(<<>>))
    ELSE IF Is(d, k, "hash") THEN Result(d, Pairs(d[k].value.fields))
    ELSE WrongType(d)

HashExists(d, k, field) ==
    IF ~Has(d, k) THEN Result(d, Integer(0))
    ELSE IF Is(d, k, "hash") THEN Result(d, Integer(IF field \in DOMAIN d[k].value.fields THEN 1 ELSE 0))
    ELSE WrongType(d)

HashIncrBy(d, k, field, delta) ==
    LET f    == d[k].value.fields
        old  == IF field \in DOMAIN f THEN ParseI64(f[field]) ELSE 0
        next == WrappingAdd(old, delta)
    IN  IF ~Has(d, k) THEN Result(Insert(d, k, HashValue(Single(field, Numeral(delta))), None), Integer(delta))
        ELSE IF Is(d, k, "hash") /\ old # None
        THEN Result(Update(d, k, HashValue(Put(f, field, Numeral(next)))), Integer(next))
        ELSE NotAnInteger(d)

\* Mutant: a set that is added to is stored as a new entry.
SetAddReinserts(d, k, ms) ==
    LET old == IF Is(d, k, "set") THEN d[k].value.members ELSE {}
    IN  IF Has(d, k) /\ ~Is(d, k, "set") THEN WrongType(d)
        ELSE Result(Insert(d, k, SetValue(old \cup ms), None), Integer(Cardinality(ms \ old)))

SetAdd(d, k, ms) ==
    LET s == d[k].value.members
    IN  IF ~Has(d, k) THEN Result(Insert(d, k, SetValue(ms), None), Integer(Cardinality(ms)))
        ELSE IF Is(d, k, "set") THEN Result(Update(d, k, SetValue(s \cup ms)), Integer(Cardinality(ms \ s)))
        ELSE WrongType(d)

SetRemove(d, k, ms) ==
    LET s == d[k].value.members
    IN  IF ~Has(d, k) THEN Result(d, Integer(0))
        ELSE IF Is(d, k, "set")
        THEN Result(UpdateOrDrop(d, k, SetValue(s \ ms), s \ ms = {}),
                    Integer(Cardinality(ms \cap s)))
        ELSE WrongType(d)

SetMembers(d, k) ==
    IF ~Has(d, k) THEN Result(d, Bag({}))
    ELSE IF Is(d, k, "set") THEN Result(d, Bag(d[k].value.members))
    ELSE WrongType(d)

SetIsMember(d, k, m) ==
    IF ~Has(d, k) THEN Result(d, Integer(0))
    ELSE IF Is(d, k, "set") THEN Result(d, Integer(IF m \in d[k].value.members THEN 1 ELSE 0))
    ELSE WrongType(d)

SetCard(d, k) ==
    IF ~Has(d, k) THEN Result(d, Integer(0))
    ELSE IF Is(d, k, "set") THEN Result(d, Integer(Cardinality(d[k].value.members)))
    ELSE WrongType(d)

\* Mutant: the key of an emptied source stays.
SetMoveKeeps(d, src, dst, m) ==
    LET s    == d[src].value.members
        left == Update(d, src, SetValue(s \ {m}))
    IN  IF ~Has(d, src) THEN Result(d, Integer(0))
        ELSE IF ~Is(d, src, "set") THEN WrongType(d)
        ELSE IF m \notin s THEN Result(d, Integer(0))
        ELSE IF ~Has(left, dst) THEN Result(Insert(left, dst, SetValue({m}), None), Integer(1))
        ELSE IF Is(left, dst, "set")
        THEN Result(Update(left, dst, SetValue(left[dst].value.members \cup {m})), Integer(1))
        ELSE WrongType(left)

\* Mutant: a destination of another type is removed before it is reported.
SetMoveDropsDest(d, src, dst, m) ==
    LET s    == d[src].value.members
        left == UpdateOrDrop(d, src, SetValue(s \ {m}), s = {m})
    IN  IF ~Has(d, src) THEN Result(d, Integer(0))
        ELSE IF ~Is(d, src, "set") THEN WrongType(d)
        ELSE IF m \notin s THEN Result(d, Integer(0))
        ELSE IF ~Has(left, dst) THEN Result(Insert(left, dst, SetValue({m}), None), Integer(1))
        ELSE IF Is(left, dst, "set")
        THEN Result(Update(left, dst, SetValue(left[dst].value.members \cup {m})), Integer(1))
        ELSE WrongType(Drop(left, dst))

\* set_move: the member leaves the source before the destination's type is
\* looked at.
SetMove(d, src, dst, m) ==
    LET s    == d[src].value.members
        left == UpdateOrDrop(d, src, SetValue(s \ {m}), s = {m})
    IN  IF ~Has(d, src) THEN Result(d, Integer(0))
        ELSE IF ~Is(d, src, "set") THEN WrongType(d)
        ELSE IF m \notin s THEN Result(d, Integer(0))
        ELSE IF ~Has(left, dst) THEN Result(Insert(left, dst, SetValue({m}), None), Integer(1))
        ELSE IF Is(left, dst, "set")
        THEN Result(Update(left, dst, SetValue(left[dst].value.members \cup {m})), Integer(1))
        ELSE WrongType(left)

ZAdd(d, k, score, m) ==
    LET f == d[k].value.scores
    IN  IF ~Has(d, k) THEN Result(Insert(d, k, ZSetValue(Single(m, score)), None), Integer(1))
        ELSE IF Is(d, k, "zset")
        THEN Result(Update(d, k, ZSetValue(Put(f, m, score))),
                    Integer(IF m \in DOMAIN f THEN 0 ELSE 1))
        ELSE WrongType(d)

ZRem(d, k, ms) ==
    LET f == d[k].value.scores
    IN  IF ~Has(d, k) THEN Result(d, Integer(0))
        ELSE IF Is(d, k, "zset")
        THEN Result(UpdateOrDrop(d, k, ZSetValue(Forget(f, ms)), DOMAIN f \ ms = {}),
                    Integer(Cardinality(ms \cap DOMAIN f)))
        ELSE WrongType(d)

ZCard(d, k) ==
    IF ~Has(d, k) THEN Result(d, Integer(0))
    ELSE IF Is(d, k, "zset") THEN Result(d, Integer(Cardinality(DOMAIN d[k].value.scores)))
    ELSE WrongType(d)

\* Members by score, equal scores by member.
ZOrder(f) ==
    LET upTo(m) == {x \in DOMAIN f : f[x] < f[m] \/ (f[x] = f[m] /\ x <= m)}
    IN  [i \in 1 .. Cardinality(DOMAIN f) |-> CHOOSE m \in DOMAIN f : Cardinality(upTo(m)) = i]

ZRange(d, k, start, stop) ==
    IF ~Has(d, k) THEN Result(d, Array(<<>>))
    ELSE IF Is(d, k, "zset") THEN Result(d, Array(Slice(ZOrder(d[k].value.scores), start, stop)))
    ELSE WrongType(d)

----------------------------------------------------------------------------
(* Streams: entries carry the number n of their id "n-0".                  *)

\* XADD accepts only the id "*".
StreamAdd(d, k, auto, body) ==
    LET s  == d[k].value.entries
        id == Len(s) + 1
    IN  IF auto /\ ~Has(d, k) THEN Result(Insert(d, k, StreamValue(<<[id |-> 1, body |-> body]>>), None), Member(1))
        ELSE IF auto /\ Is(d, k, "stream")
        THEN Result(Update(d, k, StreamValue(Append(s, [id |-> id, body |-> body]))), Member(id))
        ELSE Result(d, Error("BADID"))

StreamLen(d, k) ==
    IF ~Has(d, k) THEN Result(d, Integer(0))
    ELSE IF Is(d, k, "stream") THEN Result(d, Integer(Len(d[k].value.entries)))
    ELSE WrongType(d)

\* XRANGE - + ; any other bounds give an empty array.
StreamRange(d, k, whole) ==
    IF ~Has(d, k) THEN Result(d, Array(<<>>))
    ELSE IF Is(d, k, "stream") THEN Result(d, Array(IF whole THEN d[k].value.entries ELSE <<>>))
    ELSE WrongType(d)

\* XREVRANGE + - ; any other bounds give an empty array.
StreamRevRange(d, k, whole) ==
    IF ~Has(d, k) THEN Result(d, Array(<<>>))
    ELSE IF Is(d, k, "stream")
    THEN Result(d, Array(IF whole THEN Reverse(d[k].value.entries) ELSE <<>>))
    ELSE WrongType(d)

\* XDEL removes every entry with a listed id and keeps the key of an emptied
\* stream.
StreamDel(d, k, ids) ==
    LET s    == d[k].value.entries
        next == Without(s, {i \in DOMAIN s : s[i].id \in ids})
    IN  IF ~Has(d, k) THEN Result(d, Integer(0))
        ELSE IF Is(d, k, "stream") THEN Result(Update(d, k, StreamValue(next)), Integer(Len(s) - Len(next)))
        ELSE WrongType(d)

=============================================================================
