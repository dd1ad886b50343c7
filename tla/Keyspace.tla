------------------------------ MODULE Keyspace ------------------------------
(***************************************************************************)
(* One MuonCache database as its clients see it: the commands of           *)
(* cmd_handlers.rs acting on the store, and the wall clock that `now_ms`   *)
(* reads.  A step is one critical section, that is one call of a `Db`      *)
(* method that runs with its shard locked: a command that makes several    *)
(* calls (DEL k1 k2, MSET, MGET, GETSET, LPOP with a count, SUNION,        *)
(* SINTER) is a sequence of these steps, between which other clients run.  *)
(***************************************************************************)
EXTENDS Shard

CONSTANTS Eager,      \* FALSE: the code; TRUE: the promise it is compared with
          Scopes,     \* what the clients of a model use: [keys, families, strings]
          MaxTime,    \* bound: the clock stops here
          Ttls,       \* time-to-live arguments, in milliseconds
          Second,     \* milliseconds in a second (1000 in the code)
          Deltas,     \* increments
          MaxTail,    \* bound: longest run of appended bytes
          Elems,      \* list items, set and sorted-set members, stream bodies
          Indices,    \* index and count arguments
          MaxLen,     \* bound: longest list or stream
          Fields      \* hash fields

ASSUME KeyspaceAssumption ==
    /\ Eager \in BOOLEAN
    /\ \A s \in Scopes :
          /\ s.families \subseteq {"string", "list", "hash", "set", "zset", "stream"}
          /\ s.keys \subseteq Keys
    /\ MaxTime \in Nat /\ Ttls \subseteq Nat /\ Second \in Nat \ {0}
    /\ Deltas \subseteq I64 /\ Indices \subseteq Int /\ Elems \subseteq Int
    /\ MaxTail \in Nat /\ MaxLen \in Nat

VARIABLES db,     \* the entries of every shard
          now,    \* what now_ms() returns
          last,   \* the last command, its key, and a bit that makes repeating it a step
          reply,  \* the reply it was given
          scope   \* the keys, families and byte strings in use

vars == <<db, now, last, reply, scope>>

Init == /\ db = << >>
        /\ now = 0
        /\ last = [cmd |-> "none", key |-> None, bit |-> 0]
        /\ reply = Null
        /\ scope \in Scopes

\* A panic with the shard locked aborts the process (panic = "abort").
Running == ~IsPanic(reply)

\* The code leaves an expired entry where it is until some method finds it.
\* The promise (Eager) is a store from which entries vanish at their deadline.
Settle(d, t) == IF Eager THEN PurgeExpiredAll(d, t) ELSE d

\* A command that leaves the store and answers as r says.
Answer(cmd, k, r) ==
    /\ Running
    /\ last' = [cmd |-> cmd, key |-> k, bit |-> 1 - last.bit]
    /\ reply' = r.reply
    /\ db' = Settle(r.data, now)
    /\ UNCHANGED <<now, scope>>

\* Mutant: the deadline is not looked at.
AtStale(k) == db

\* The key with the expired entry removed, as most methods begin.
At(k) == Evict(db, k, now)

\* Bounds on what a command may grow.
Items(k) == IF Is(db, k, "list") THEN Len(db[k].value.items)
            ELSE IF Is(db, k, "stream") THEN Len(db[k].value.entries)
            ELSE 0
Room(k, n) == Items(k) + n <= MaxLen
TailRoom(k) == IsString(db, k) => BytesOf(db[k].value).tail < MaxTail

----------------------------------------------------------------------------
(* Key commands.                                                           *)

Deadlines == {None} \cup {now + ttl : ttl \in Ttls}

Set(k, b, at) == Answer("SET", k, SetStringRef(db, k, b, at))
Del(k)        == Answer("DEL", k, RemoveKey(db, k))
Exist(k)      == Answer("EXISTS", k, Exists(At(k), k))
Expire(k, s)  == Answer("EXPIRE", k, SetExpireMs(db, k, now, s * Second))
PExpire(k, ms) == Answer("EXPIRE", k, SetExpireMs(db, k, now, ms))
PersistKey(k) == Answer("PERSIST", k, Persist(At(k), k))
Ttl(k)        == Answer("TTL", k, TtlMs(At(k), k, now, Second))
PTtl(k)       == Answer("PTTL", k, TtlMs(At(k), k, now, 1))
Type(k)       == Answer("TYPE", k, ValueType(At(k), k))
DbSize        == Answer("DBSIZE", None, KeyCount(PurgeExpiredAll(db, now)))
KeysAll       == Answer("KEYS", None, KeyList(PurgeExpiredAll(db, now)))
FlushDb       == Answer("FLUSHDB", None, Flush(db))

KeyCommand ==
    \/ \E k \in scope.keys :
          \/ \E b \in scope.strings, at \in Deadlines : Set(k, b, at)
          \/ Del(k) \/ Exist(k) \/ PersistKey(k) \/ Ttl(k) \/ PTtl(k) \/ Type(k)
          \/ \E ttl \in Ttls : Expire(k, ttl) \/ PExpire(k, ttl)
    \/ DbSize \/ KeysAll \/ FlushDb

StringCommand ==
    \E k \in scope.keys :
       \/ Answer("GET", k, GetString(At(k), k))
       \/ Answer("STRLEN", k, StrLen(At(k), k))
       \/ \E b \in scope.strings : Answer("SETNX", k, SetNx(At(k), k, b))
       \/ TailRoom(k) /\ Answer("APPEND", k, AppendBytes(At(k), k, 1))
       \/ \E n \in Deltas : \/ Answer("INCRBY", k, IncrBy(At(k), k, n))
                            \/ Answer("DECRBY", k, IncrBy(At(k), k, WrappingNeg(n)))

\* Arguments of one push: one value, or two.
Values == {<<v>> : v \in Elems} \cup {<<v, w>> : v \in Elems, w \in Elems}

ListCommand ==
    \E k \in scope.keys :
       \/ Answer("LLEN", k, ListLen(At(k), k))
       \/ \E left \in BOOLEAN :
             \/ Answer("POP", k, ListPop(At(k), k, left))
             \/ \E vs \in Values :
                   /\ Room(k, Len(vs))
                   /\ \/ Answer("PUSH", k, ListPush(At(k), k, vs, left))
                      \/ Answer("PUSHX", k, ListPushX(At(k), k, vs, left))
             \/ \E v, pivot \in Elems :
                   Room(k, 1) /\ Answer("LINSERT", k, ListInsert(At(k), k, left, pivot, v))
       \/ \E i \in Indices :
             \/ Answer("LINDEX", k, ListIndex(At(k), k, i))
             \/ \E v \in Elems : \/ Answer("LSET", k, ListSet(At(k), k, i, v))
                                 \/ Answer("LREM", k, ListRem(At(k), k, i, v))
             \/ \E j \in Indices : \/ Answer("LRANGE", k, ListRange(At(k), k, i, j))
                                   \/ Answer("LTRIM", k, ListTrim(At(k), k, i, j))

HashCommand ==
    \E k \in scope.keys :
       \/ Answer("HLEN", k, HashLen(At(k), k))
       \/ Answer("HGETALL", k, HashGetAll(At(k), k))
       \/ \E fs \in (SUBSET Fields) \ {{}} : Answer("HDEL", k, HashDel(At(k), k, fs))
       \/ \E f \in Fields :
             \/ Answer("HGET", k, HashGet(At(k), k, f))
             \/ Answer("HEXISTS", k, HashExists(At(k), k, f))
             \/ \E b \in scope.strings : \/ Answer("HSET", k, HashSet(At(k), k, f, b))
                                   \/ Answer("HSETNX", k, HashSetNx(At(k), k, f, b))
             \/ \E n \in Deltas : Answer("HINCRBY", k, HashIncrBy(At(k), k, f, n))

SetCommand ==
    \E k \in scope.keys :
       \/ Answer("SMEMBERS", k, SetMembers(At(k), k))
       \/ Answer("SCARD", k, SetCard(At(k), k))
       \/ \E ms \in (SUBSET Elems) \ {{}} :
             \/ Answer("SADD", k, SetAdd(At(k), k, ms))
             \/ Answer("SREM", k, SetRemove(At(k), k, ms))
       \/ \E m \in Elems :
             \/ Answer("SISMEMBER", k, SetIsMember(At(k), k, m))
             \/ \E dst \in scope.keys :
                   Answer("SMOVE", k, SetMove(Evict(At(k), dst, now), k, dst, m))

ZSetCommand ==
    \E k \in scope.keys :
       \/ Answer("ZCARD", k, ZCard(At(k), k))
       \/ \E ms \in (SUBSET Elems) \ {{}} : Answer("ZREM", k, ZRem(At(k), k, ms))
       \/ \E m, score \in Elems : Answer("ZADD", k, ZAdd(At(k), k, score, m))
       \/ \E i, j \in Indices : Answer("ZRANGE", k, ZRange(At(k), k, i, j))

StreamCommand ==
    \E k \in scope.keys :
       \/ Answer("XLEN", k, StreamLen(At(k), k))
       \/ \E whole \in BOOLEAN :
             \/ Answer("XRANGE", k, StreamRange(At(k), k, whole))
             \/ Answer("XREVRANGE", k, StreamRevRange(At(k), k, whole))
       \/ \E auto \in BOOLEAN, v \in Elems :
             Room(k, 1) /\ Answer("XADD", k, StreamAdd(At(k), k, auto, v))
       \/ \E ids \in (SUBSET (1 .. MaxLen)) \ {{}} : Answer("XDEL", k, StreamDel(At(k), k, ids))

Command ==
    \/ KeyCommand
    \/ "string" \in scope.families /\ StringCommand
    \/ "list" \in scope.families /\ ListCommand
    \/ "hash" \in scope.families /\ HashCommand
    \/ "set" \in scope.families /\ SetCommand
    \/ "zset" \in scope.families /\ ZSetCommand
    \/ "stream" \in scope.families /\ StreamCommand

\* Time passes between two commands; nothing is removed until a command looks.
Tick == /\ Running
        /\ now < MaxTime
        /\ now' = now + 1
        /\ last' = [cmd |-> "tick", key |-> None, bit |-> 1 - last.bit]
        /\ reply' = Null
        /\ db' = Settle(db, now')
        /\ UNCHANGED scope

Next == Command \/ Tick

Spec == Init /\ [][Next]_vars

=============================================================================
