----------------------------- MODULE LazyExpiry -----------------------------
(***************************************************************************)
(* What clients may rely on when they use a MuonCache database: lazy       *)
(* expiration is invisible, collections are never left empty, commands that*)
(* fail change nothing, and deadlines change only when a command says so.  *)
(***************************************************************************)
EXTENDS Keyspace

\* The entries a client can still see.
Live == PurgeExpiredAll(db, now)

(* The promise: the same commands on a store whose entries vanish at their *)
(* deadline.                                                               *)
Promise == INSTANCE Keyspace WITH db <- Live, Eager <- TRUE

(***************************************************************************)
(* set_expire_ms and remove do not look at the deadline, so two commands   *)
(* can tell an expired entry from none: EXPIRE brings the old value back   *)
(* with a new deadline, DEL counts it.                                     *)
(***************************************************************************)
ExpireFindsExpired ==
    /\ last'.cmd = "EXPIRE" /\ reply' = Integer(1)
    /\ ~Has(Live, last'.key) /\ Has(db, last'.key)
    /\ Drop(Live', last'.key) = Live
    /\ now' = now

DelCountsExpired ==
    /\ last'.cmd = "DEL" /\ reply' = Integer(1)
    /\ ~Has(Live, last'.key) /\ Has(db, last'.key)
    /\ Live' = Live
    /\ now' = now

\* Expiration is lazy (store.rs is_expired), yet every command other than an
\* EXPIRE or a DEL that finds an expired entry answers and changes the visible
\* entries exactly as if entries vanished at their deadline.
ExpiryInvisible ==
    [][Promise!Next \/ ExpireFindsExpired \/ DelCountsExpired]_<<Live, now, last, reply, scope>>

\* The same without the two exceptions: expired keys are invisible.
ExpiredKeysInvisible == Promise!Spec

----------------------------------------------------------------------------

\* No list, set, hash or sorted set is ever left empty: every method that takes
\* something out removes the key with the last element.  (Streams may be empty.)
NoEmptyCollection ==
    \A k \in Keys :
       /\ Is(db, k, "list") => db[k].value.items # <<>>
       /\ Is(db, k, "set") => db[k].value.members # {}
       /\ Is(db, k, "hash") => DOMAIN db[k].value.fields # {}
       /\ Is(db, k, "zset") => DOMAIN db[k].value.scores # {}

\* A command that answers with an error leaves everything a client can see as it
\* was.  The exception is SMOVE onto a key of another type, which has already
\* taken the member out of the source: the source, and nothing else, has changed.
FailedCommandChangesNothing ==
    [][IsError(reply') => \/ Live' = Live
                          \/ /\ last'.cmd = "SMOVE"
                             /\ Drop(Live', last'.key) = Drop(Live, last'.key)]_vars

\* An SMOVE whose source has one element; with that source still there after it,
\* the destination is the source.
OneElementMove(k) ==
    /\ last'.cmd = "SMOVE" /\ last'.key = k
    /\ Is(db, k, "set") /\ Cardinality(db[k].value.members) = 1

\* A key that stays visible through a step keeps its deadline unless the command
\* sets deadlines (SET, EXPIRE, PERSIST) or is an SMOVE of a key onto itself,
\* which recreates a one-element set without its deadline.
DeadlineKept ==
    [][\A k \in Keys :
          /\ Has(Live, k) /\ Has(Live, k)'
          /\ last'.cmd \notin {"SET", "EXPIRE", "PERSIST"}
          /\ ~OneElementMove(k)
          => db'[k].expires_at = db[k].expires_at]_vars

\* INCR keeps integers as Value::Int, SET as Value::String: no string command
\* can tell the two apart, now or after a further command.
StringView(d) ==
    [k \in DOMAIN d |-> IF Is(d, k, "int") THEN Entry(StringValue(BytesOf(d[k].value)), d[k].expires_at)
                        ELSE d[k]]
SameView(r, q) == r.reply = q.reply /\ StringView(r.data) = StringView(q.data)
IntInvisible ==
    \A k \in Keys :
       LET d == At(k)
           s == StringView(d)
       IN  /\ SameView(GetString(d, k), GetString(s, k))
           /\ SameView(StrLen(d, k), StrLen(s, k))
           /\ SameView(AppendBytes(d, k, 1), AppendBytes(s, k, 1))
           /\ SameView(ValueType(d, k), ValueType(s, k))
           /\ \A n \in Deltas : SameView(IncrBy(d, k, n), IncrBy(s, k, n))

\* LTRIM answers OK or an error and trims the list.
TrimAnswers == ~IsPanic(reply)

----------------------------------------------------------------------------

Bytes == [num : I64 \cup {None}, tail : 0 .. MaxTail]

\* Clients send byte strings, and the bound lets a byte be appended to none.
ASSUME BytesAssumption == MaxTail > 0 /\ \A s \in Scopes : s.strings \subseteq Bytes

StringValues == {StringValue(b) : b \in Bytes} \cup {IntValue(n) : n \in I64}
TypeOK ==
    /\ now \in 0 .. MaxTime
    /\ DOMAIN db \subseteq Keys
    /\ \A k \in Keys : Has(db, k) =>
          /\ db[k].expires_at \in Nat \cup {None}
          /\ CASE IsString(db, k) -> db[k].value \in StringValues
               [] Is(db, k, "list") -> db[k].value.items \in BoundedSeq(Elems, MaxLen)
               [] Is(db, k, "set") -> db[k].value.members \subseteq Elems
               [] Is(db, k, "hash") -> /\ DOMAIN db[k].value.fields \subseteq Fields
                                       /\ \A f \in DOMAIN db[k].value.fields :
                                             db[k].value.fields[f] \in Bytes
               [] Is(db, k, "zset") -> /\ DOMAIN db[k].value.scores \subseteq Elems
                                       /\ \A m \in DOMAIN db[k].value.scores :
                                             db[k].value.scores[m] \in Elems
               [] Is(db, k, "stream") -> Len(db[k].value.entries) <= MaxLen
               [] OTHER -> FALSE

=============================================================================
