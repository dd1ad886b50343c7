---------------------------- MODULE ServerProofs ----------------------------
(***************************************************************************)
(* What holds of the connections whatever their number, the pipelines the  *)
(* clients send, the scripts, the databases and the channels.  ServerInv   *)
(* is the inductive invariant: besides the types, that the work of a       *)
(* connection in MULTI consists of sends only, that no EXEC is under way   *)
(* in MULTI, and that only FLUSHALL has flushes among its work.  Three     *)
(* more are proved over it: MemInv for the memory of scripts, TalkInv for  *)
(* the replies and PubInv for the messages.                                *)
(***************************************************************************)
EXTENDS Server, SequenceTheorems, FiniteSetTheorems, TLAPS

IsSeq(s) == \E S : s \in Seq(S)

\* The arguments of a locked call.
DoOK(do) ==
    /\ do[1] \in {"get", "put", "incr", "del"} => do[2] \in Keys
    /\ do[1] = "put" => do[3] \in Bytes \union {Fraction}
    /\ do[1] = "flush" => do[2] \in Dbs
    /\ do[1] \in {"load", "lookup", "enter"} => do[2] \in Scripts
    /\ do[1] = "send" => do[3] \in Conns

\* The work that is left of command f in a connection that is, or is not, in MULTI.
WorkOK(work, f, multi) ==
    /\ IsSeq(work) /\ work # <<>>
    /\ \A i \in DOMAIN work :
          /\ DoOK(work[i].do)
          /\ f[1] # "FLUSHALL" => work[i].do[1] # "flush"
          /\ multi => work[i].do[1] = "send"

----------------------------------------------------------------------------
(* Frames and their work.                                                  *)

LEMMA FrameParts ==
    ASSUME NEW f \in Frames
    PROVE  /\ f[1] \in {"GET", "INCR", "SET", "GETSET"} => f[2] \in Keys
           /\ f[1] \in {"SET", "GETSET"} => f[3] \in Bytes
           /\ f[1] = "MSET" => f[2] \in Seq(Keys \X Bytes) /\ f[2] # <<>>
           /\ f[1] \in {"MGET", "DEL"} => f[2] \in Seq(Keys) /\ f[2] # <<>>
           /\ f[1] \in {"SCRIPT LOAD", "EVAL", "EVALSHA"} => f[2] \in Scripts
           /\ f[1] \in {"SUBSCRIBE", "PUBLISH"} => f[2] \in Channels
<1> USE DEF Some
<1>1. CASE f \in {"GET", "INCR"} \X Keys
  BY <1>1
<1>2. CASE f \in {"SET", "GETSET"} \X Keys \X Bytes
  BY <1>2
<1>3. CASE f \in {"MSET"} \X Some(Keys \X Bytes)
  BY <1>3
<1>4. CASE f \in {"MGET", "DEL"} \X Some(Keys)
  BY <1>4
<1>5. CASE f \in {"SELECT"} \X Int
  BY <1>5
<1>6. CASE f \in {"SUBSCRIBE", "PUBLISH"} \X Channels
  BY <1>6
<1>7. CASE f \in {"SCRIPT LOAD", "EVAL", "EVALSHA"} \X Scripts
  BY <1>7
<1>8. CASE f \in {<<name>> : name \in {"FLUSHALL", "SCRIPT FLUSH", "PING", "QUIT", "MULTI", "EXEC",
                                       "DISCARD", "UNKNOWN", "JUNK"}}
  <2> PICK name \in {"FLUSHALL", "SCRIPT FLUSH", "PING", "QUIT", "MULTI", "EXEC",
                     "DISCARD", "UNKNOWN", "JUNK"} : f = <<name>>
    BY <1>8
  <2>1. f[1] = name
    OBVIOUS
  <2> QED
    BY <2>1
<1> QED
  BY <1>1, <1>2, <1>3, <1>4, <1>5, <1>6, <1>7, <1>8 DEF Frames

LEMMA OneItem ==
    ASSUME NEW do, DoOK(do), NEW f, do[1] # "flush"
    PROVE  WorkOK(<<Item(do)>>, f, FALSE)
<1> DEFINE w == <<Item(do)>>
<1>1. w \in Seq({Item(do)}) /\ w # <<>> /\ DOMAIN w = {1} /\ w[1] = Item(do)
  OBVIOUS
<1>2. w[1].do = do
  BY <1>1 DEF Item
<1> HIDE DEF w
<1>3. WorkOK(w, f, FALSE)
  BY <1>1, <1>2 DEF WorkOK, IsSeq
<1> QED
  BY <1>3 DEF w

LEMMA TwoItems ==
    ASSUME NEW d1, NEW d2, DoOK(d1), DoOK(d2), NEW f, d1[1] # "flush", d2[1] # "flush"
    PROVE  WorkOK(<<Item(d1), Item(d2)>>, f, FALSE)
<1> DEFINE w == <<Item(d1), Item(d2)>>
<1>1. /\ w \in Seq({Item(d1), Item(d2)}) /\ w # <<>> /\ DOMAIN w = {1, 2}
      /\ w[1] = Item(d1) /\ w[2] = Item(d2)
  OBVIOUS
<1>2. w[1].do = d1 /\ w[2].do = d2
  BY <1>1 DEF Item
<1> HIDE DEF w
<1>3. WorkOK(w, f, FALSE)
  BY <1>1, <1>2 DEF WorkOK, IsSeq
<1> QED
  BY <1>3 DEF w

LEMMA ManyItems ==
    ASSUME NEW dos, IsSeq(dos), dos # <<>>, NEW f, NEW multi \in BOOLEAN,
           \A i \in DOMAIN dos : /\ DoOK(dos[i])
                                 /\ f[1] # "FLUSHALL" => dos[i][1] # "flush"
                                 /\ multi => dos[i][1] = "send"
    PROVE  WorkOK(Items(dos), f, multi)
<1> DEFINE w == Items(dos)
           X == {w[i] : i \in DOMAIN w}
<1>1. PICK S : dos \in Seq(S)
  BY DEF IsSeq
<1>2. w = [i \in 1..Len(dos) |-> Item(dos[i])] /\ Len(dos) \in Nat /\ DOMAIN dos = 1..Len(dos) /\ Len(dos) # 0
  BY <1>1 DEF Items
<1>3. \A i \in DOMAIN w : w[i].do = dos[i]
  BY <1>2 DEF Item
<1> HIDE DEF Item, w
<1>4. w \in [1..Len(dos) -> X]
  BY <1>2
<1> HIDE DEF X
<1>5. w \in Seq(X) /\ w # <<>>
  BY <1>2, <1>4
<1>6. DOMAIN w = DOMAIN dos
  BY <1>2
<1> QED
  BY <1>3, <1>5, <1>6 DEF WorkOK, IsSeq, w


LEMMA SeqOfArgs ==
    ASSUME NEW n \in Nat, NEW s, DOMAIN s = 1..n, s = [i \in 1..n |-> s[i]]
    PROVE  IsSeq(s) /\ (n # 0 => s # <<>>)
<1> DEFINE X == {s[i] : i \in 1..n}
<1>1. s \in [1..n -> X]
  OBVIOUS
<1> HIDE DEF X
<1> QED
  BY <1>1 DEF IsSeq


LEMMA CallsOK ==
    ASSUME NEW f \in Frames
    PROVE  WorkOK(Calls(f), f, FALSE)
<1>1. /\ f[1] \in {"GET", "INCR", "SET", "GETSET"} => f[2] \in Keys
      /\ f[1] \in {"SET", "GETSET"} => f[3] \in Bytes
      /\ f[1] = "MSET" => f[2] \in Seq(Keys \X Bytes) /\ f[2] # <<>>
      /\ f[1] \in {"MGET", "DEL"} => f[2] \in Seq(Keys) /\ f[2] # <<>>
      /\ f[1] \in {"SCRIPT LOAD", "EVAL", "EVALSHA"} => f[2] \in Scripts
  BY FrameParts
<1>2. CASE f[1] \in {"GET", "INCR"}
  <2> DEFINE do == <<IF f[1] = "GET" THEN "get" ELSE "incr", f[2]>>
  <2>1. Calls(f) = <<Item(do)>>
    BY <1>2 DEF Calls
  <2>2. DoOK(do) /\ do[1] # "flush"
    BY <1>1, <1>2 DEF DoOK
  <2> HIDE DEF do
  <2> QED
    BY <2>1, <2>2, OneItem
<1>3. CASE f[1] = "SET"
  <2> DEFINE do == <<"put", f[2], f[3]>>
  <2>1. Calls(f) = <<Item(do)>>
    BY <1>3 DEF Calls
  <2>2. DoOK(do) /\ do[1] # "flush"
    BY <1>1, <1>3 DEF DoOK
  <2> HIDE DEF do
  <2> QED
    BY <2>1, <2>2, OneItem
<1>4. CASE f[1] = "GETSET"
  <2> DEFINE d1 == <<"get", f[2]>>
             d2 == <<"put", f[2], f[3]>>
  <2>1. Calls(f) = <<Item(d1), Item(d2)>>
    BY <1>4 DEF Calls
  <2>2. DoOK(d1) /\ DoOK(d2) /\ d1[1] # "flush" /\ d2[1] # "flush"
    BY <1>1, <1>4 DEF DoOK
  <2> HIDE DEF d1, d2
  <2> QED
    BY <2>1, <2>2, TwoItems
<1>5. CASE f[1] = "MSET"
  <2> DEFINE dos == [i \in DOMAIN f[2] |-> <<"put", f[2][i][1], f[2][i][2]>>]
  <2>1. Calls(f) = Items(dos)
    BY <1>5 DEF Calls
  <2>2. \A i \in DOMAIN dos : DoOK(dos[i]) /\ dos[i][1] = "put"
    BY <1>1, <1>5 DEF DoOK
  <2>3. IsSeq(dos) /\ dos # <<>>
    <3>1. Len(f[2]) \in Nat \ {0} /\ DOMAIN f[2] = 1..Len(f[2])
      BY <1>1, <1>5
    <3>2. DOMAIN dos = 1..Len(f[2]) /\ dos = [i \in 1..Len(f[2]) |-> dos[i]]
      BY <3>1
    <3> HIDE DEF dos
    <3> QED
      BY <3>1, <3>2, SeqOfArgs
  <2> HIDE DEF dos
  <2> QED
    BY <2>1, <2>2, <2>3, ManyItems
<1>6. CASE f[1] \in {"MGET", "DEL"}
  <2> DEFINE op == IF f[1] = "MGET" THEN "get" ELSE "del"
             dos == [i \in DOMAIN f[2] |-> <<op, f[2][i]>>]
  <2>1. Calls(f) = Items(dos)
    BY <1>6 DEF Calls
  <2>2. op \in {"get", "del"}
    OBVIOUS
  <2>3. f[2] \in Seq(Keys) /\ f[2] # <<>>
    BY <1>1, <1>6
  <2> HIDE DEF op
  <2>4. Len(f[2]) \in Nat \ {0} /\ DOMAIN f[2] = 1..Len(f[2]) /\ \A i \in DOMAIN f[2] : f[2][i] \in Keys
    BY <2>3
  <2>5. \A i \in DOMAIN dos : dos[i] = <<op, f[2][i]>>
    OBVIOUS
  <2>6. \A i \in DOMAIN dos : dos[i][1] = op /\ dos[i][2] \in Keys
    BY <2>4, <2>5
  <2>7. DOMAIN dos = 1..Len(f[2]) /\ dos = [i \in 1..Len(f[2]) |-> dos[i]]
    BY <2>4
  <2> HIDE DEF dos
  <2>8. \A i \in DOMAIN dos : DoOK(dos[i]) /\ dos[i][1] # "flush"
    BY <2>2, <2>6 DEF DoOK
  <2>9. IsSeq(dos) /\ dos # <<>>
    BY <2>4, <2>7, SeqOfArgs
  <2> QED
    BY <2>1, <2>8, <2>9, ManyItems
<1>7. CASE f[1] = "FLUSHALL"
  <2> DEFINE dos == [i \in 1..DbCount |-> <<"flush", i - 1>>]
  <2>1. Calls(f) = Items(dos)
    BY <1>7 DEF Calls
  <2>2. \A i \in DOMAIN dos : DoOK(dos[i])
    BY ServerAssumption DEF DoOK, Dbs
  <2>3. IsSeq(dos) /\ dos # <<>>
    BY ServerAssumption, SeqOfArgs
  <2> HIDE DEF dos
  <2> QED
    BY <1>7, <2>1, <2>2, <2>3, ManyItems
<1>8. CASE f[1] \in {"SELECT", "SCRIPT LOAD", "EVALSHA"}
  <2> DEFINE do == <<IF f[1] = "SELECT" THEN "select"
                     ELSE IF f[1] = "SCRIPT LOAD" THEN "load" ELSE "lookup", f[2]>>
  <2>1. Calls(f) = <<Item(do)>>
    BY <1>8 DEF Calls
  <2>2. DoOK(do) /\ do[1] # "flush"
    BY <1>1, <1>8 DEF DoOK
  <2> HIDE DEF do
  <2> QED
    BY <2>1, <2>2, OneItem
<1>9. CASE f[1] = "EVAL"
  <2> DEFINE d1 == <<"load", f[2]>>
             d2 == <<"enter", f[2]>>
  <2>1. Calls(f) = <<Item(d1), Item(d2)>>
    BY <1>9 DEF Calls
  <2>2. DoOK(d1) /\ DoOK(d2) /\ d1[1] # "flush" /\ d2[1] # "flush"
    BY <1>1, <1>9 DEF DoOK
  <2> HIDE DEF d1, d2
  <2> QED
    BY <2>1, <2>2, TwoItems
<1>10. CASE f[1] \notin {"GET", "INCR", "SET", "GETSET", "MSET", "MGET", "DEL", "FLUSHALL",
                         "SELECT", "SCRIPT LOAD", "EVALSHA", "EVAL"}
  <2> DEFINE do == <<IF f[1] = "SCRIPT FLUSH" THEN "forget" ELSE "nop">>
  <2>1. Calls(f) = <<Item(do)>>
    BY <1>10 DEF Calls
  <2>2. DoOK(do) /\ do[1] # "flush"
    BY DEF DoOK
  <2> HIDE DEF do
  <2> QED
    BY <2>1, <2>2, OneItem
<1> QED
  BY <1>2, <1>3, <1>4, <1>5, <1>6, <1>7, <1>8, <1>9, <1>10

LEMMA StartedWork ==
    ASSUME NEW f \in Frames
    PROVE  WorkOK(Work(f), f, FALSE)
<1> DEFINE a == Calls(f)
           b == IF Persist /\ IsWrite(f) THEN <<Item(<<"log">>)>> ELSE <<>>
<1>1. WorkOK(a, f, FALSE)
  BY CallsOK
<1>2. b = <<>> \/ WorkOK(b, f, FALSE)
  <2>1. DoOK(<<"log">>) /\ <<"log">>[1] # "flush"
    BY DEF DoOK
  <2> QED
    BY <2>1, OneItem
<1> HIDE DEF a, b
<1>3. WorkOK(a \o b, f, FALSE)
  <2>1. CASE b = <<>>
    <3>1. a \o b = a
      BY <1>1, <2>1 DEF WorkOK, IsSeq
    <3> QED
      BY <1>1, <3>1
  <2>2. CASE WorkOK(b, f, FALSE)
    <3> PICK S, T : a \in Seq(S) /\ b \in Seq(T)
      BY <1>1, <2>2 DEF WorkOK, IsSeq
    <3>1. a \in Seq(S \union T) /\ b \in Seq(S \union T)
      OBVIOUS
    <3>2. a \o b \in Seq(S \union T)
      BY <3>1
    <3>3. a \o b # <<>>
      BY <1>1, <3>1 DEF WorkOK
    <3>4. \A i \in DOMAIN (a \o b) : \/ i \in DOMAIN a /\ (a \o b)[i] = a[i]
                                     \/ i - Len(a) \in DOMAIN b /\ (a \o b)[i] = b[i - Len(a)]
      BY <3>1
    <3> QED
      BY <1>1, <2>2, <3>2, <3>3, <3>4 DEF WorkOK, IsSeq
  <2> QED
    BY <1>2, <2>1, <2>2
<1> QED
  BY <1>3 DEF a, b, Work


----------------------------------------------------------------------------
(* One connection.                                                         *)

Fields == {"at", "db", "multi", "queue", "n", "cur", "work", "got", "exec",
           "batch", "results", "held", "reply", "why"}

CnOK(cn) ==
    /\ DOMAIN cn = Fields
    /\ cn.at \in {"read", "run", "reply", "closed"} /\ cn.db \in Dbs /\ cn.n \in Nat
    /\ cn.multi \in BOOLEAN /\ cn.exec \in BOOLEAN
    /\ cn.queue \in Seq(Frames) /\ cn.batch \in Seq(Frames)
    /\ cn.at = "run" => WorkOK(cn.work, cn.cur, cn.multi)
    /\ cn.exec => cn.at = "run" /\ ~cn.multi

\* What a step of a running connection keeps.
Went(cn, x) == CnOK(x) /\ x.at \in {"run", "reply"} /\ x.db = cn.db /\ x.n = cn.n

LEMMA WorkTail ==
    ASSUME NEW w, NEW f, NEW multi, WorkOK(w, f, multi)
    PROVE  Tail(w) = <<>> \/ WorkOK(Tail(w), f, multi)
<1> PICK S : w \in Seq(S)
  BY DEF WorkOK, IsSeq
<1>1. w # <<>>
  BY DEF WorkOK
<1>2. Tail(w) \in Seq(S) /\ \A i \in DOMAIN Tail(w) : i + 1 \in DOMAIN w /\ Tail(w)[i] = w[i + 1]
  BY <1>1
<1> QED
  BY <1>2 DEF WorkOK, IsSeq

LEMMA WorkHead ==
    ASSUME NEW w, NEW f, NEW multi, WorkOK(w, f, multi)
    PROVE  /\ DoOK(Head(w).do)
           /\ f[1] # "FLUSHALL" => Head(w).do[1] # "flush"
           /\ multi => Head(w).do[1] = "send"
<1> PICK S : w \in Seq(S)
  BY DEF WorkOK, IsSeq
<1>1. 1 \in DOMAIN w /\ Head(w) = w[1]
  BY DEF WorkOK
<1> QED
  BY <1>1 DEF WorkOK

LEMMA StartOK ==
    ASSUME NEW cn, CnOK(cn), NEW f \in Frames, ~cn.multi, ~cn.exec
    PROVE  Went(cn, Start(cn, f))
<1> DEFINE x == Start(cn, f)
<1>1. /\ DOMAIN x = DOMAIN cn /\ x.at = "run" /\ x.cur = f /\ x.work = Work(f)
      /\ x.db = cn.db /\ x.n = cn.n /\ x.multi = cn.multi /\ x.exec = cn.exec
      /\ x.queue = cn.queue /\ x.batch = cn.batch
  BY DEF Start, CnOK, Fields
<1>2. WorkOK(Work(f), f, FALSE)
  BY StartedWork
<1> HIDE DEF x
<1>3. CnOK(x)
  BY <1>1, <1>2 DEF CnOK
<1> QED
  BY <1>1, <1>3 DEF Went, x

LEMMA AnsweredOK ==
    ASSUME NEW cn, CnOK(cn), ~cn.exec, NEW r
    PROVE  Went(cn, Answered(cn, r))
<1> DEFINE x == Answered(cn, r)
<1>1. /\ DOMAIN x = DOMAIN cn /\ x.at = "reply"
      /\ x.db = cn.db /\ x.n = cn.n /\ x.multi = cn.multi /\ x.exec = cn.exec
      /\ x.queue = cn.queue /\ x.batch = cn.batch
  BY DEF Answered, CnOK, Fields
<1> HIDE DEF x
<1>2. CnOK(x)
  BY <1>1 DEF CnOK
<1> QED
  BY <1>1, <1>2 DEF Went, x

LEMMA DoneOK ==
    ASSUME NEW cn, CnOK(cn), NEW r
    PROVE  Went(cn, Done(cn, r)) /\ Done(cn, r).multi = cn.multi
<1> DEFINE x == Done(cn, r)
<1>1. CASE ~cn.exec
  <2>1. /\ DOMAIN x = DOMAIN cn /\ x.at = "reply"
        /\ x.db = cn.db /\ x.n = cn.n /\ x.multi = cn.multi /\ x.exec = cn.exec
        /\ x.queue = cn.queue /\ x.batch = cn.batch
    BY <1>1 DEF Done, CnOK, Fields
  <2> HIDE DEF x
  <2>2. CnOK(x)
    BY <1>1, <2>1 DEF CnOK
  <2> QED
    BY <2>1, <2>2 DEF Went, x
<1>2. CASE cn.exec /\ cn.batch = <<>>
  <2>1. /\ DOMAIN x = DOMAIN cn /\ x.at = "reply"
        /\ x.db = cn.db /\ x.n = cn.n /\ x.multi = cn.multi /\ x.exec = FALSE
        /\ x.queue = cn.queue /\ x.batch = cn.batch
    BY <1>2 DEF Done, CnOK, Fields
  <2> HIDE DEF x
  <2>2. CnOK(x)
    BY <2>1 DEF CnOK
  <2> QED
    BY <2>1, <2>2 DEF Went, x
<1>3. CASE cn.exec /\ cn.batch # <<>>
  <2> DEFINE f == Head(cn.batch)
  <2>1. f \in Frames /\ Tail(cn.batch) \in Seq(Frames) /\ ~cn.multi
    BY <1>3 DEF CnOK
  <2> HIDE DEF f
  <2>2. x = [Start(cn, f) EXCEPT !.batch = Tail(@), !.results = Append(cn.results, r)]
    BY <1>3 DEF Done, f
  <2>3. /\ DOMAIN x = DOMAIN cn /\ x.at = "run" /\ x.cur = f /\ x.work = Work(f)
        /\ x.db = cn.db /\ x.n = cn.n /\ x.multi = cn.multi /\ x.exec = cn.exec
        /\ x.queue = cn.queue /\ x.batch = Tail(cn.batch)
    BY <2>2 DEF Start, CnOK, Fields
  <2>4. WorkOK(Work(f), f, FALSE)
    BY <2>1, StartedWork
  <2> HIDE DEF x
  <2>5. CnOK(x)
    BY <1>3, <2>1, <2>3, <2>4 DEF CnOK
  <2> QED
    BY <2>3, <2>5 DEF Went, x
<1> QED
  BY <1>1, <1>2, <1>3 DEF CnOK

LEMMA ProceedOK ==
    ASSUME NEW cn, CnOK(cn), cn.at = "run", NEW r, NEW rest,
           rest = <<>> \/ WorkOK(rest, cn.cur, cn.multi)
    PROVE  Went(cn, Proceed(cn, r, rest)) /\ Proceed(cn, r, rest).multi = cn.multi
<1>1. CASE rest = <<>>
  <2>1. Proceed(cn, r, rest) = Done(cn, Answer(cn.cur, Append(cn.got, r)))
    BY <1>1 DEF Proceed
  <2> QED
    BY <2>1, DoneOK
<1>2. CASE rest # <<>>
  <2> DEFINE x == Proceed(cn, r, rest)
  <2>1. x = [cn EXCEPT !.work = rest, !.got = Append(cn.got, r)]
    BY <1>2 DEF Proceed
  <2>2. /\ DOMAIN x = DOMAIN cn /\ x.at = cn.at /\ x.cur = cn.cur /\ x.work = rest
        /\ x.db = cn.db /\ x.n = cn.n /\ x.multi = cn.multi /\ x.exec = cn.exec
        /\ x.queue = cn.queue /\ x.batch = cn.batch
    BY <2>1 DEF CnOK, Fields
  <2> HIDE DEF x
  <2>3. CnOK(x)
    BY <1>2, <2>2 DEF CnOK
  <2> QED
    BY <2>2, <2>3 DEF Went, x
<1> QED
  BY <1>1, <1>2


\* A connection between two commands.
Ready(cn, y) == CnOK(y) /\ y.at = "read" /\ y.db = cn.db /\ y.n = cn.n

LEMMA ReadyAnswers ==
    ASSUME NEW cn, NEW y, Ready(cn, y), NEW r
    PROVE  Went(cn, Answered(y, r))
<1>1. CnOK(y) /\ ~y.exec
  BY DEF Ready, CnOK
<1>2. Went(y, Answered(y, r))
  BY <1>1, AnsweredOK
<1> QED
  BY <1>2 DEF Went, Ready

LEMMA ReadyKept ==
    ASSUME NEW cn, CnOK(cn), cn.at = "read", NEW f \in Frames
    PROVE  /\ Ready(cn, cn) /\ Ready(cn, BeginMulti(cn))
           /\ Ready(cn, [cn EXCEPT !.queue = Append(@, f)])
           /\ Ready(cn, [cn EXCEPT !.multi = FALSE, !.queue = <<>>])
           /\ Ready(cn, [cn EXCEPT !.multi = FALSE])
<1> DEFINE q == [cn EXCEPT !.queue = Append(@, f)]
           m == BeginMulti(cn)
           d == [cn EXCEPT !.multi = FALSE, !.queue = <<>>]
           e == [cn EXCEPT !.multi = FALSE]
<1>1. <<>> \in Seq(Frames) /\ Append(cn.queue, f) \in Seq(Frames) /\ cn.exec = FALSE
  BY DEF CnOK
<1>2. Ready(cn, q)
  <2>1. /\ DOMAIN q = DOMAIN cn /\ q.at = cn.at /\ q.queue = Append(cn.queue, f) /\ q.batch = cn.batch
        /\ q.db = cn.db /\ q.n = cn.n /\ q.multi = cn.multi /\ q.exec = cn.exec
    BY DEF CnOK, Fields
  <2> HIDE DEF q
  <2> QED
    BY <1>1, <2>1 DEF CnOK, Ready
<1>3. Ready(cn, m)
  <2>1. /\ DOMAIN m = DOMAIN cn /\ m.at = cn.at /\ m.queue = <<>> /\ m.batch = cn.batch
        /\ m.db = cn.db /\ m.n = cn.n /\ m.multi = TRUE /\ m.exec = cn.exec
    BY DEF CnOK, Fields, BeginMulti
  <2> HIDE DEF m
  <2> QED
    BY <1>1, <2>1 DEF CnOK, Ready
<1>4. Ready(cn, d)
  <2>1. /\ DOMAIN d = DOMAIN cn /\ d.at = cn.at /\ d.queue = <<>> /\ d.batch = cn.batch
        /\ d.db = cn.db /\ d.n = cn.n /\ d.multi = FALSE /\ d.exec = cn.exec
    BY DEF CnOK, Fields
  <2> HIDE DEF d
  <2> QED
    BY <1>1, <2>1 DEF CnOK, Ready
<1>5. Ready(cn, e)
  <2>1. /\ DOMAIN e = DOMAIN cn /\ e.at = cn.at /\ e.queue = cn.queue /\ e.batch = cn.batch
        /\ e.db = cn.db /\ e.n = cn.n /\ e.multi = FALSE /\ e.exec = cn.exec
    BY DEF CnOK, Fields
  <2> HIDE DEF e
  <2> QED
    BY <1>1, <2>1 DEF CnOK, Ready
<1>6. Ready(cn, cn)
  BY DEF Ready
<1> QED
  BY <1>2, <1>3, <1>4, <1>5, <1>6

LEMMA ExecOK ==
    ASSUME NEW cn, CnOK(cn), cn.at = "read"
    PROVE  Went(cn, Exec(cn))
<1>1. CASE ~cn.multi
  BY <1>1, ReadyAnswers DEF Exec, Ready
<1>2. CASE cn.multi /\ cn.queue = <<>>
  <2> DEFINE e == [cn EXCEPT !.multi = FALSE]
  <2>1. /\ DOMAIN e = DOMAIN cn /\ e.at = cn.at /\ e.queue = cn.queue /\ e.batch = cn.batch
        /\ e.db = cn.db /\ e.n = cn.n /\ e.multi = FALSE /\ e.exec = cn.exec
    BY DEF CnOK, Fields
  <2>2. Exec(cn) = Answered(e, Array(<<>>))
    BY <1>2 DEF Exec
  <2> HIDE DEF e
  <2>3. Ready(cn, e)
    BY <2>1 DEF CnOK, Ready
  <2> QED
    BY <2>2, <2>3, ReadyAnswers
<1>3. CASE cn.multi /\ cn.queue # <<>>
  <2> DEFINE f == Head(cn.queue)
             x == Exec(cn)
  <2>1. f \in Frames /\ Tail(cn.queue) \in Seq(Frames) /\ <<>> \in Seq(Frames)
    BY <1>3 DEF CnOK
  <2> HIDE DEF f
  <2>2. x = [Start(cn, f) EXCEPT !.multi = FALSE, !.queue = <<>>, !.exec = TRUE,
                                 !.batch = Tail(cn.queue), !.results = <<>>]
    BY <1>3 DEF Exec, f
  <2>3. /\ DOMAIN x = DOMAIN cn /\ x.at = "run" /\ x.cur = f /\ x.work = Work(f)
        /\ x.db = cn.db /\ x.n = cn.n /\ x.multi = FALSE /\ x.exec = TRUE
        /\ x.queue = <<>> /\ x.batch = Tail(cn.queue)
    BY <2>2 DEF Start, CnOK, Fields
  <2>4. WorkOK(Work(f), f, FALSE)
    BY <2>1, StartedWork
  <2> HIDE DEF x
  <2>5. CnOK(x)
    BY <2>1, <2>3, <2>4 DEF CnOK
  <2> QED
    BY <2>3, <2>5 DEF Went, x
<1> QED
  BY <1>1, <1>2, <1>3 DEF CnOK

LEMMA DispatchOK ==
    ASSUME NEW cn, CnOK(cn), cn.at = "read", NEW f \in Frames
    PROVE  Went(cn, Dispatch(cn, f))
<1>1. CASE Queues(cn, f)
  BY <1>1, ReadyKept, ReadyAnswers DEF Dispatch
<1>2. CASE ~Queues(cn, f) /\ f[1] = "MULTI"
  BY <1>2, ReadyKept, ReadyAnswers DEF Dispatch, NestedMulti
<1>3. CASE ~Queues(cn, f) /\ f[1] = "DISCARD"
  <2>1. Dispatch(cn, f) = Discard(cn)
    BY <1>3 DEF Dispatch
  <2> QED
    BY <2>1, ReadyKept, ReadyAnswers DEF Discard
<1>4. CASE ~Queues(cn, f) /\ f[1] = "EXEC"
  <2>1. Dispatch(cn, f) = Exec(cn)
    BY <1>4 DEF Dispatch
  <2> QED
    BY <2>1, ExecOK
<1>5. CASE ~Queues(cn, f) /\ f[1] \notin {"MULTI", "DISCARD", "EXEC"}
  <2>1. Dispatch(cn, f) = Start(cn, f)
    BY <1>5 DEF Dispatch
  <2>2. ~cn.multi /\ ~cn.exec
    BY <1>5 DEF Queues, CnOK
  <2> QED
    BY <2>1, <2>2, StartOK
<1> QED
  BY <1>1, <1>2, <1>3, <1>4, <1>5


----------------------------------------------------------------------------
(* The invariant.                                                          *)

\* The connections, what they have read and what they have written.
ConnInv ==
    /\ DOMAIN conn = Conns /\ DOMAIN out = Conns /\ DOMAIN sent = Conns
    /\ wire \in [Conns -> Seq(Frames)] /\ buf \in [Conns -> Seq(Frames)]
    /\ half \in [Conns -> BOOLEAN]
    /\ \A c \in Conns : /\ CnOK(conn[c])
                        /\ conn[c].at \in {"run", "reply"} => buf[c] # <<>>
    /\ NoReplyHeldBack

QueueInv ==
    /\ inq \in [Conns -> Seq([by : Conns, n : Nat])]
    /\ \A c \in Conns : Len(inq[c]) <= Capacity

StoreInv ==
    /\ mem \in [Conns -> {Absent} \union MemBase..MemTotal]
    /\ data \in [Dbs -> [Keys -> Bytes \union {Absent}]]
    /\ subs \in [Channels -> Seq(Conns)] /\ cache \subseteq Scripts

ServerInv == ConnInv /\ QueueInv /\ StoreInv

LEMMA InitOK == Init => ServerInv
<1> SUFFICES ASSUME Init PROVE ServerInv
  OBVIOUS
<1>1. 0 \in Dbs
  BY ServerAssumption DEF Dbs
<1>2. CnOK(Idle)
  BY <1>1 DEF CnOK, Idle, Fields
<1> HIDE DEF Idle
<1>3. Idle.at = "read"
  BY DEF Idle
<1>4. wire \in [Conns -> Seq(Frames)]
  BY ServerAssumption DEF Init
<1>5. NoReplyHeldBack
  BY DEF Init, NoReplyHeldBack
<1>6. ConnInv
  BY <1>2, <1>3, <1>4, <1>5 DEF Init, ConnInv
<1>7. QueueInv
  BY ServerAssumption DEF Init, QueueInv
<1>8. StoreInv
  BY DEF Init, StoreInv
<1> QED
  BY <1>6, <1>7, <1>8 DEF ServerInv

\* A step of connection c, with a frame in hand, that neither reads nor writes.
LEMMA Worked ==
    ASSUME ConnInv, NEW c \in Conns, NEW x, conn' = [conn EXCEPT ![c] = x],
           CnOK(x), buf[c] # <<>>, UNCHANGED <<input, out, sent>>
    PROVE  ConnInv'
<1>1. DOMAIN conn' = Conns /\ conn'[c] = x /\ \A e \in Conns \ {c} : conn'[e] = conn[e]
  BY DEF ConnInv
<1>2. UNCHANGED <<wire, buf, half, out, sent>>
  BY DEF input
<1>3. \A e \in Conns : CnOK(conn'[e]) /\ (conn'[e].at \in {"run", "reply"} => buf'[e] # <<>>)
  BY <1>1, <1>2 DEF ConnInv
<1>4. NoReplyHeldBack'
  <2> SUFFICES ASSUME NEW e \in Conns, buf[e] = <<>>, ~half[e], conn'[e].at \in {"read", "closed"}
               PROVE  out[e] = <<>>
    BY <1>2 DEF NoReplyHeldBack
  <2>1. e # c
    OBVIOUS
  <2> QED
    BY <1>1, <2>1 DEF ConnInv, NoReplyHeldBack
<1> QED
  BY <1>1, <1>2, <1>3, <1>4 DEF ConnInv

\* ... of a work item.
LEMMA ItemDone ==
    ASSUME ConnInv, NEW c \in Conns, conn[c].at = "run", NEW r, NEW rest,
           rest = <<>> \/ WorkOK(rest, conn[c].cur, conn[c].multi),
           conn' = [conn EXCEPT ![c] = Proceed(conn[c], r, rest)],
           UNCHANGED <<input, out, sent>>
    PROVE  ConnInv' /\ conn'[c].db = conn[c].db
<1> DEFINE x == Proceed(conn[c], r, rest)
<1>1. CnOK(conn[c]) /\ buf[c] # <<>>
  BY DEF ConnInv
<1>2. Went(conn[c], x)
  BY <1>1, ProceedOK
<1> HIDE DEF x
<1>3. conn' = [conn EXCEPT ![c] = x]
  BY DEF x
<1>4. conn'[c] = x
  BY <1>3 DEF ConnInv
<1>5. ConnInv'
  BY <1>1, <1>2, <1>3, Worked DEF Went
<1> QED
  BY <1>2, <1>4, <1>5 DEF Went

\* What Head(work) is, and what is left after it.
LEMMA AtWork ==
    ASSUME ConnInv, NEW c \in Conns, NEW what, Doing(c, what)
    PROVE  /\ conn[c].at = "run" /\ CnOK(conn[c])
           /\ DoOK(Head(conn[c].work).do) /\ Head(conn[c].work).do[1] = what
           /\ conn[c].cur[1] # "FLUSHALL" => what # "flush"
           /\ conn[c].multi => what = "send"
           /\ \/ Tail(conn[c].work) = <<>>
              \/ WorkOK(Tail(conn[c].work), conn[c].cur, conn[c].multi)
<1>1. conn[c].at = "run" /\ Head(conn[c].work).do[1] = what /\ CnOK(conn[c])
  BY DEF Doing, ConnInv
<1>2. WorkOK(conn[c].work, conn[c].cur, conn[c].multi)
  BY <1>1 DEF CnOK
<1>3. Tail(conn[c].work) = <<>> \/ WorkOK(Tail(conn[c].work), conn[c].cur, conn[c].multi)
  BY <1>2, WorkTail
<1>4. /\ DoOK(Head(conn[c].work).do)
      /\ conn[c].cur[1] # "FLUSHALL" => Head(conn[c].work).do[1] # "flush"
      /\ conn[c].multi => Head(conn[c].work).do[1] = "send"
  BY <1>2, WorkHead
<1> QED
  BY <1>1, <1>3, <1>4


----------------------------------------------------------------------------
(* The steps, one by one.                                                  *)

LEMMA FillKept ==
    ASSUME ServerInv, NEW c \in Conns, Fill(c)
    PROVE  ServerInv'
<1>1. PICK n \in 1..Len(wire[c]) :
         /\ buf' = [buf EXCEPT ![c] = SubSeq(wire[c], 1, n)]
         /\ wire' = [wire EXCEPT ![c] = SubSeq(@, n + 1, Len(@))]
         /\ \E h \in BOOLEAN : half' = [half EXCEPT ![c] = h]
  BY DEF Fill
<1>2. conn[c].at = "read" /\ UNCHANGED <<conn, out, sent, inq, mem, data, subs, cache>>
  BY DEF Fill, shared
<1>3. /\ wire \in [Conns -> Seq(Frames)] /\ buf \in [Conns -> Seq(Frames)] /\ half \in [Conns -> BOOLEAN]
      /\ wire[c] \in Seq(Frames)
  BY DEF ServerInv, ConnInv
<1> DEFINE b == SubSeq(wire[c], 1, n)
           w == SubSeq(wire[c], n + 1, Len(wire[c]))
<1>4. b \in Seq(Frames) /\ b # <<>> /\ w \in Seq(Frames)
  <2>1. ASSUME NEW s \in Seq(Frames), NEW i \in 1..Len(s)
        PROVE  /\ SubSeq(s, 1, i) \in Seq(Frames) /\ SubSeq(s, 1, i) # <<>>
               /\ SubSeq(s, i + 1, Len(s)) \in Seq(Frames)
    <3>1. SubSeq(s, 1, i) \in Seq(Frames) /\ Len(SubSeq(s, 1, i)) = i
      OBVIOUS
    <3>2. \A j \in (i + 1)..Len(s) : j \in 1..Len(s)
      OBVIOUS
    <3>3. SubSeq(s, i + 1, Len(s)) \in Seq(Frames)
      BY <3>2
    <3> QED
      BY <3>1, <3>3
  <2> QED
    BY <1>3, <2>1
<1> HIDE DEF b, w
<1>5. buf' = [buf EXCEPT ![c] = b] /\ wire' = [wire EXCEPT ![c] = w]
  BY <1>1 DEF b, w
<1>6. wire' \in [Conns -> Seq(Frames)] /\ buf' \in [Conns -> Seq(Frames)] /\ half' \in [Conns -> BOOLEAN]
  BY <1>1, <1>3, <1>4, <1>5
<1>7. buf'[c] # <<>> /\ \A e \in Conns \ {c} : buf'[e] = buf[e] /\ half'[e] = half[e]
  BY <1>1, <1>3, <1>4, <1>5
<1>8. NoReplyHeldBack'
  BY <1>2, <1>7 DEF NoReplyHeldBack, ServerInv, ConnInv
<1>9. \A e \in Conns : CnOK(conn[e]) /\ (conn[e].at \in {"run", "reply"} => buf'[e] # <<>>)
  BY <1>7 DEF ServerInv, ConnInv
<1>10. ConnInv'
  BY <1>2, <1>6, <1>8, <1>9 DEF ServerInv, ConnInv
<1> QED
  BY <1>2, <1>10 DEF ServerInv, QueueInv, StoreInv

\* A connection that closes.
LEMMA ClosedOK ==
    ASSUME NEW cn, CnOK(cn), cn.at # "run", NEW why
    PROVE  CnOK(Closed(cn, why)) /\ Closed(cn, why).at = "closed" /\ Closed(cn, why).db = cn.db
<1> DEFINE x == Closed(cn, why)
<1>1. /\ DOMAIN x = DOMAIN cn /\ x.at = "closed" /\ x.queue = cn.queue /\ x.batch = cn.batch
      /\ x.db = cn.db /\ x.n = cn.n /\ x.multi = cn.multi /\ x.exec = cn.exec
  BY DEF Closed, CnOK, Fields
<1> HIDE DEF x
<1>2. CnOK(x)
  BY <1>1 DEF CnOK
<1> QED
  BY <1>1, <1>2 DEF x

LEMMA HangupKept ==
    ASSUME ServerInv, NEW c \in Conns, Hangup(c)
    PROVE  ServerInv'
<1> DEFINE x == Closed(conn[c], IF half[c] THEN "error" ELSE "eof")
<1>1. conn[c].at = "read" /\ conn' = [conn EXCEPT ![c] = x]
  BY DEF Hangup
<1>2. UNCHANGED <<wire, buf, half, out, sent, inq, mem, data, subs, cache>>
  BY DEF Hangup, shared, input
<1>3. CnOK(conn[c]) /\ DOMAIN conn = Conns
  BY DEF ServerInv, ConnInv
<1>4. CnOK(x) /\ x.at = "closed"
  BY <1>1, <1>3, ClosedOK
<1> HIDE DEF x
<1>5. DOMAIN conn' = Conns /\ conn'[c] = x /\ \A e \in Conns \ {c} : conn'[e] = conn[e]
  BY <1>1, <1>3
<1>6. NoReplyHeldBack'
  BY <1>1, <1>2, <1>5 DEF NoReplyHeldBack, ServerInv, ConnInv
<1>7. \A e \in Conns : CnOK(conn'[e]) /\ (conn'[e].at \in {"run", "reply"} => buf[e] # <<>>)
  BY <1>4, <1>5 DEF ServerInv, ConnInv
<1>8. ConnInv'
  BY <1>2, <1>5, <1>6, <1>7 DEF ServerInv, ConnInv
<1> QED
  BY <1>2, <1>8 DEF ServerInv, QueueInv, StoreInv

\* A step of connection c that writes and takes its frame out of the buffer.
LEMMA Wrote ==
    ASSUME ConnInv, NEW c \in Conns, buf[c] # <<>>, NEW o, Write(c, o),
           buf' = [buf EXCEPT ![c] = Tail(@)], UNCHANGED <<wire, half>>,
           NEW x, conn' = [conn EXCEPT ![c] = x], CnOK(x), x.at \in {"read", "closed"}
    PROVE  ConnInv'
<1>1. DOMAIN conn' = Conns /\ conn'[c] = x /\ \A e \in Conns \ {c} : conn'[e] = conn[e]
  BY DEF ConnInv
<1>2. buf' \in [Conns -> Seq(Frames)] /\ buf'[c] = Tail(buf[c]) /\ \A e \in Conns \ {c} : buf'[e] = buf[e]
  BY DEF ConnInv
<1>3. \/ /\ Tail(buf[c]) = <<>> /\ ~half[c] /\ out' = [out EXCEPT ![c] = <<>>]
         /\ sent' = [sent EXCEPT ![c] = @ \o out[c] \o o]
      \/ /\ ~(Tail(buf[c]) = <<>> /\ ~half[c])
         /\ out' = [out EXCEPT ![c] = @ \o o] /\ sent' = sent
  BY DEF Write, NothingBuffered
<1>4. /\ DOMAIN out' = Conns /\ DOMAIN sent' = Conns /\ \A e \in Conns \ {c} : out'[e] = out[e]
      /\ buf'[c] = <<>> /\ ~half[c] => out'[c] = <<>>
  BY <1>2, <1>3 DEF ConnInv
<1>5. NoReplyHeldBack'
  <2> SUFFICES ASSUME NEW e \in Conns, buf'[e] = <<>>, ~half[e], conn'[e].at \in {"read", "closed"}
               PROVE  out'[e] = <<>>
    BY DEF NoReplyHeldBack
  <2>1. CASE e = c
    BY <1>4, <2>1
  <2>2. CASE e # c
    <3>1. buf[e] = <<>> /\ conn[e].at \in {"read", "closed"} /\ out'[e] = out[e]
      BY <1>1, <1>2, <1>4, <2>2
    <3> QED
      BY <3>1 DEF ConnInv, NoReplyHeldBack
  <2> QED
    BY <2>1, <2>2
<1>6. \A e \in Conns : CnOK(conn'[e]) /\ (conn'[e].at \in {"run", "reply"} => buf'[e] # <<>>)
  BY <1>1, <1>2 DEF ConnInv
<1> QED
  BY <1>1, <1>2, <1>4, <1>5, <1>6 DEF ConnInv

LEMMA RespondKept ==
    ASSUME ServerInv, NEW c \in Conns, Respond(c)
    PROVE  ServerInv'
<1> DEFINE cn == conn[c]
           o == <<Reply(cn, Head(buf[c]), cn.reply)>> \o inq[c]
           x == IF Head(buf[c])[1] = "QUIT" THEN Closed(cn, "quit") ELSE [cn EXCEPT !.at = "read"]
           r == [cn EXCEPT !.at = "read"]
<1>1. /\ cn.at = "reply" /\ Write(c, o) /\ inq' = [inq EXCEPT ![c] = <<>>]
      /\ buf' = [buf EXCEPT ![c] = Tail(@)] /\ conn' = [conn EXCEPT ![c] = x]
      /\ UNCHANGED <<wire, half, mem, data, subs, cache>>
  BY DEF Respond, shared
<1>2. ConnInv /\ CnOK(cn) /\ buf[c] # <<>>
  BY <1>1 DEF ServerInv, ConnInv
<1>3. CnOK(x) /\ x.at \in {"read", "closed"}
  <2>1. CnOK(Closed(cn, "quit")) /\ Closed(cn, "quit").at = "closed"
    BY <1>1, <1>2, ClosedOK
  <2>2. CnOK(r) /\ r.at = "read"
    <3>1. /\ DOMAIN r = DOMAIN cn /\ r.at = "read" /\ r.queue = cn.queue /\ r.batch = cn.batch
          /\ r.db = cn.db /\ r.n = cn.n /\ r.multi = cn.multi /\ r.exec = cn.exec
      BY <1>2 DEF CnOK, Fields
    <3> HIDE DEF r, cn
    <3> QED
      BY <1>1, <1>2, <3>1 DEF CnOK
  <2> QED
    BY <2>1, <2>2
<1> HIDE DEF x, o, cn
<1>4. ConnInv'
  BY <1>1, <1>2, <1>3, Wrote
<1>5. QueueInv'
  <2>1. inq \in [Conns -> Seq([by : Conns, n : Nat])] /\ \A e \in Conns : Len(inq[e]) <= Capacity
    BY DEF ServerInv, QueueInv
  <2>2. <<>> \in Seq([by : Conns, n : Nat]) /\ Len(<<>>) <= Capacity
    BY ServerAssumption
  <2>3. inq'[c] = <<>> /\ \A e \in Conns \ {c} : inq'[e] = inq[e]
    BY <1>1, <2>1
  <2>4. inq' \in [Conns -> Seq([by : Conns, n : Nat])]
    BY <1>1, <2>1, <2>2
  <2> QED
    BY <2>1, <2>2, <2>3, <2>4 DEF QueueInv
<1> QED
  BY <1>1, <1>4, <1>5 DEF ServerInv, StoreInv


LEMMA TakesFrame ==
    ASSUME ConnInv, NEW c \in Conns, conn[c].at = "read", buf[c] # <<>>
    PROVE  LET cn == [conn[c] EXCEPT !.n = @ + 1]
           IN  /\ Head(buf[c]) \in Frames /\ CnOK(cn) /\ cn.at = "read" /\ ~cn.exec
               /\ cn.db = conn[c].db
<1> DEFINE old == conn[c]
           cn == [old EXCEPT !.n = @ + 1]
<1>1. CnOK(old) /\ buf[c] \in Seq(Frames)
  BY DEF ConnInv
<1>2. Head(buf[c]) \in Frames
  BY <1>1
<1>3. /\ DOMAIN cn = DOMAIN old /\ cn.at = old.at /\ cn.queue = old.queue /\ cn.batch = old.batch
      /\ cn.db = old.db /\ cn.n = old.n + 1 /\ cn.multi = old.multi /\ cn.exec = old.exec
  BY <1>1 DEF CnOK, Fields
<1> HIDE DEF cn
<1>4. CnOK(cn) /\ cn.at = "read" /\ ~cn.exec
  BY <1>1, <1>3 DEF CnOK
<1> QED
  BY <1>2, <1>3, <1>4 DEF cn

\* PUBLISH sends to those who were registered, also in MULTI.
LEMMA SendsOK ==
    ASSUME NEW f \in Frames, f[1] = "PUBLISH", subs \in [Channels -> Seq(Conns)], NEW multi \in BOOLEAN
    PROVE  Sends(f) = <<>> \/ WorkOK(Sends(f), f, multi)
<1> DEFINE to == subs[f[2]]
           dos == [i \in DOMAIN to |-> <<"send", f[2], to[i]>>]
<1>1. to \in Seq(Conns)
  BY FrameParts
<1>2. Sends(f) = Items(dos)
  BY DEF Sends
<1> HIDE DEF to
<1>3. Len(to) \in Nat /\ DOMAIN to = 1..Len(to) /\ \A i \in DOMAIN to : to[i] \in Conns
  BY <1>1
<1>4. \A i \in DOMAIN dos : dos[i][1] = "send" /\ dos[i][3] \in Conns
  BY <1>3
<1>5. DOMAIN dos = 1..Len(to) /\ dos = [i \in 1..Len(to) |-> dos[i]]
  BY <1>3
<1> HIDE DEF dos
<1>6. \A i \in DOMAIN dos : DoOK(dos[i])
  BY <1>4 DEF DoOK
<1>7. IsSeq(dos)
  BY <1>3, <1>5, SeqOfArgs
<1>8. dos # <<>> => WorkOK(Items(dos), f, multi)
  BY <1>4, <1>6, <1>7, ManyItems
<1>9. dos = <<>> => Items(dos) = <<>>
  BY DEF Items
<1> QED
  BY <1>2, <1>8, <1>9

LEMMA PublishOK ==
    ASSUME NEW cn, CnOK(cn), cn.at = "read", NEW f \in Frames, f[1] = "PUBLISH",
           subs \in [Channels -> Seq(Conns)], Sends(f) # <<>>
    PROVE  Went(cn, [Start(cn, f) EXCEPT !.work = Sends(f)])
<1> DEFINE x == [Start(cn, f) EXCEPT !.work = Sends(f)]
<1>1. /\ DOMAIN x = DOMAIN cn /\ x.at = "run" /\ x.cur = f /\ x.work = Sends(f)
      /\ x.db = cn.db /\ x.n = cn.n /\ x.multi = cn.multi /\ x.exec = cn.exec
      /\ x.queue = cn.queue /\ x.batch = cn.batch
  BY DEF Start, CnOK, Fields
<1>2. cn.multi \in BOOLEAN /\ ~cn.exec
  BY DEF CnOK
<1>3. WorkOK(Sends(f), f, cn.multi)
  BY <1>2, SendsOK
<1> HIDE DEF x
<1>4. CnOK(x)
  BY <1>1, <1>2, <1>3 DEF CnOK
<1> QED
  BY <1>1, <1>4 DEF Went, x

\* The frame is taken up: what the step leaves alone, for every connection.
LEMMA TakeParts ==
    ASSUME ServerInv, NEW c \in Conns, Take(c)
    PROVE  /\ ConnInv' /\ subs' \in [Channels -> Seq(Conns)]
           /\ conn'[c].db = conn[c].db /\ \A e \in Conns \ {c} : conn'[e] = conn[e]
           /\ UNCHANGED <<inq, mem, data, cache, aof>>
<1> DEFINE f == Head(buf[c])
           cn == [conn[c] EXCEPT !.n = @ + 1]
<1>1. conn[c].at = "read" /\ buf[c] # <<>> /\ UNCHANGED <<wire, half, inq, mem, data, cache, aof>>
  BY DEF Take
<1>2. ConnInv /\ subs \in [Channels -> Seq(Conns)] /\ DOMAIN conn = Conns
  BY DEF ServerInv, ConnInv, StoreInv
<1>3. f \in Frames /\ CnOK(cn) /\ cn.at = "read" /\ ~cn.exec /\ cn.db = conn[c].db
  BY <1>1, <1>2, TakesFrame
<1>4. \/ /\ conn' = [conn EXCEPT ![c] = Closed(cn, "error")]
         /\ UNCHANGED <<out, sent, subs, buf>>
      \/ /\ conn' = [conn EXCEPT ![c] = cn]
         /\ Write(c, <<Reply(cn, f, Error("unknown command"))>>)
         /\ buf' = [buf EXCEPT ![c] = Tail(@)] /\ UNCHANGED subs
      \/ /\ f[1] = "SUBSCRIBE" /\ subs' = [subs EXCEPT ![f[2]] = Append(@, c)]
         /\ conn' = [conn EXCEPT ![c] = Answered(cn, Array(<<Integer(1)>>))]
         /\ UNCHANGED <<out, sent, buf>>
      \/ /\ f[1] = "PUBLISH"
         /\ conn' = [conn EXCEPT ![c] =
                IF Sends(f) = <<>> THEN Answered(cn, Integer(0))
                ELSE [Start(cn, f) EXCEPT !.work = Sends(f)]]
         /\ UNCHANGED <<out, sent, subs, buf>>
      \/ /\ conn' = [conn EXCEPT ![c] = Dispatch(cn, f)]
         /\ UNCHANGED <<out, sent, subs, buf>>
  BY DEF Take
<1> HIDE DEF f, cn
<1>5. ASSUME NEW x, conn' = [conn EXCEPT ![c] = x], CnOK(x), x.db = cn.db, UNCHANGED <<out, sent, buf>>
      PROVE  ConnInv' /\ conn'[c].db = conn[c].db /\ \A e \in Conns \ {c} : conn'[e] = conn[e]
  <2>1. UNCHANGED <<input, out, sent>>
    BY <1>1, <1>5 DEF input
  <2>2. ConnInv'
    BY <1>1, <1>2, <1>5, <2>1, Worked
  <2>3. conn'[c] = x /\ \A e \in Conns \ {c} : conn'[e] = conn[e]
    BY <1>2, <1>5
  <2> QED
    BY <1>3, <1>5, <2>2, <2>3
<1>6. CASE conn' = [conn EXCEPT ![c] = Closed(cn, "error")] /\ UNCHANGED <<out, sent, subs, buf>>
  <2> DEFINE x == Closed(cn, "error")
  <2>1. CnOK(x) /\ x.db = cn.db
    BY <1>3, ClosedOK
  <2>2. conn' = [conn EXCEPT ![c] = x]
    BY <1>6
  <2> HIDE DEF x
  <2> QED
    BY <1>1, <1>2, <1>5, <1>6, <2>1, <2>2
<1>7. CASE /\ conn' = [conn EXCEPT ![c] = cn]
           /\ Write(c, <<Reply(cn, f, Error("unknown command"))>>)
           /\ buf' = [buf EXCEPT ![c] = Tail(@)] /\ UNCHANGED subs
  <2> DEFINE o == <<Reply(cn, f, Error("unknown command"))>>
  <2>1. Write(c, o)
    BY <1>7
  <2> HIDE DEF o
  <2>2. ConnInv'
    BY <1>1, <1>2, <1>3, <1>7, <2>1, Wrote
  <2>3. conn'[c] = cn /\ \A e \in Conns \ {c} : conn'[e] = conn[e]
    BY <1>2, <1>7
  <2> QED
    BY <1>1, <1>2, <1>3, <1>7, <2>2, <2>3
<1>8. CASE /\ f[1] = "SUBSCRIBE" /\ subs' = [subs EXCEPT ![f[2]] = Append(@, c)]
           /\ conn' = [conn EXCEPT ![c] = Answered(cn, Array(<<Integer(1)>>))]
           /\ UNCHANGED <<out, sent, buf>>
  <2> DEFINE x == Answered(cn, Array(<<Integer(1)>>))
  <2>1. CnOK(x) /\ x.db = cn.db
    BY <1>3, AnsweredOK DEF Went
  <2>2. conn' = [conn EXCEPT ![c] = x]
    BY <1>8
  <2>3. f[2] \in Channels
    BY <1>3, <1>8, FrameParts
  <2>4. subs' \in [Channels -> Seq(Conns)]
    BY <1>2, <1>8, <2>3
  <2> HIDE DEF x
  <2> QED
    BY <1>1, <1>5, <1>8, <2>1, <2>2, <2>4
<1>9. CASE /\ f[1] = "PUBLISH"
           /\ conn' = [conn EXCEPT ![c] =
                IF Sends(f) = <<>> THEN Answered(cn, Integer(0))
                ELSE [Start(cn, f) EXCEPT !.work = Sends(f)]]
           /\ UNCHANGED <<out, sent, subs, buf>>
  <2> DEFINE x == IF Sends(f) = <<>> THEN Answered(cn, Integer(0))
                  ELSE [Start(cn, f) EXCEPT !.work = Sends(f)]
  <2>1. Went(cn, x)
    BY <1>2, <1>3, <1>9, AnsweredOK, PublishOK
  <2>2. conn' = [conn EXCEPT ![c] = x]
    BY <1>9
  <2> HIDE DEF x
  <2> QED
    BY <1>1, <1>2, <1>5, <1>9, <2>1, <2>2 DEF Went
<1>10. CASE conn' = [conn EXCEPT ![c] = Dispatch(cn, f)] /\ UNCHANGED <<out, sent, subs, buf>>
  <2> DEFINE x == Dispatch(cn, f)
  <2>1. Went(cn, x)
    BY <1>3, DispatchOK
  <2>2. conn' = [conn EXCEPT ![c] = x]
    BY <1>10
  <2> HIDE DEF x
  <2> QED
    BY <1>1, <1>2, <1>5, <1>10, <2>1, <2>2 DEF Went
<1> QED
  BY <1>4, <1>6, <1>7, <1>8, <1>9, <1>10


\* What the action properties say of a step of connection c.
StepOK(c) ==
    /\ \A e \in Conns \ {c} : conn'[e] = conn[e]
    /\ conn[c].multi => UNCHANGED <<data, cache, aof>> /\ conn'[c].db = conn[c].db
    /\ conn[c].at = "run" /\ conn[c].cur[1] # "FLUSHALL" =>
          \A d \in Dbs \ {conn[c].db} : data'[d] = data[d]

LEMMA RestOK ==
    ASSUME ConnInv, NEW c \in Conns, NEW what, Doing(c, what), NEW r
    PROVE  Rest(c, r) = <<>> \/ WorkOK(Rest(c, r), conn[c].cur, conn[c].multi)
<1>1. Tail(conn[c].work) = <<>> \/ WorkOK(Tail(conn[c].work), conn[c].cur, conn[c].multi)
  BY AtWork
<1>2. Rest(c, r) = <<>> \/ Rest(c, r) = Tail(conn[c].work)
  BY DEF Rest
<1> QED
  BY <1>1, <1>2

LEMMA LogKept ==
    ASSUME ServerInv, NEW c \in Conns, LogCommand(c)
    PROVE  ServerInv' /\ StepOK(c)
<1>1. /\ ConnInv /\ Doing(c, "log") /\ DOMAIN conn = Conns
      /\ conn' = [conn EXCEPT ![c] = Proceed(conn[c], Simple("OK"), Tail(conn[c].work))]
      /\ UNCHANGED <<input, out, sent, inq, mem, data, subs, cache>>
  BY DEF LogCommand, ServerInv, ConnInv
<1>2. /\ conn[c].at = "run" /\ ~conn[c].multi
      /\ Tail(conn[c].work) = <<>> \/ WorkOK(Tail(conn[c].work), conn[c].cur, conn[c].multi)
  BY <1>1, AtWork
<1>3. ConnInv'
  BY <1>1, <1>2, ItemDone
<1>4. \A e \in Conns \ {c} : conn'[e] = conn[e]
  BY <1>1
<1> QED
  BY <1>1, <1>2, <1>3, <1>4 DEF ServerInv, QueueInv, StoreInv, StepOK

LEMMA DbTyped ==
    ASSUME NEW cn, NEW old \in Bytes \union {Absent}, NEW what \in {"get", "put", "incr", "del"},
           NEW v, what = "put" => v \in Bytes \union {Fraction}
    PROVE  DbNew(cn, old, what, v, DbResult(old, what)) \in Bytes \union {Absent}
<1> DEFINE r == DbResult(old, what)
<1>1. CASE what = "put"
  BY <1>1 DEF DbNew, Stored, Bytes, Fraction, Empty, Text
<1>2. CASE what = "del"
  BY <1>2 DEF DbNew
<1>3. CASE what = "incr" /\ old \in {Text, Empty}
  <2>1. IsError(r)
    BY <1>3 DEF DbResult, IsError, Error
  <2> QED
    BY <1>3, <2>1 DEF DbNew
<1>4. CASE what = "incr" /\ old \notin {Text, Empty}
  <2>1. r = Integer(IF old = Absent THEN 1 ELSE old + 1)
    BY <1>4 DEF DbResult
  <2>2. r.int \in Nat
    BY <1>4, <2>1 DEF Integer, Bytes
  <2> QED
    BY <1>4, <2>2 DEF DbNew, Bytes
<1>5. CASE what = "get"
  BY <1>5 DEF DbNew
<1> QED
  BY <1>1, <1>2, <1>3, <1>4, <1>5

LEMMA DbCallKept ==
    ASSUME ServerInv, NEW c \in Conns, DbCall(c)
    PROVE  ServerInv' /\ StepOK(c)
<1> DEFINE cn == conn[c]
           k == Arg(c, 2)
           old == data[cn.db][k]
<1>1. TargetDb(cn) = cn.db
  BY DEF TargetDb, HeldDb
<1>2. PICK what \in {"get", "put", "incr", "del"} :
         /\ Doing(c, what)
         /\ data' = [data EXCEPT ![cn.db][k] = DbNew(cn, old, what, Arg(c, 3), DbResult(old, what))]
         /\ conn' = [conn EXCEPT ![c] = Proceed(cn, DbResult(old, what), Rest(c, DbResult(old, what)))]
  BY <1>1 DEF DbCall
<1>3. /\ UNCHANGED <<input, out, sent, inq, mem, subs, cache, aof>>
      /\ ConnInv /\ DOMAIN conn = Conns /\ data \in [Dbs -> [Keys -> Bytes \union {Absent}]]
  BY DEF DbCall, ServerInv, ConnInv, StoreInv
<1> DEFINE r == DbResult(old, what)
           new == DbNew(cn, old, what, Arg(c, 3), r)
<1>4. cn.at = "run" /\ ~cn.multi /\ CnOK(cn) /\ DoOK(Head(cn.work).do) /\ Head(cn.work).do[1] = what
  BY <1>2, <1>3, AtWork
<1>5. k \in Keys /\ (what = "put" => Arg(c, 3) \in Bytes \union {Fraction}) /\ cn.db \in Dbs
  BY <1>4 DEF DoOK, Arg, CnOK
<1>6. old \in Bytes \union {Absent}
  BY <1>3, <1>5
<1>7. new \in Bytes \union {Absent}
  BY <1>5, <1>6, DbTyped
<1>8. Rest(c, r) = <<>> \/ WorkOK(Rest(c, r), cn.cur, cn.multi)
  BY <1>2, <1>3, RestOK
<1>9. data' = [data EXCEPT ![cn.db][k] = new] /\ conn' = [conn EXCEPT ![c] = Proceed(cn, r, Rest(c, r))]
  BY <1>2
<1> HIDE DEF r, new, k, old
<1>10. ConnInv'
  BY <1>3, <1>4, <1>8, <1>9, ItemDone
<1>11. data' \in [Dbs -> [Keys -> Bytes \union {Absent}]]
  BY <1>3, <1>5, <1>7, <1>9
<1>12. \A d \in Dbs \ {cn.db} : data'[d] = data[d]
  BY <1>3, <1>9
<1>13. \A e \in Conns \ {c} : conn'[e] = conn[e]
  BY <1>3, <1>9
<1> QED
  BY <1>3, <1>4, <1>10, <1>11, <1>12, <1>13 DEF ServerInv, QueueInv, StoreInv, StepOK

LEMMA FlushKept ==
    ASSUME ServerInv, NEW c \in Conns, FlushDb(c)
    PROVE  ServerInv' /\ StepOK(c)
<1>1. /\ ConnInv /\ Doing(c, "flush") /\ DOMAIN conn = Conns
      /\ conn' = [conn EXCEPT ![c] = Proceed(conn[c], Simple("OK"), Tail(conn[c].work))]
      /\ data' = [data EXCEPT ![Arg(c, 2)] = [k \in Keys |-> Absent]]
      /\ data \in [Dbs -> [Keys -> Bytes \union {Absent}]]
      /\ UNCHANGED <<input, out, sent, inq, mem, subs, cache, aof>>
  BY DEF FlushDb, ServerInv, ConnInv, StoreInv
<1>2. /\ conn[c].at = "run" /\ ~conn[c].multi /\ conn[c].cur[1] = "FLUSHALL"
      /\ Tail(conn[c].work) = <<>> \/ WorkOK(Tail(conn[c].work), conn[c].cur, conn[c].multi)
  BY <1>1, AtWork
<1>3. ConnInv'
  BY <1>1, <1>2, ItemDone
<1>4. \A e \in Conns \ {c} : conn'[e] = conn[e]
  BY <1>1
<1>5. data' \in [Dbs -> [Keys -> Bytes \union {Absent}]]
  BY <1>1
<1> QED
  BY <1>1, <1>2, <1>3, <1>4, <1>5 DEF ServerInv, QueueInv, StoreInv, StepOK


\* A running connection in which only the database or the script's pointer changed.
LEMMA SameWork ==
    ASSUME NEW cn, CnOK(cn), cn.at = "run", NEW d \in Dbs
    PROVE  /\ CnOK([cn EXCEPT !.db = d]) /\ CnOK([cn EXCEPT !.held = d])
           /\ [cn EXCEPT !.db = d].at = "run" /\ [cn EXCEPT !.held = d].at = "run"
           /\ [cn EXCEPT !.db = d].cur = cn.cur /\ [cn EXCEPT !.held = d].cur = cn.cur
           /\ [cn EXCEPT !.db = d].multi = cn.multi /\ [cn EXCEPT !.held = d].multi = cn.multi
           /\ [cn EXCEPT !.held = d].db = cn.db
<1> DEFINE x == [cn EXCEPT !.db = d]
           y == [cn EXCEPT !.held = d]
<1>1. /\ DOMAIN x = DOMAIN cn /\ x.at = cn.at /\ x.cur = cn.cur /\ x.work = cn.work
      /\ x.db = d /\ x.n = cn.n /\ x.multi = cn.multi /\ x.exec = cn.exec
      /\ x.queue = cn.queue /\ x.batch = cn.batch
  BY DEF CnOK, Fields
<1>2. /\ DOMAIN y = DOMAIN cn /\ y.at = cn.at /\ y.cur = cn.cur /\ y.work = cn.work
      /\ y.db = cn.db /\ y.n = cn.n /\ y.multi = cn.multi /\ y.exec = cn.exec
      /\ y.queue = cn.queue /\ y.batch = cn.batch
  BY DEF CnOK, Fields
<1> HIDE DEF x, y
<1>3. CnOK(x) /\ CnOK(y)
  BY <1>1, <1>2 DEF CnOK
<1> QED
  BY <1>1, <1>2, <1>3 DEF x, y

LEMMA ProceedFrom ==
    ASSUME ConnInv, NEW c \in Conns, conn[c].at = "run", NEW y, CnOK(y), y.at = "run", NEW r, NEW rest,
           rest = <<>> \/ WorkOK(rest, y.cur, y.multi),
           conn' = [conn EXCEPT ![c] = Proceed(y, r, rest)], UNCHANGED <<input, out, sent>>
    PROVE  ConnInv' /\ \A e \in Conns \ {c} : conn'[e] = conn[e]
<1> DEFINE x == Proceed(y, r, rest)
<1>1. DOMAIN conn = Conns /\ buf[c] # <<>>
  BY DEF ConnInv
<1>2. CnOK(x)
  BY ProceedOK DEF Went
<1> HIDE DEF x
<1>3. conn' = [conn EXCEPT ![c] = x]
  BY DEF x
<1> QED
  BY <1>1, <1>2, <1>3, Worked

LEMMA NoDbKept ==
    ASSUME ServerInv, NEW c \in Conns, NoDb(c)
    PROVE  ServerInv' /\ StepOK(c)
<1>1. /\ ConnInv /\ UNCHANGED <<input, out, sent, inq, mem, data, subs, cache, aof>>
  BY DEF NoDb, ServerInv, shared
<1>2. CASE /\ Doing(c, "nop")
           /\ conn' = [conn EXCEPT ![c] = Proceed(@, Simple("PONG"), Tail(@.work))]
  <2>1. /\ conn[c].at = "run" /\ CnOK(conn[c]) /\ ~conn[c].multi
        /\ Tail(conn[c].work) = <<>> \/ WorkOK(Tail(conn[c].work), conn[c].cur, conn[c].multi)
    BY <1>1, <1>2, AtWork
  <2>2. conn' = [conn EXCEPT ![c] = Proceed(conn[c], Simple("PONG"), Tail(conn[c].work))]
    BY <1>2
  <2>3. ConnInv' /\ \A e \in Conns \ {c} : conn'[e] = conn[e]
    BY <1>1, <2>1, <2>2, ProceedFrom
  <2> QED
    BY <1>1, <2>1, <2>3 DEF ServerInv, QueueInv, StoreInv, StepOK
<1>3. CASE /\ Doing(c, "select")
           /\ LET ok == Arg(c, 2) \in Dbs
                  r  == IF ok THEN Simple("OK") ELSE Error("invalid DB index") IN
              conn' = [conn EXCEPT ![c] =
                        Proceed(IF ok THEN [@ EXCEPT !.db = Arg(c, 2)] ELSE @, r, Rest(c, r))]
  <2> DEFINE d  == Arg(c, 2)
             ok == d \in Dbs
             r  == IF ok THEN Simple("OK") ELSE Error("invalid DB index")
             y  == IF ok THEN [conn[c] EXCEPT !.db = d] ELSE conn[c]
  <2>1. conn[c].at = "run" /\ CnOK(conn[c]) /\ ~conn[c].multi
    BY <1>1, <1>3, AtWork
  <2>2. conn' = [conn EXCEPT ![c] = Proceed(y, r, Rest(c, r))]
    BY <1>3
  <2>3. Rest(c, r) = <<>> \/ WorkOK(Rest(c, r), conn[c].cur, conn[c].multi)
    BY <1>1, <1>3, RestOK
  <2>4. CnOK(y) /\ y.at = "run" /\ y.cur = conn[c].cur /\ y.multi = conn[c].multi
    BY <2>1, SameWork
  <2> HIDE DEF y, r
  <2>5. ConnInv' /\ \A e \in Conns \ {c} : conn'[e] = conn[e]
    BY <1>1, <2>1, <2>2, <2>3, <2>4, ProceedFrom
  <2> QED
    BY <1>1, <2>1, <2>5 DEF ServerInv, QueueInv, StoreInv, StepOK
<1> QED
  BY <1>2, <1>3 DEF NoDb

LEMMA CacheKept ==
    ASSUME ServerInv, NEW c \in Conns, ScriptCache(c)
    PROVE  ServerInv' /\ StepOK(c)
<1>1. ConnInv /\ cache \subseteq Scripts /\ UNCHANGED <<input, out, sent, inq, mem, data, subs, aof>>
  BY DEF ScriptCache, ServerInv, StoreInv
<1>2. ASSUME NEW what \in {"load", "forget", "lookup"}, Doing(c, what), NEW r, NEW rest,
             rest = <<>> \/ WorkOK(rest, conn[c].cur, conn[c].multi), cache' \subseteq Scripts,
             conn' = [conn EXCEPT ![c] = Proceed(conn[c], r, rest)]
      PROVE  ServerInv' /\ StepOK(c)
  <2>1. conn[c].at = "run" /\ CnOK(conn[c]) /\ ~conn[c].multi
    BY <1>1, <1>2, AtWork
  <2>2. ConnInv' /\ \A e \in Conns \ {c} : conn'[e] = conn[e]
    BY <1>1, <1>2, <2>1, ProceedFrom
  <2> QED
    BY <1>1, <1>2, <2>1, <2>2 DEF ServerInv, QueueInv, StoreInv, StepOK
<1>3. CASE /\ Doing(c, "load") /\ cache' = cache \union {Arg(c, 2)}
           /\ conn' = [conn EXCEPT ![c] = Proceed(@, [sha |-> Arg(c, 2)], Tail(@.work))]
  <2> DEFINE r == [sha |-> Arg(c, 2)]
  <2>1. /\ DoOK(Head(conn[c].work).do) /\ Head(conn[c].work).do[1] = "load"
        /\ Tail(conn[c].work) = <<>> \/ WorkOK(Tail(conn[c].work), conn[c].cur, conn[c].multi)
    BY <1>1, <1>3, AtWork
  <2>2. Arg(c, 2) \in Scripts
    BY <2>1 DEF DoOK, Arg
  <2>3. cache' \subseteq Scripts
    BY <1>1, <1>3, <2>2
  <2>4. conn' = [conn EXCEPT ![c] = Proceed(conn[c], r, Tail(conn[c].work))]
    BY <1>3
  <2> HIDE DEF r
  <2> QED
    BY <1>2, <1>3, <2>1, <2>3, <2>4
<1>4. CASE /\ Doing(c, "forget") /\ cache' = {}
           /\ conn' = [conn EXCEPT ![c] = Proceed(@, Simple("OK"), Tail(@.work))]
  <2>1. Tail(conn[c].work) = <<>> \/ WorkOK(Tail(conn[c].work), conn[c].cur, conn[c].multi)
    BY <1>1, <1>4, AtWork
  <2>2. conn' = [conn EXCEPT ![c] = Proceed(conn[c], Simple("OK"), Tail(conn[c].work))]
    BY <1>4
  <2> QED
    BY <1>2, <1>4, <2>1, <2>2
<1>5. CASE /\ Doing(c, "lookup") /\ UNCHANGED cache
           /\ conn' = [conn EXCEPT ![c] =
                IF Arg(c, 2) \in cache
                  THEN Proceed(@, Simple("OK"), <<Item(<<"enter", Arg(c, 2)>>)>>)
                  ELSE Proceed(@, Error("NOSCRIPT"), <<>>)]
  <2> DEFINE do   == <<"enter", Arg(c, 2)>>
             hit  == Arg(c, 2) \in cache
             r    == IF hit THEN Simple("OK") ELSE Error("NOSCRIPT")
             rest == IF hit THEN <<Item(do)>> ELSE <<>>
  <2>1. ~conn[c].multi /\ CnOK(conn[c])
    BY <1>1, <1>5, AtWork
  <2>2. conn' = [conn EXCEPT ![c] = Proceed(conn[c], r, rest)]
    BY <1>5
  <2>3. rest = <<>> \/ WorkOK(rest, conn[c].cur, FALSE)
    <3>1. hit => DoOK(do) /\ do[1] # "flush"
      BY <1>1 DEF DoOK
    <3> HIDE DEF do
    <3>2. hit => WorkOK(<<Item(do)>>, conn[c].cur, FALSE)
      BY <3>1, OneItem
    <3> QED
      BY <3>2
  <2>4. conn[c].multi = FALSE
    BY <2>1 DEF CnOK
  <2> HIDE DEF r, rest
  <2> QED
    BY <1>1, <1>2, <1>5, <2>2, <2>3, <2>4
<1> QED
  BY <1>3, <1>4, <1>5 DEF ScriptCache

LEMMA CallParts ==
    ASSUME NEW do \in ScriptCalls
    PROVE  DoOK(do) /\ do[1] # "flush"
<1>1. CASE do \in {"get", "incr", "del"} \X Keys
  BY <1>1 DEF DoOK
<1>2. CASE do \in {"put"} \X Keys \X (Bytes \union {Fraction})
  BY <1>2 DEF DoOK
<1>3. CASE do \in {"select"} \X Int
  BY <1>3 DEF DoOK
<1> QED
  BY <1>1, <1>2, <1>3 DEF ScriptCalls

LEMMA ScriptWork ==
    ASSUME NEW s \in Scripts, NEW f
    PROVE  ScriptItems(s) = <<>> \/ WorkOK(ScriptItems(s), f, FALSE)
<1> DEFINE calls == Body[s].calls
           w == ScriptItems(s)
<1>1. calls \in Seq([do : ScriptCalls, pcall : BOOLEAN])
  BY ServerAssumption
<1>2. w = [i \in DOMAIN calls |-> w[i]] /\ \A i \in DOMAIN calls : w[i].do = calls[i].do
  BY DEF ScriptItems
<1> HIDE DEF calls, w
<1>3. Len(calls) \in Nat /\ DOMAIN calls = 1..Len(calls) /\ \A i \in DOMAIN calls : calls[i].do \in ScriptCalls
  <2> DEFINE X == [do : ScriptCalls, pcall : BOOLEAN]
  <2>1. \A x \in X : x.do \in ScriptCalls
    OBVIOUS
  <2>2. calls \in Seq(X)
    BY <1>1
  <2> HIDE DEF X
  <2>3. Len(calls) \in Nat /\ DOMAIN calls = 1..Len(calls) /\ \A i \in DOMAIN calls : calls[i] \in X
    BY <2>2
  <2> QED
    BY <2>1, <2>3
<1>4. DOMAIN w = 1..Len(calls) /\ w = [i \in 1..Len(calls) |-> w[i]]
  BY <1>2, <1>3
<1>5. IsSeq(w)
  BY <1>3, <1>4, SeqOfArgs
<1>6. \A i \in DOMAIN w : DoOK(w[i].do) /\ w[i].do[1] # "flush"
  BY <1>2, <1>3, <1>4, CallParts
<1> QED
  BY <1>5, <1>6 DEF WorkOK, w


LEMMA EnterKept ==
    ASSUME ServerInv, NEW c \in Conns, EnterScript(c)
    PROVE  ServerInv' /\ StepOK(c)
<1> DEFINE s    == Arg(c, 2)
           used == MaybeReset(IF mem[c] = Absent THEN MemBase ELSE mem[c])
           fits == used + Body[s].cost <= MemTotal
           m    == IF fits THEN used + Body[s].cost ELSE MemTotal
           y    == [conn[c] EXCEPT !.held = conn[c].db]
           r    == IF fits THEN Blob(Absent) ELSE Error("out of memory")
           rest == IF fits THEN ScriptItems(s) ELSE <<>>
<1>1. /\ ConnInv /\ Doing(c, "enter") /\ mem \in [Conns -> {Absent} \union MemBase..MemTotal]
      /\ UNCHANGED <<input, out, sent, inq, data, subs, cache, aof>>
  BY DEF EnterScript, ServerInv, StoreInv, shared
<1>2. mem' = [mem EXCEPT ![c] = m] /\ conn' = [conn EXCEPT ![c] = Proceed(y, r, rest)]
  BY DEF EnterScript
<1>3. /\ conn[c].at = "run" /\ CnOK(conn[c]) /\ ~conn[c].multi
      /\ DoOK(Head(conn[c].work).do) /\ Head(conn[c].work).do[1] = "enter"
  BY <1>1, AtWork
<1>4. s \in Scripts
  BY <1>3 DEF DoOK, Arg
<1>5. conn[c].db \in Dbs /\ conn[c].multi = FALSE
  BY <1>3 DEF CnOK
<1>6. CnOK(y) /\ y.at = "run" /\ y.cur = conn[c].cur /\ y.multi = FALSE
  BY <1>3, <1>5, SameWork
<1> HIDE DEF y
<1>7. rest = <<>> \/ WorkOK(rest, y.cur, y.multi)
  BY <1>4, <1>6, ScriptWork
<1>8. m \in MemBase..MemTotal
  <2>1. MemBase \in Nat /\ MemTotal \in Nat /\ MemBase <= MemTotal /\ Body[s].cost \in Nat
    BY <1>4, ServerAssumption
  <2>2. (IF mem[c] = Absent THEN MemBase ELSE mem[c]) \in MemBase..MemTotal
    BY <1>1, <2>1
  <2>3. used \in MemBase..MemTotal
    BY <2>1, <2>2 DEF MaybeReset
  <2> HIDE DEF used
  <2> QED
    BY <2>1, <2>3
<1> HIDE DEF rest, r, m
<1>9. ConnInv' /\ \A e \in Conns \ {c} : conn'[e] = conn[e]
  BY <1>1, <1>2, <1>3, <1>6, <1>7, ProceedFrom
<1>10. mem' \in [Conns -> {Absent} \union MemBase..MemTotal]
  BY <1>1, <1>2, <1>8
<1> QED
  BY <1>1, <1>3, <1>9, <1>10 DEF ServerInv, QueueInv, StoreInv, StepOK

LEMMA SendKept ==
    ASSUME ServerInv, NEW c \in Conns, Send(c)
    PROVE  ServerInv' /\ StepOK(c)
<1> DEFINE to  == Arg(c, 3)
           ok  == HasRoom(inq[to]) /\ conn[to].at # "closed"
           msg == [by |-> c, n |-> conn[c].n]
           r   == Counted(ok)
<1>1. /\ ConnInv /\ Doing(c, "send") /\ DOMAIN conn = Conns
      /\ inq \in [Conns -> Seq([by : Conns, n : Nat])] /\ \A e \in Conns : Len(inq[e]) <= Capacity
      /\ UNCHANGED <<input, out, sent, mem, data, subs, cache, aof>>
  BY DEF Send, ServerInv, ConnInv, QueueInv, shared
<1>2. /\ inq' = IF ok THEN [inq EXCEPT ![to] = Append(@, msg)] ELSE inq
      /\ conn' = [conn EXCEPT ![c] = Proceed(conn[c], r, Tail(conn[c].work))]
  BY DEF Send
<1>3. /\ conn[c].at = "run" /\ CnOK(conn[c])
      /\ DoOK(Head(conn[c].work).do) /\ Head(conn[c].work).do[1] = "send"
      /\ Tail(conn[c].work) = <<>> \/ WorkOK(Tail(conn[c].work), conn[c].cur, conn[c].multi)
  BY <1>1, AtWork
<1>4. to \in Conns
  BY <1>3 DEF DoOK, Arg
<1>5. msg \in [by : Conns, n : Nat]
  BY <1>3 DEF CnOK
<1> HIDE DEF r, msg, to
<1>6. ConnInv' /\ conn'[c].db = conn[c].db
  BY <1>1, <1>2, <1>3, ItemDone
<1>7. QueueInv'
  <2>1. CASE ok
    <3>1. inq[to] \in Seq([by : Conns, n : Nat]) /\ Len(inq[to]) < Capacity
      BY <1>1, <1>4, <2>1 DEF HasRoom
    <3>2. /\ Append(inq[to], msg) \in Seq([by : Conns, n : Nat])
          /\ Len(Append(inq[to], msg)) <= Capacity
      BY <1>5, <3>1, ServerAssumption
    <3>3. inq' = [inq EXCEPT ![to] = Append(inq[to], msg)]
      BY <1>2, <2>1
    <3> QED
      BY <1>1, <1>4, <3>2, <3>3 DEF QueueInv
  <2>2. CASE ~ok
    BY <1>1, <1>2, <2>2 DEF QueueInv
  <2> QED
    BY <2>1, <2>2
<1>8. \A e \in Conns \ {c} : conn'[e] = conn[e]
  BY <1>1, <1>2
<1> QED
  BY <1>1, <1>6, <1>7, <1>8 DEF ServerInv, StoreInv, StepOK

\* One step of connection c or of its client.
LEMMA StepKept ==
    ASSUME ServerInv, NEW c \in Conns, Serve(c) \/ Client(c)
    PROVE  ServerInv' /\ StepOK(c)
<1>1. CASE Take(c)
  <2>1. /\ ConnInv' /\ subs' \in [Channels -> Seq(Conns)]
        /\ conn'[c].db = conn[c].db /\ \A e \in Conns \ {c} : conn'[e] = conn[e]
        /\ UNCHANGED <<inq, mem, data, cache, aof>>
    BY <1>1, TakeParts
  <2> QED
    BY <2>1 DEF ServerInv, QueueInv, StoreInv, StepOK
<1>2. CASE Respond(c)
  <2>1. ServerInv'
    BY <1>2, RespondKept
  <2>2. \A e \in Conns \ {c} : conn'[e] = conn[e]
    BY <1>2 DEF Respond, ServerInv, ConnInv
  <2>3. UNCHANGED <<data, cache, aof>>
    BY <1>2 DEF Respond, shared
  <2>4. conn'[c].db = conn[c].db
    <3>1. CnOK(conn[c]) /\ DOMAIN conn = Conns
      BY DEF ServerInv, ConnInv
    <3>2. conn'[c] \in {Closed(conn[c], "quit"), [conn[c] EXCEPT !.at = "read"]}
      BY <1>2, <3>1 DEF Respond
    <3> QED
      BY <3>1, <3>2 DEF Closed, CnOK, Fields
  <2> QED
    BY <2>1, <2>2, <2>3, <2>4 DEF StepOK
<1>3. CASE DbCall(c)
  BY <1>3, DbCallKept
<1>4. CASE FlushDb(c)
  BY <1>4, FlushKept
<1>5. CASE LogCommand(c)
  BY <1>5, LogKept
<1>6. CASE NoDb(c)
  BY <1>6, NoDbKept
<1>7. CASE ScriptCache(c)
  BY <1>7, CacheKept
<1>8. CASE EnterScript(c)
  BY <1>8, EnterKept
<1>9. CASE Send(c)
  BY <1>9, SendKept
<1>10. CASE Fill(c)
  <2>1. ServerInv'
    BY <1>10, FillKept
  <2>2. UNCHANGED <<conn, data, cache, aof>>
    BY <1>10 DEF Fill, shared
  <2> QED
    BY <2>1, <2>2 DEF StepOK
<1>11. CASE Hangup(c)
  <2>1. ServerInv'
    BY <1>11, HangupKept
  <2>2. UNCHANGED <<data, cache, aof>> /\ \A e \in Conns \ {c} : conn'[e] = conn[e]
    BY <1>11 DEF Hangup, shared, ServerInv, ConnInv
  <2>3. conn'[c].db = conn[c].db
    <3>1. CnOK(conn[c]) /\ DOMAIN conn = Conns
      BY DEF ServerInv, ConnInv
    <3>2. conn'[c] = Closed(conn[c], IF half[c] THEN "error" ELSE "eof")
      BY <1>11, <3>1 DEF Hangup
    <3> QED
      BY <3>1, <3>2 DEF Closed, CnOK, Fields
  <2> QED
    BY <2>1, <2>2, <2>3 DEF StepOK
<1> QED
  BY <1>1, <1>2, <1>3, <1>4, <1>5, <1>6, <1>7, <1>8, <1>9, <1>10, <1>11 DEF Serve, Client

LEMMA ServerInvariant == Spec => []ServerInv
<1>1. ServerInv /\ [Next]_vars => ServerInv'
  <2> SUFFICES ASSUME ServerInv, [Next]_vars PROVE ServerInv'
    OBVIOUS
  <2>1. CASE Next
    BY <2>1, StepKept DEF Next
  <2>2. CASE UNCHANGED vars
    BY <2>2 DEF vars, ServerInv, ConnInv, QueueInv, StoreInv, NoReplyHeldBack
  <2> QED
    BY <2>1, <2>2
<1> QED
  BY <1>1, InitOK, PTL DEF Spec


\* The types of the connections, the databases, the channels' queues, the script
\* runtimes and the registry; a connection that runs has something to do and the
\* command it answers still in its buffer; a fraction is never stored as such.
THEOREM ServerTyped == Spec => []TypeOK
<1>1. ServerInv => TypeOK
  <2> SUFFICES ASSUME ServerInv PROVE TypeOK
    OBVIOUS
  <2>1. ASSUME NEW c \in Conns
        PROVE  /\ conn[c].at \in {"read", "run", "reply", "closed"} /\ conn[c].db \in Dbs
               /\ conn[c].multi \in BOOLEAN /\ half[c] \in BOOLEAN
               /\ conn[c].at = "run" => conn[c].work # <<>>
               /\ conn[c].at \in {"run", "reply"} => buf[c] # <<>>
    BY DEF ServerInv, ConnInv, CnOK, WorkOK
  <2>2. \A c \in Conns : Len(inq[c]) <= Capacity /\ mem[c] \in {Absent} \union MemBase..MemTotal
    BY DEF ServerInv, QueueInv, StoreInv
  <2>3. (\A d \in Dbs, k \in Keys : data[d][k] \in Bytes \union {Absent}) /\ cache \subseteq Scripts
    BY DEF ServerInv, StoreInv
  <2>4. \A ch \in Channels : \A i \in DOMAIN subs[ch] : subs[ch][i] \in Conns
    <3> SUFFICES ASSUME NEW ch \in Channels, NEW i \in DOMAIN subs[ch] PROVE subs[ch][i] \in Conns
      OBVIOUS
    <3>1. subs[ch] \in Seq(Conns)
      BY DEF ServerInv, StoreInv
    <3> QED
      BY <3>1
  <2> QED
    BY <2>1, <2>2, <2>3, <2>4 DEF TypeOK
<1> QED
  BY <1>1, ServerInvariant, PTL

\* A client that has sent whole frames only has every reply: whatever it
\* pipelines and however its bytes arrive, nothing is left in the BufWriter when
\* the task waits for input or has ended.
THEOREM RepliesFlushed == Spec => []NoReplyHeldBack
<1>1. ServerInv => NoReplyHeldBack
  BY DEF ServerInv, ConnInv
<1> QED
  BY <1>1, ServerInvariant, PTL

LEMMA StepsAlone ==
    ASSUME ServerInv, [Next]_vars
    PROVE  \A c \in Conns : conn'[c] # conn[c] => StepOK(c)
<1> SUFFICES ASSUME NEW c \in Conns, conn'[c] # conn[c] PROVE StepOK(c)
  OBVIOUS
<1>1. Next
  BY DEF vars
<1>2. PICK e \in Conns : Serve(e) \/ Client(e)
  BY <1>1 DEF Next
<1>3. StepOK(e)
  BY <1>2, StepKept
<1>4. e = c
  BY <1>3 DEF StepOK
<1> QED
  BY <1>3, <1>4

\* MULTI: until EXEC the connection changes no data, no script cache, no
\* append-only file and no selected database, whatever is sent in between.
THEOREM MultiOnlyQueues == Spec => NothingRunsInMulti
<1>1. ServerInv /\ [Next]_vars =>
        [\A c \in Conns : conn[c].multi /\ conn'[c] # conn[c] =>
            UNCHANGED <<data, cache, aof>> /\ conn'[c].db = conn[c].db]_vars
  BY StepsAlone DEF StepOK
<1> QED
  BY <1>1, ServerInvariant, PTL DEF Spec, NothingRunsInMulti

\* Writes go to the database selected at that moment, also after a SELECT inside
\* an EXEC or a script; only FLUSHALL reaches the other databases.
THEOREM WritesStayInDb == Spec => WritesSelectedDb
<1>1. ServerInv /\ [Next]_vars =>
        [\A c \in Conns : conn'[c] # conn[c] /\ conn[c].at = "run" /\ conn[c].cur[1] # "FLUSHALL" =>
            \A d \in Dbs \ {conn[c].db} : data'[d] = data[d]]_vars
  BY StepsAlone DEF StepOK
<1> QED
  BY <1>1, ServerInvariant, PTL DEF Spec, WritesSelectedDb


----------------------------------------------------------------------------
(* Script memory.                                                          *)

Oom == Error("out of memory")
SmallScripts == \A s \in Scripts : Body[s].cost * 100 <= MemTotal * (100 - Percent)

Clean(s) == \E S : Oom \notin S /\ s \in Seq(S)
CleanCn(cn) == Clean(cn.got) /\ cn.reply # Oom

\* What has been, or will be, sent to a client.
Fine(s) == IsSeq(s) /\ \A i \in DOMAIN s : IsMessage(s[i]) \/ s[i].r # Oom

MemInv == \A c \in Conns : CleanCn(conn[c]) /\ Fine(out[c]) /\ Fine(sent[c])

LEMMA NotOom ==
    /\ \A n : Integer(n) # Oom /\ [sha |-> n] # Oom /\ Array(n) # Oom /\ Simple(n) # Oom /\ Blob(n) # Oom
    /\ \A n : n # "out of memory" => Error(n) # Oom
    /\ \A x : x # Oom => ThroughJs(x) # Oom
<1> DEFINE Is(x) == "error" \in DOMAIN x /\ x.error = "out of memory"
<1>1. Is(Oom)
  BY DEF Oom, Error
<1>2. \A n : ~Is(Integer(n)) /\ ~Is([sha |-> n]) /\ ~Is(Array(n)) /\ ~Is(Simple(n))
  BY DEF Integer, Array, Simple
<1>3. \A n : ~Is(Blob(n))
  BY DEF Blob
<1>4. \A n : n # "out of memory" => ~Is(Error(n))
  BY DEF Error
<1>5. \A x : x # Oom => ThroughJs(x) # Oom
  <2>1. \A n : ~Is([blob |-> n])
    OBVIOUS
  <2> HIDE DEF Is
  <2> QED
    BY <1>1, <2>1 DEF ThroughJs
<1> HIDE DEF Is
<1> QED
  BY <1>1, <1>2, <1>3, <1>4, <1>5

LEMMA CleanAppend ==
    ASSUME NEW s, Clean(s), NEW r, r # Oom
    PROVE  /\ Clean(Append(s, r)) /\ Append(s, r)[1] # Oom
           /\ Last(Append(s, r)) # Oom
<1> DEFINE x == Append(s, r)
<1> PICK S : Oom \notin S /\ s \in Seq(S)
  BY DEF Clean
<1> DEFINE T == S \union {r}
<1>1. s \in Seq(T) /\ r \in T /\ Oom \notin T
  OBVIOUS
<1> HIDE DEF T
<1>2. x \in Seq(T) /\ Len(x) = Len(s) + 1 /\ Len(s) \in Nat
  BY <1>1
<1>3. x[1] \in T /\ x[Len(x)] \in T
  BY <1>2
<1> HIDE DEF x
<1>4. Clean(x) /\ x[1] # Oom /\ Last(x) # Oom
  BY <1>1, <1>2, <1>3 DEF Clean, Last
<1> QED
  BY <1>4 DEF x

LEMMA CleanAnswer ==
    ASSUME NEW f, NEW s, Clean(s), NEW r, r # Oom
    PROVE  Answer(f, Append(s, r)) # Oom
<1> DEFINE got == Append(s, r)
<1>1. got[1] # Oom /\ Last(got) # Oom
  BY CleanAppend
<1> HIDE DEF got
<1>2. ThroughJs(Last(got)) # Oom
  BY <1>1, NotOom
<1>3. Answer(f, got) \in {got[1], ThroughJs(Last(got)), Simple("OK"), Simple("PONG"), Array(got), [sha |-> f[2]],
                          Integer(Cardinality({i \in DOMAIN got : got[i] = Integer(1)}))}
  BY DEF Answer
<1>4. Answer(f, got) # Oom
  BY <1>1, <1>2, <1>3, NotOom
<1> QED
  BY <1>4 DEF got

LEMMA CleanEmpty == Clean(<<>>)
<1>1. Oom \notin {} /\ <<>> \in Seq({})
  OBVIOUS
<1> QED
  BY <1>1 DEF Clean

LEMMA CleanStart ==
    ASSUME NEW cn, CnOK(cn), CleanCn(cn), NEW f
    PROVE  CleanCn(Start(cn, f)) /\ Start(cn, f).got = <<>> /\ Start(cn, f).reply = cn.reply
<1> DEFINE x == Start(cn, f)
<1>1. x.got = <<>> /\ x.reply = cn.reply
  BY DEF Start, CnOK, Fields
<1> HIDE DEF x
<1>2. CleanCn(x)
  BY <1>1, CleanEmpty DEF CleanCn
<1> QED
  BY <1>1, <1>2 DEF x

LEMMA CleanDone ==
    ASSUME NEW cn, CnOK(cn), CleanCn(cn), NEW r, r # Oom
    PROVE  CleanCn(Done(cn, r))
<1> DEFINE x == Done(cn, r)
<1>1. CASE ~cn.exec
  <2>1. x.got = cn.got /\ x.reply = r
    BY <1>1 DEF Done, CnOK, Fields
  <2> HIDE DEF x
  <2>2. CleanCn(x)
    BY <2>1 DEF CleanCn
  <2> QED
    BY <2>2 DEF x
<1>2. CASE cn.exec /\ cn.batch = <<>>
  <2>1. x.got = cn.got /\ x.reply = Array(Append(cn.results, r))
    BY <1>2 DEF Done, CnOK, Fields
  <2> HIDE DEF x
  <2>2. CleanCn(x)
    BY <2>1, NotOom DEF CleanCn
  <2> QED
    BY <2>2 DEF x
<1>3. CASE cn.exec /\ cn.batch # <<>>
  <2> DEFINE f == Head(cn.batch)
  <2>1. x = [Start(cn, f) EXCEPT !.batch = Tail(@), !.results = Append(cn.results, r)]
    BY <1>3 DEF Done
  <2> HIDE DEF f
  <2>2. x.got = <<>> /\ x.reply = cn.reply
    BY <2>1 DEF Start, CnOK, Fields
  <2> HIDE DEF x
  <2>3. CleanCn(x)
    BY <2>2, CleanEmpty DEF CleanCn
  <2> QED
    BY <2>3 DEF x
<1> QED
  BY <1>1, <1>2, <1>3 DEF CnOK

LEMMA CleanProceed ==
    ASSUME NEW cn, CnOK(cn), CleanCn(cn), NEW r, r # Oom, NEW rest
    PROVE  CleanCn(Proceed(cn, r, rest))
<1>1. CASE rest = <<>>
  <2> DEFINE a == Answer(cn.cur, Append(cn.got, r))
  <2>1. a # Oom
    BY CleanAnswer DEF CleanCn
  <2>2. Proceed(cn, r, rest) = Done(cn, a)
    BY <1>1 DEF Proceed
  <2> HIDE DEF a
  <2> QED
    BY <2>1, <2>2, CleanDone
<1>2. CASE rest # <<>>
  <2> DEFINE x == Proceed(cn, r, rest)
  <2>1. x.got = Append(cn.got, r) /\ x.reply = cn.reply
    BY <1>2 DEF Proceed, CnOK, Fields
  <2>2. Clean(Append(cn.got, r))
    BY CleanAppend DEF CleanCn
  <2> HIDE DEF x
  <2>3. CleanCn(x)
    BY <2>1, <2>2 DEF CleanCn
  <2> QED
    BY <2>3 DEF x
<1> QED
  BY <1>1, <1>2


LEMMA CleanAnswered ==
    ASSUME NEW cn, DOMAIN cn = Fields, Clean(cn.got), NEW r, r # Oom
    PROVE  CleanCn(Answered(cn, r))
<1> DEFINE x == Answered(cn, r)
<1>1. x.got = cn.got /\ x.reply = r
  BY DEF Answered, Fields
<1> HIDE DEF x
<1>2. CleanCn(x)
  BY <1>1 DEF CleanCn
<1> QED
  BY <1>2 DEF x

LEMMA CleanExec ==
    ASSUME NEW cn, CnOK(cn), CleanCn(cn)
    PROVE  CleanCn(Exec(cn))
<1>1. CASE ~cn.multi
  <2>1. Exec(cn) = Answered(cn, Error("EXEC without MULTI"))
    BY <1>1 DEF Exec
  <2> QED
    BY <2>1, CleanAnswered, NotOom DEF CnOK, CleanCn
<1>2. CASE cn.multi /\ cn.queue = <<>>
  <2> DEFINE y == [cn EXCEPT !.multi = FALSE]
  <2>1. DOMAIN y = Fields /\ y.got = cn.got
    BY DEF CnOK, Fields
  <2>2. Exec(cn) = Answered(y, Array(<<>>))
    BY <1>2 DEF Exec
  <2> HIDE DEF y
  <2> QED
    BY <2>1, <2>2, CleanAnswered, NotOom DEF CleanCn
<1>3. CASE cn.multi /\ cn.queue # <<>>
  <2> DEFINE f == Head(cn.queue)
             x == Exec(cn)
  <2>1. x = [Start(cn, f) EXCEPT !.multi = FALSE, !.queue = <<>>, !.exec = TRUE,
                                 !.batch = Tail(cn.queue), !.results = <<>>]
    BY <1>3 DEF Exec
  <2> HIDE DEF f
  <2>2. x.got = <<>> /\ x.reply = cn.reply
    BY <2>1 DEF Start, CnOK, Fields
  <2> HIDE DEF x
  <2>3. CleanCn(x)
    BY <2>2, CleanEmpty DEF CleanCn
  <2> QED
    BY <2>3 DEF x
<1> QED
  BY <1>1, <1>2, <1>3 DEF CnOK

LEMMA CleanDispatch ==
    ASSUME NEW cn, CnOK(cn), CleanCn(cn), NEW f
    PROVE  CleanCn(Dispatch(cn, f))
<1> DEFINE Same(y) == DOMAIN y = Fields /\ Clean(y.got)
           q == [cn EXCEPT !.queue = Append(@, f)]
           m == BeginMulti(cn)
           d == [cn EXCEPT !.multi = FALSE, !.queue = <<>>]
<1>1. Same(cn)
  BY DEF CnOK, CleanCn
<1>2. Same(q) /\ Same(m) /\ Same(d)
  <2>1. DOMAIN q = Fields /\ q.got = cn.got /\ DOMAIN m = Fields /\ m.got = cn.got
    BY DEF CnOK, Fields, BeginMulti
  <2>2. DOMAIN d = Fields /\ d.got = cn.got
    BY DEF CnOK, Fields
  <2> QED
    BY <2>1, <2>2 DEF CleanCn
<1>3. \A y, r : Same(y) /\ r # Oom => CleanCn(Answered(y, r))
  BY CleanAnswered
<1>4. CleanCn(Exec(cn)) /\ CleanCn(Start(cn, f))
  BY CleanExec, CleanStart
<1>5. Simple("QUEUED") # Oom /\ Simple("OK") # Oom /\ Error("nested") # Oom /\ Error("DISCARD without MULTI") # Oom
  BY NotOom
<1>6. CleanCn(Discard(cn))
  <2>1. Discard(cn) = Answered(d, Simple("OK")) \/ Discard(cn) = Answered(cn, Error("DISCARD without MULTI"))
    BY DEF Discard
  <2> HIDE DEF d, Same
  <2> QED
    BY <1>1, <1>2, <1>3, <1>5, <2>1
<1>7. \/ Dispatch(cn, f) = Answered(q, Simple("QUEUED"))
      \/ Dispatch(cn, f) = Answered(cn, Error("nested"))
      \/ Dispatch(cn, f) = Answered(m, Simple("OK"))
      \/ Dispatch(cn, f) = Discard(cn) \/ Dispatch(cn, f) = Exec(cn) \/ Dispatch(cn, f) = Start(cn, f)
  BY DEF Dispatch, NestedMulti
<1> HIDE DEF q, m, d, Same
<1> QED
  BY <1>1, <1>2, <1>3, <1>4, <1>5, <1>6, <1>7

LEMMA FineConcat ==
    ASSUME NEW s, Fine(s), NEW t, Fine(t)
    PROVE  Fine(s \o t)
<1> PICK S, T : s \in Seq(S) /\ t \in Seq(T)
  BY DEF Fine, IsSeq
<1> DEFINE U == S \union T
<1>1. s \in Seq(U) /\ t \in Seq(U)
  OBVIOUS
<1> HIDE DEF U
<1>2. s \o t \in Seq(U)
  BY <1>1
<1>3. \A i \in DOMAIN (s \o t) : \/ i \in DOMAIN s /\ (s \o t)[i] = s[i]
                                 \/ i - Len(s) \in DOMAIN t /\ (s \o t)[i] = t[i - Len(s)]
  BY <1>1
<1> QED
  BY <1>2, <1>3 DEF Fine, IsSeq

LEMMA FineReply ==
    ASSUME NEW cn, NEW f, NEW r, r # Oom
    PROVE  Fine(<<Reply(cn, f, r)>>)
<1> DEFINE e == Reply(cn, f, r)
           s == <<e>>
<1>1. e.r = r
  BY DEF Reply
<1> HIDE DEF e
<1>2. s \in Seq({e}) /\ DOMAIN s = {1} /\ s[1] = e
  OBVIOUS
<1> HIDE DEF s
<1>3. Fine(s)
  BY <1>1, <1>2 DEF Fine, IsSeq
<1> QED
  BY <1>3 DEF s, e

LEMMA FineWrite ==
    ASSUME ConnInv, MemInv, NEW c \in Conns, NEW o, Fine(o), Write(c, o)
    PROVE  \A e \in Conns : Fine(out'[e]) /\ Fine(sent'[e])
<1>1. DOMAIN out = Conns /\ DOMAIN sent = Conns /\ \A e \in Conns : Fine(out[e]) /\ Fine(sent[e])
  BY DEF ConnInv, MemInv
<1>2. Fine(out[c] \o o) /\ Fine(sent[c] \o out[c] \o o) /\ Fine(<<>>)
  <2>1. Fine(out[c] \o o)
    BY <1>1, FineConcat
  <2>2. Fine(sent[c] \o out[c])
    BY <1>1, FineConcat
  <2>3. Fine((sent[c] \o out[c]) \o o)
    BY <2>2, FineConcat
  <2>4. <<>> \in Seq({}) /\ DOMAIN <<>> = {}
    OBVIOUS
  <2>5. Fine(<<>>)
    BY <2>4 DEF Fine, IsSeq
  <2> QED
    BY <2>1, <2>3, <2>5
<1>3. \/ out' = [out EXCEPT ![c] = <<>>] /\ sent' = [sent EXCEPT ![c] = sent[c] \o out[c] \o o]
      \/ out' = [out EXCEPT ![c] = out[c] \o o] /\ sent' = sent
  BY DEF Write
<1> DEFINE a == out[c] \o o
           b == sent[c] \o out[c] \o o
<1>4. Fine(a) /\ Fine(b)
  BY <1>2
<1>5. \/ out' = [out EXCEPT ![c] = <<>>] /\ sent' = [sent EXCEPT ![c] = b]
      \/ out' = [out EXCEPT ![c] = a] /\ sent' = sent
  BY <1>3
<1> HIDE DEF a, b
<1> QED
  BY <1>1, <1>2, <1>4, <1>5


LEMMA MemStep ==
    ASSUME ConnInv, MemInv, NEW c \in Conns, NEW x, CleanCn(x), conn' = [conn EXCEPT ![c] = x],
           \A e \in Conns : Fine(out'[e]) /\ Fine(sent'[e])
    PROVE  MemInv'
<1>1. conn'[c] = x /\ \A e \in Conns \ {c} : conn'[e] = conn[e]
  BY DEF ConnInv
<1> QED
  BY <1>1 DEF MemInv

\* A work item with result r.
LEMMA MemItem ==
    ASSUME ConnInv, MemInv, NEW c \in Conns, NEW y, CnOK(y), CleanCn(y), NEW r, r # Oom, NEW rest,
           conn' = [conn EXCEPT ![c] = Proceed(y, r, rest)], UNCHANGED <<out, sent>>
    PROVE  MemInv'
<1> DEFINE x == Proceed(y, r, rest)
<1>1. CleanCn(x)
  BY CleanProceed
<1>2. \A e \in Conns : Fine(out'[e]) /\ Fine(sent'[e])
  BY DEF MemInv
<1>3. conn' = [conn EXCEPT ![c] = x]
  OBVIOUS
<1> HIDE DEF x
<1> QED
  BY <1>1, <1>2, <1>3, MemStep

LEMMA MemTake ==
    ASSUME ServerInv, MemInv, NEW c \in Conns, Take(c)
    PROVE  MemInv'
<1> DEFINE f == Head(buf[c])
           cn == [conn[c] EXCEPT !.n = @ + 1]
<1>1. conn[c].at = "read" /\ buf[c] # <<>> /\ ConnInv
  BY DEF Take, ServerInv
<1>2. CnOK(cn)
  BY <1>1, TakesFrame
<1>3. CleanCn(cn)
  <2>1. CleanCn(conn[c]) /\ CnOK(conn[c])
    BY <1>1 DEF MemInv, ConnInv
  <2>2. cn.got = conn[c].got /\ cn.reply = conn[c].reply
    BY <2>1 DEF CnOK, Fields
  <2> HIDE DEF cn
  <2> QED
    BY <2>1, <2>2 DEF CleanCn
<1>4. \/ /\ conn' = [conn EXCEPT ![c] = Closed(cn, "error")]
         /\ UNCHANGED <<out, sent>>
      \/ /\ conn' = [conn EXCEPT ![c] = cn]
         /\ Write(c, <<Reply(cn, f, Error("unknown command"))>>)
      \/ /\ conn' = [conn EXCEPT ![c] = Answered(cn, Array(<<Integer(1)>>))]
         /\ UNCHANGED <<out, sent>>
      \/ /\ conn' = [conn EXCEPT ![c] =
                IF Sends(f) = <<>> THEN Answered(cn, Integer(0))
                ELSE [Start(cn, f) EXCEPT !.work = Sends(f)]]
         /\ UNCHANGED <<out, sent>>
      \/ /\ conn' = [conn EXCEPT ![c] = Dispatch(cn, f)]
         /\ UNCHANGED <<out, sent>>
  BY DEF Take
<1> HIDE DEF cn, f
<1>5. DOMAIN cn = Fields /\ Clean(cn.got) /\ cn.reply # Oom
  BY <1>2, <1>3 DEF CnOK, CleanCn
<1>6. ASSUME NEW x, CleanCn(x), conn' = [conn EXCEPT ![c] = x], UNCHANGED <<out, sent>> PROVE MemInv'
  <2>1. \A e \in Conns : Fine(out'[e]) /\ Fine(sent'[e])
    BY <1>6 DEF MemInv
  <2> QED
    BY <1>1, <1>6, <2>1, MemStep
<1>7. CASE conn' = [conn EXCEPT ![c] = Closed(cn, "error")] /\ UNCHANGED <<out, sent>>
  <2> DEFINE x == Closed(cn, "error")
  <2>1. x.got = cn.got /\ x.reply = cn.reply
    BY <1>5 DEF Closed, Fields
  <2>2. conn' = [conn EXCEPT ![c] = x]
    BY <1>7
  <2> HIDE DEF x
  <2>3. CleanCn(x)
    BY <1>5, <2>1 DEF CleanCn
  <2> QED
    BY <1>6, <1>7, <2>2, <2>3
<1>8. CASE conn' = [conn EXCEPT ![c] = cn] /\ Write(c, <<Reply(cn, f, Error("unknown command"))>>)
  <2> DEFINE o == <<Reply(cn, f, Error("unknown command"))>>
  <2>1. Fine(o)
    BY FineReply, NotOom
  <2>2. Write(c, o)
    BY <1>8
  <2> HIDE DEF o
  <2>3. \A e \in Conns : Fine(out'[e]) /\ Fine(sent'[e])
    BY <1>1, <2>1, <2>2, FineWrite
  <2> QED
    BY <1>1, <1>3, <1>8, <2>3, MemStep
<1>9. CASE conn' = [conn EXCEPT ![c] = Answered(cn, Array(<<Integer(1)>>))] /\ UNCHANGED <<out, sent>>
  <2> DEFINE r == Array(<<Integer(1)>>)
             x == Answered(cn, r)
  <2>1. r # Oom
    BY NotOom
  <2>2. conn' = [conn EXCEPT ![c] = x]
    BY <1>9
  <2> HIDE DEF r
  <2>3. CleanCn(x)
    BY <1>5, <2>1, CleanAnswered
  <2> HIDE DEF x
  <2> QED
    BY <1>6, <1>9, <2>2, <2>3
<1>10. CASE /\ conn' = [conn EXCEPT ![c] =
                  IF Sends(f) = <<>> THEN Answered(cn, Integer(0))
                  ELSE [Start(cn, f) EXCEPT !.work = Sends(f)]]
            /\ UNCHANGED <<out, sent>>
  <2> DEFINE y == [Start(cn, f) EXCEPT !.work = Sends(f)]
             x == IF Sends(f) = <<>> THEN Answered(cn, Integer(0)) ELSE y
  <2>1. CleanCn(Answered(cn, Integer(0)))
    BY <1>5, CleanAnswered, NotOom
  <2>2. y.got = <<>> /\ y.reply = cn.reply
    BY <1>5 DEF Start, Fields
  <2>3. conn' = [conn EXCEPT ![c] = x]
    BY <1>10
  <2> HIDE DEF y
  <2>4. CleanCn(y)
    BY <1>5, <2>2, CleanEmpty DEF CleanCn
  <2>5. CleanCn(x)
    BY <2>1, <2>4
  <2> HIDE DEF x
  <2> QED
    BY <1>6, <1>10, <2>3, <2>5
<1>11. CASE conn' = [conn EXCEPT ![c] = Dispatch(cn, f)] /\ UNCHANGED <<out, sent>>
  <2> DEFINE x == Dispatch(cn, f)
  <2>1. CleanCn(x)
    BY <1>2, <1>3, CleanDispatch
  <2>2. conn' = [conn EXCEPT ![c] = x]
    BY <1>11
  <2> HIDE DEF x
  <2> QED
    BY <1>6, <1>11, <2>1, <2>2
<1> QED
  BY <1>4, <1>7, <1>8, <1>9, <1>10, <1>11

LEMMA MemRespond ==
    ASSUME ServerInv, MemInv, NEW c \in Conns, Respond(c)
    PROVE  MemInv'
<1> DEFINE cn == conn[c]
           a == <<Reply(cn, Head(buf[c]), cn.reply)>>
           o == a \o inq[c]
           x == IF Head(buf[c])[1] = "QUIT" THEN Closed(cn, "quit") ELSE [cn EXCEPT !.at = "read"]
<1>1. ConnInv /\ Write(c, o) /\ conn' = [conn EXCEPT ![c] = x]
  BY DEF Respond, ServerInv
<1>2. CleanCn(cn) /\ CnOK(cn) /\ inq[c] \in Seq([by : Conns, n : Nat])
  BY DEF ServerInv, ConnInv, MemInv, QueueInv
<1>3. CleanCn(x)
  <2>1. x.got = cn.got /\ x.reply = cn.reply
    BY <1>2 DEF CnOK, Fields, Closed
  <2> HIDE DEF x
  <2> QED
    BY <1>2, <2>1 DEF CleanCn
<1>4. Fine(a)
  BY <1>2, FineReply DEF CleanCn
<1>5. Fine(inq[c])
  <2>1. \A e \in [by : Conns, n : Nat] : IsMessage(e)
    BY DEF IsMessage
  <2> DEFINE X == [by : Conns, n : Nat]
  <2>2. inq[c] \in Seq(X)
    BY <1>2
  <2> HIDE DEF X
  <2>3. \A i \in DOMAIN inq[c] : inq[c][i] \in X
    BY <2>2
  <2>4. \A i \in DOMAIN inq[c] : IsMessage(inq[c][i])
    BY <2>1, <2>3 DEF X
  <2> QED
    BY <2>2, <2>4 DEF Fine, IsSeq
<1> HIDE DEF x, a
<1>6. Fine(o)
  BY <1>4, <1>5, FineConcat
<1> HIDE DEF o
<1>7. \A e \in Conns : Fine(out'[e]) /\ Fine(sent'[e])
  BY <1>1, <1>6, FineWrite
<1> QED
  BY <1>1, <1>3, <1>7, MemStep


\* maybe_reset leaves a small script enough, if a fresh runtime is below the threshold.
LEMMA Fits ==
    ASSUME NEW s \in Scripts, SmallScripts, MemBase * 100 <= MemTotal * Percent,
           NEW u \in MemBase..MemTotal
    PROVE  MaybeReset(u) + Body[s].cost <= MemTotal
<1> DEFINE used == MaybeReset(u)
           cost == Body[s].cost
           room == MemTotal * Percent
<1>1. MemBase \in Nat /\ MemTotal \in Nat /\ cost \in Nat /\ Percent \in Nat
  BY ServerAssumption DEF Percent
<1>2. used \in Nat /\ used * 100 <= room
  BY <1>1 DEF MaybeReset
<1>3. cost * 100 <= MemTotal * (100 - Percent)
  BY DEF SmallScripts
<1>4. MemTotal * (100 - Percent) = MemTotal * 100 - room /\ room \in Int
  BY <1>1
<1> HIDE DEF used, cost, room
<1>5. used + cost <= MemTotal
  BY <1>1, <1>2, <1>3, <1>4
<1> QED
  BY <1>5 DEF used, cost

LEMMA MemEnter ==
    ASSUME SmallScripts, MemBase * 100 <= MemTotal * Percent,
           ServerInv, MemInv, NEW c \in Conns, EnterScript(c)
    PROVE  MemInv'
<1> DEFINE s    == Arg(c, 2)
           u    == IF mem[c] = Absent THEN MemBase ELSE mem[c]
           y    == [conn[c] EXCEPT !.held = conn[c].db]
<1>1. ConnInv /\ Doing(c, "enter") /\ UNCHANGED <<out, sent>>
  BY DEF EnterScript, ServerInv
<1>2. /\ conn[c].at = "run" /\ CnOK(conn[c])
      /\ DoOK(Head(conn[c].work).do) /\ Head(conn[c].work).do[1] = "enter"
  BY <1>1, AtWork
<1>3. s \in Scripts
  BY <1>2 DEF DoOK, Arg
<1>4. u \in MemBase..MemTotal
  BY ServerAssumption DEF ServerInv, StoreInv
<1>5. MaybeReset(u) + Body[s].cost <= MemTotal
  BY <1>3, <1>4, Fits
<1>6. conn' = [conn EXCEPT ![c] = Proceed(y, Blob(Absent), ScriptItems(s))]
  BY <1>5 DEF EnterScript
<1>7. CnOK(y) /\ CleanCn(y)
  <2>1. conn[c].db \in Dbs /\ CleanCn(conn[c])
    BY <1>2 DEF CnOK, MemInv
  <2>2. CnOK(y)
    BY <1>2, <2>1, SameWork
  <2>3. y.got = conn[c].got /\ y.reply = conn[c].reply
    BY <1>2 DEF CnOK, Fields
  <2> HIDE DEF y
  <2> QED
    BY <2>1, <2>2, <2>3 DEF CleanCn
<1>8. Blob(Absent) # Oom
  BY NotOom
<1> HIDE DEF y, s
<1> QED
  BY <1>1, <1>6, <1>7, <1>8, MemItem

LEMMA MemKept ==
    ASSUME SmallScripts, MemBase * 100 <= MemTotal * Percent,
           ServerInv, MemInv, NEW c \in Conns, Serve(c) \/ Client(c)
    PROVE  MemInv'
<1>1. ConnInv /\ CnOK(conn[c]) /\ CleanCn(conn[c]) /\ DOMAIN conn = Conns
  BY DEF ServerInv, ConnInv, MemInv
<1>2. ASSUME NEW r, r # Oom, NEW rest, conn' = [conn EXCEPT ![c] = Proceed(conn[c], r, rest)],
             UNCHANGED <<out, sent>>
      PROVE  MemInv'
  BY <1>1, <1>2, MemItem
<1>3. CASE Take(c)
  BY <1>3, MemTake
<1>4. CASE Respond(c)
  BY <1>4, MemRespond
<1>5. CASE EnterScript(c)
  BY <1>5, MemEnter
<1>6. CASE DbCall(c)
  <2>1. PICK what, old :
          conn' = [conn EXCEPT ![c] = Proceed(conn[c], DbResult(old, what), Rest(c, DbResult(old, what)))]
    BY <1>6 DEF DbCall
  <2>2. DbResult(old, what) # Oom
    <3>1. DbResult(old, what) \in {Blob(old), Simple("OK"), Error("not an integer")}
          \/ \E n : DbResult(old, what) = Integer(n)
      BY DEF DbResult
    <3> QED
      BY <3>1, NotOom
  <2> QED
    BY <1>2, <1>6, <2>1, <2>2 DEF DbCall
<1>7. CASE FlushDb(c)
  <2>1. /\ conn' = [conn EXCEPT ![c] = Proceed(conn[c], Simple("OK"), Tail(conn[c].work))]
        /\ Simple("OK") # Oom /\ UNCHANGED <<out, sent>>
    BY <1>7, NotOom DEF FlushDb
  <2> QED
    BY <1>2, <2>1
<1>8. CASE LogCommand(c)
  <2>1. /\ conn' = [conn EXCEPT ![c] = Proceed(conn[c], Simple("OK"), Tail(conn[c].work))]
        /\ Simple("OK") # Oom /\ UNCHANGED <<out, sent>>
    BY <1>8, NotOom DEF LogCommand
  <2> QED
    BY <1>2, <2>1
<1>9. CASE NoDb(c)
  <2>1. UNCHANGED <<out, sent>>
    BY <1>9 DEF NoDb
  <2>2. CASE conn' = [conn EXCEPT ![c] = Proceed(@, Simple("PONG"), Tail(@.work))]
    <3>1. /\ conn' = [conn EXCEPT ![c] = Proceed(conn[c], Simple("PONG"), Tail(conn[c].work))]
          /\ Simple("PONG") # Oom
      BY <2>2, NotOom
    <3> QED
      BY <1>2, <2>1, <3>1
  <2>3. CASE /\ Doing(c, "select")
             /\ LET ok == Arg(c, 2) \in Dbs
                    r  == IF ok THEN Simple("OK") ELSE Error("invalid DB index") IN
                conn' = [conn EXCEPT ![c] =
                          Proceed(IF ok THEN [@ EXCEPT !.db = Arg(c, 2)] ELSE @, r, Rest(c, r))]
    <3> DEFINE d  == Arg(c, 2)
               ok == d \in Dbs
               r  == IF ok THEN Simple("OK") ELSE Error("invalid DB index")
               z  == [conn[c] EXCEPT !.db = d]
               y  == IF ok THEN z ELSE conn[c]
    <3>1. conn' = [conn EXCEPT ![c] = Proceed(y, r, Rest(c, r))]
      BY <2>3
    <3>2. r # Oom
      BY NotOom
    <3>3. conn[c].at = "run"
      BY <2>3 DEF Doing
    <3>4. ok => CnOK(z) /\ CleanCn(z)
      <4> SUFFICES ASSUME ok PROVE CnOK(z) /\ CleanCn(z)
        OBVIOUS
      <4>1. CnOK(z)
        BY <1>1, <3>3, SameWork
      <4>2. z.got = conn[c].got /\ z.reply = conn[c].reply
        BY <1>1 DEF CnOK, Fields
      <4> HIDE DEF z
      <4> QED
        BY <1>1, <4>1, <4>2 DEF CleanCn
    <3>5. CnOK(y) /\ CleanCn(y)
      BY <1>1, <3>4
    <3> HIDE DEF y, r
    <3> QED
      BY <1>1, <2>1, <3>1, <3>2, <3>5, MemItem
  <2> QED
    BY <1>9, <2>2, <2>3 DEF NoDb
<1>10. CASE ScriptCache(c)
  <2>1. UNCHANGED <<out, sent>>
    BY <1>10 DEF ScriptCache
  <2>2. PICK r, rest : /\ conn' = [conn EXCEPT ![c] = Proceed(conn[c], r, rest)]
                       /\ \/ r = [sha |-> Arg(c, 2)] \/ r = Simple("OK") \/ r = Error("NOSCRIPT")
    BY <1>10 DEF ScriptCache
  <2>3. r # Oom
    BY <2>2, NotOom
  <2> QED
    BY <1>2, <2>1, <2>2, <2>3
<1>11. CASE Send(c)
  <2>1. PICK n : conn' = [conn EXCEPT ![c] = Proceed(conn[c], Integer(n), Tail(conn[c].work))]
    BY <1>11 DEF Send, Counted
  <2>2. Integer(n) # Oom /\ UNCHANGED <<out, sent>>
    BY <1>11, NotOom DEF Send
  <2> QED
    BY <1>2, <2>1, <2>2
<1>12. CASE Fill(c)
  BY <1>12 DEF Fill, MemInv
<1>13. CASE Hangup(c)
  <2> DEFINE x == Closed(conn[c], IF half[c] THEN "error" ELSE "eof")
  <2>1. conn' = [conn EXCEPT ![c] = x] /\ UNCHANGED <<out, sent>>
    BY <1>13 DEF Hangup
  <2>2. x.got = conn[c].got /\ x.reply = conn[c].reply
    BY <1>1 DEF CnOK, Fields, Closed
  <2> HIDE DEF x
  <2>3. CleanCn(x)
    BY <1>1, <2>2 DEF CleanCn
  <2>4. \A e \in Conns : Fine(out'[e]) /\ Fine(sent'[e])
    BY <2>1 DEF MemInv
  <2> QED
    BY <1>1, <2>1, <2>3, <2>4, MemStep
<1> QED
  BY <1>3, <1>4, <1>5, <1>6, <1>7, <1>8, <1>9, <1>10, <1>11, <1>12, <1>13 DEF Serve, Client

\* Provided a runtime that has run nothing is below the reset threshold, a script
\* that needs no more than what the threshold leaves free never runs out of
\* memory, whatever ran before it on the connection.
THEOREM ScriptsFit ==
    ASSUME MemBase * 100 <= MemTotal * Percent
    PROVE  Spec => []SmallScriptsFit
<1>1. CASE SmallScripts
  <2>1. Init => MemInv
    <3> SUFFICES ASSUME Init PROVE MemInv
      OBVIOUS
    <3>1. Idle.got = <<>> /\ Idle.reply = Simple("OK")
      BY DEF Idle
    <3> HIDE DEF Idle
    <3>2. CleanCn(Idle)
      BY <3>1, CleanEmpty, NotOom DEF CleanCn
    <3>3. <<>> \in Seq({}) /\ DOMAIN <<>> = {}
      OBVIOUS
    <3>4. Fine(<<>>)
      BY <3>3 DEF Fine, IsSeq
    <3> QED
      BY <3>2, <3>4 DEF Init, MemInv
  <2>2. ServerInv /\ MemInv /\ [Next]_vars => MemInv'
    <3> SUFFICES ASSUME ServerInv, MemInv, [Next]_vars PROVE MemInv'
      OBVIOUS
    <3>1. CASE Next
      BY <1>1, <3>1, MemKept DEF Next
    <3>2. CASE UNCHANGED vars
      BY <3>2 DEF vars, MemInv
    <3> QED
      BY <3>1, <3>2
  <2>3. MemInv => SmallScriptsFit
    <3> SUFFICES ASSUME MemInv, NEW c \in Conns, NEW i \in DOMAIN History(c)
                 PROVE  IsMessage(History(c)[i]) \/ History(c)[i].r # Oom
      BY DEF SmallScriptsFit, Oom
    <3>1. Fine(sent[c] \o out[c])
      BY FineConcat DEF MemInv
    <3> QED
      BY <3>1 DEF Fine, History
  <2> QED
    BY <2>1, <2>2, <2>3, ServerInvariant, PTL DEF Spec
<1>2. CASE ~SmallScripts
  <2>1. PICK s \in Scripts : ~(Body[s].cost * 100 <= MemTotal * (100 - Percent))
    BY <1>2 DEF SmallScripts
  <2>2. Body[s].cost \in Nat /\ MemTotal \in Nat /\ Percent \in Nat
    BY ServerAssumption DEF Percent
  <2>3. MemTotal * (100 - Percent) \in Int
    BY <2>2
  <2>4. Body[s].cost * 100 > MemTotal * (100 - Percent)
    BY <2>1, <2>2, <2>3
  <2>5. SmallScriptsFit
    BY <2>4 DEF SmallScriptsFit
  <2> QED
    BY <2>5, PTL
<1> QED
  BY <1>1, <1>2


----------------------------------------------------------------------------
(* Replies, one for each command.  TalkInv says of a connection at work    *)
(* how much of its transaction the replies before already show.            *)

AnswersIn(h) == {i \in DOMAIN h : ~IsMessage(h[i])}
RepliesIn(h) == {h[i] : i \in AnswersIn(h)}
QueuedIn(h, n) == Cardinality(QueuedBefore(RepliesIn(h), n))

\* What OneReplyEach says of a connection with history h.
Numbered(h, n, at) ==
    /\ \A i, j \in AnswersIn(h) : i < j => h[i].n < h[j].n
    /\ \E m \in {n - 1, n} :
          /\ {e.n : e \in RepliesIn(h)} = 1..m
          /\ at = "read" => m = n
          /\ at \in {"run", "reply"} => m = n - 1
ExecsFull(h) == \A e \in RepliesIn(h) : e.exec => Len(e.r.array) = QueuedIn(h, e.n)
QueueFull(h, cn) == cn.multi /\ cn.at = "read" => Len(cn.queue) = QueuedIn(h, cn.n + 1)

\* A connection that has begun command f, with q commands queued before it.
Running(cn, f, q) ==
    cn.at = "run" =>
      /\ f[1] # "MULTI"
      /\ cn.exec => f[1] = "EXEC" /\ IsSeq(cn.results) /\ Len(cn.results) + 1 + Len(cn.batch) = q
      /\ ~cn.exec => cn.cur = f /\ f[1] # "EXEC"
      /\ cn.multi => f[1] = "PUBLISH" /\ Len(cn.queue) = q
Replying(cn, f, q) ==
    cn.at = "reply" =>
      /\ f[1] = "EXEC" /\ ~IsError(cn.reply) => Len(cn.reply.array) = q
      /\ cn.multi => IF f[1] = "MULTI" /\ cn.reply = Simple("OK") THEN cn.queue = <<>>
                     ELSE Len(cn.queue) = IF cn.reply = Simple("QUEUED") THEN q + 1 ELSE q

TalkOK(h, cn, f) ==
    /\ cn.at \in {"run", "reply"} => cn.n # 0
    /\ Numbered(h, cn.n, cn.at) /\ ExecsFull(h) /\ QueueFull(h, cn)
    /\ Running(cn, f, QueuedIn(h, cn.n)) /\ Replying(cn, f, QueuedIn(h, cn.n))

TalkInv ==
    \A c \in Conns : IsSeq(out[c]) /\ IsSeq(sent[c]) /\ TalkOK(History(c), conn[c], Head(buf[c]))

\* Pub/sub messages only.
Messages(t) == IsSeq(t) /\ \A i \in DOMAIN t : IsMessage(t[i])

\* Reply e, then messages t, written after history h.
Written(g, h, e, t) == g = h \o (<<e>> \o t)

LEMMA SeqConcat ==
    ASSUME NEW s, IsSeq(s), NEW t, IsSeq(t)
    PROVE  /\ IsSeq(s \o t) /\ Len(s) \in Nat /\ Len(t) \in Nat /\ DOMAIN s = 1..Len(s) /\ DOMAIN t = 1..Len(t)
           /\ Len(s \o t) = Len(s) + Len(t) /\ DOMAIN (s \o t) = 1..(Len(s) + Len(t))
           /\ \A i \in 1..Len(s) : (s \o t)[i] = s[i]
           /\ \A i \in (Len(s) + 1)..(Len(s) + Len(t)) : (s \o t)[i] = t[i - Len(s)]
<1> PICK S, T : s \in Seq(S) /\ t \in Seq(T)
  BY DEF IsSeq
<1> DEFINE U == S \union T
<1>1. s \in Seq(U) /\ t \in Seq(U)
  OBVIOUS
<1> HIDE DEF U
<1>2. s \o t \in Seq(U)
  BY <1>1
<1> QED
  BY <1>1, <1>2 DEF IsSeq

LEMMA SeqAssoc ==
    ASSUME NEW s, IsSeq(s), NEW t, IsSeq(t), NEW u, IsSeq(u)
    PROVE  (s \o t) \o u = s \o (t \o u)
<1> PICK S, T, V : s \in Seq(S) /\ t \in Seq(T) /\ u \in Seq(V)
  BY DEF IsSeq
<1> DEFINE U == S \union T \union V
<1>1. s \in Seq(U) /\ t \in Seq(U) /\ u \in Seq(U)
  OBVIOUS
<1> HIDE DEF U
<1> QED
  BY <1>1, ConcatAssociative

LEMMA SeqUnit ==
    ASSUME NEW s, IsSeq(s)
    PROVE  s \o <<>> = s
  BY ConcatEmptySeq DEF IsSeq

LEMMA SeqEmpty == IsSeq(<<>>)
<1>1. <<>> \in Seq({})
  OBVIOUS
<1> QED
  BY <1>1 DEF IsSeq

LEMMA SeqOne ==
    ASSUME NEW e
    PROVE  IsSeq(<<e>>) /\ Len(<<e>>) = 1 /\ <<e>>[1] = e
<1>1. <<e>> \in Seq({e})
  OBVIOUS
<1> QED
  BY <1>1 DEF IsSeq

LEMMA SeqAppend ==
    ASSUME NEW s, IsSeq(s), NEW e
    PROVE  /\ IsSeq(Append(s, e)) /\ Len(Append(s, e)) = Len(s) + 1 /\ DOMAIN s = 1..Len(s) /\ Len(s) \in Nat
           /\ DOMAIN Append(s, e) = 1..(Len(s) + 1)
           /\ \A i \in 1..Len(s) : Append(s, e)[i] = s[i]
           /\ Append(s, e)[Len(s) + 1] = e
<1> PICK S : s \in Seq(S)
  BY DEF IsSeq
<1> DEFINE U == S \union {e}
<1>1. s \in Seq(U) /\ e \in U
  OBVIOUS
<1> HIDE DEF U
<1>2. Append(s, e) \in Seq(U)
  BY <1>1
<1> QED
  BY <1>1, <1>2 DEF IsSeq

LEMMA SeqSnoc ==
    ASSUME NEW s, IsSeq(s), NEW e
    PROVE  Append(s, e) = s \o <<e>>
<1> PICK S : s \in Seq(S)
  BY DEF IsSeq
<1> DEFINE U == S \union {e}
<1>1. s \in Seq(U) /\ e \in U
  OBVIOUS
<1> HIDE DEF U
<1> QED
  BY <1>1, AppendIsConcat

LEMMA ReplyWritten ==
    ASSUME NEW h, IsSeq(h), NEW e, ~IsMessage(e), NEW t, Messages(t),
           NEW g, Written(g, h, e, t)
    PROVE  /\ IsSeq(g) /\ AnswersIn(g) = AnswersIn(h) \union {Len(h) + 1}
           /\ AnswersIn(h) \subseteq 1..Len(h) /\ Len(h) \in Nat
           /\ \A i \in AnswersIn(h) : g[i] = h[i]
           /\ g[Len(h) + 1] = e
           /\ RepliesIn(g) = RepliesIn(h) \union {e}
<1> DEFINE o == <<e>> \o t
           n == Len(h)
<1>0. IsSeq(t) /\ \A i \in DOMAIN t : IsMessage(t[i])
  BY DEF Messages
<1>1. IsSeq(<<e>>) /\ Len(<<e>>) = 1 /\ <<e>>[1] = e
  BY SeqOne
<1>2. /\ IsSeq(o) /\ Len(t) \in Nat /\ DOMAIN t = 1..Len(t) /\ Len(o) = 1 + Len(t) /\ o[1] = e
      /\ \A i \in 2..(1 + Len(t)) : o[i] = t[i - 1]
  <2> HIDE DEF o
  <2>1. /\ IsSeq(o) /\ Len(t) \in Nat /\ DOMAIN t = 1..Len(t) /\ Len(o) = Len(<<e>>) + Len(t)
        /\ \A i \in 1..Len(<<e>>) : o[i] = <<e>>[i]
        /\ \A i \in (Len(<<e>>) + 1)..(Len(<<e>>) + Len(t)) : o[i] = t[i - Len(<<e>>)]
    BY <1>0, <1>1, SeqConcat DEF o
  <2> DEFINE k == Len(<<e>>)
             z == <<e>>[1]
  <2>2. k = 1 /\ 1 \in 1..1 /\ z = e
    BY <1>1
  <2>3. o[1] = z
    BY <2>1, <2>2
  <2>4. \A i \in 2..(1 + Len(t)) : o[i] = t[i - 1]
    BY <2>1, <2>2
  <2> QED
    BY <2>1, <2>2, <2>3, <2>4
<1> HIDE DEF o
<1>3. /\ IsSeq(g) /\ n \in Nat /\ DOMAIN h = 1..n /\ DOMAIN g = 1..(n + Len(o))
      /\ \A i \in 1..n : g[i] = h[i]
      /\ \A i \in (n + 1)..(n + Len(o)) : g[i] = o[i - n]
  <2>1. IsSeq(o)
    BY <1>2
  <2>2. /\ IsSeq(h \o o) /\ Len(h) \in Nat /\ DOMAIN h = 1..Len(h)
        /\ DOMAIN (h \o o) = 1..(Len(h) + Len(o))
        /\ \A i \in 1..Len(h) : (h \o o)[i] = h[i]
        /\ \A i \in (Len(h) + 1)..(Len(h) + Len(o)) : (h \o o)[i] = o[i - Len(h)]
    BY <2>1, SeqConcat
  <2> QED
    BY <2>2 DEF o, Written
<1> HIDE DEF n
<1>4. g[n + 1] = e /\ n + 1 \in DOMAIN g
  <2>1. n + 1 \in (n + 1)..(n + Len(o)) /\ (n + 1) - n = 1
    BY <1>2, <1>3
  <2> QED
    BY <1>2, <1>3, <2>1
<1>5. \A i \in DOMAIN g : i > n + 1 => IsMessage(g[i])
  <2> SUFFICES ASSUME NEW i \in DOMAIN g, i > n + 1 PROVE IsMessage(g[i])
    OBVIOUS
  <2>1. i - n \in 2..(1 + Len(t)) /\ i \in (n + 1)..(n + Len(o)) /\ (i - n) - 1 \in DOMAIN t
    BY <1>2, <1>3
  <2>2. g[i] = t[(i - n) - 1]
    BY <1>2, <1>3, <2>1
  <2> QED
    BY <1>0, <2>1, <2>2
<1>6. AnswersIn(g) = AnswersIn(h) \union {n + 1}
  <2>1. ASSUME NEW i \in AnswersIn(g) PROVE i \in AnswersIn(h) \union {n + 1}
    <3>1. i \in DOMAIN g /\ ~IsMessage(g[i])
      BY <2>1 DEF AnswersIn
    <3>2. i \in 1..n \/ i = n + 1
      BY <1>2, <1>3, <1>5, <3>1
    <3> QED
      BY <1>3, <3>1, <3>2 DEF AnswersIn
  <2>2. ASSUME NEW i \in AnswersIn(h) PROVE i \in AnswersIn(g)
    BY <1>2, <1>3 DEF AnswersIn
  <2>3. n + 1 \in AnswersIn(g)
    BY <1>4 DEF AnswersIn
  <2> QED
    BY <2>1, <2>2, <2>3
<1>7. AnswersIn(h) \subseteq 1..n /\ \A i \in AnswersIn(h) : g[i] = h[i]
  BY <1>3 DEF AnswersIn
<1>8. RepliesIn(g) = RepliesIn(h) \union {e}
  BY <1>4, <1>6, <1>7 DEF RepliesIn
<1> QED
  BY <1>3, <1>4, <1>6, <1>7, <1>8 DEF n

LEMMA QueuedFinite ==
    ASSUME NEW R, NEW n \in Nat
    PROVE  IsFiniteSet(QueuedBefore(R, n)) /\ Cardinality(QueuedBefore(R, n)) \in Nat
<1>1. IsFiniteSet(1..(n - 1))
  BY FS_Interval
<1>2. QueuedBefore(R, n) \in SUBSET (1..(n - 1))
  BY DEF QueuedBefore
<1> QED
  BY <1>1, <1>2, FS_Subset, FS_CardinalityType

\* What reply e to the n-th command changes about the commands that are queued.
LEMMA QueuedStep ==
    ASSUME NEW n \in Nat \ {0}, NEW R, \A d \in R : d.n \in 1..(n - 1), NEW e, e.n = n
    PROVE  LET S == R \union {e}
               q == Cardinality(QueuedBefore(R, n))
           IN  /\ \A k \in 1..n : QueuedBefore(S, k) = QueuedBefore(R, k)
               /\ Cardinality(QueuedBefore(S, n + 1)) =
                     IF Begins(e) THEN 0 ELSE IF e.r = Simple("QUEUED") THEN q + 1 ELSE q
<1> DEFINE S == R \union {e}
           A == QueuedBefore(R, n)
           B == QueuedBefore(S, n + 1)
<1>1. \A k \in 1..n : QueuedBefore(S, k) = QueuedBefore(R, k)
  <2> SUFFICES ASSUME NEW k \in 1..n, NEW m \in 1..(k - 1)
               PROVE  /\ (\E d \in S : d.n = m /\ d.r = Simple("QUEUED"))
                           <=> \E d \in R : d.n = m /\ d.r = Simple("QUEUED")
                      /\ (\A d \in S : Begins(d) /\ d.n < k => d.n < m)
                           <=> \A d \in R : Begins(d) /\ d.n < k => d.n < m
    BY DEF QueuedBefore
  <2>1. m # n /\ ~(e.n < k)
    OBVIOUS
  <2> QED
    BY <2>1
<1>2. IsFiniteSet(A) /\ Cardinality(A) \in Nat
  BY QueuedFinite
<1>3. CASE Begins(e)
  <2>1. \A m \in 1..n : ~(e.n < m)
    OBVIOUS
  <2>2. e.n < n + 1 /\ (n + 1) - 1 = n
    OBVIOUS
  <2>3. B = {}
    BY <1>3, <2>1, <2>2 DEF QueuedBefore
  <2> QED
    BY <1>1, <1>3, <2>3, FS_EmptySet
<1>4. CASE ~Begins(e)
  <2>1. \A m \in 1..(n - 1) : m \in A <=> m \in B
    <3> SUFFICES ASSUME NEW m \in 1..(n - 1)
                 PROVE  /\ (\E d \in S : d.n = m /\ d.r = Simple("QUEUED"))
                             <=> \E d \in R : d.n = m /\ d.r = Simple("QUEUED")
                        /\ (\A d \in S : Begins(d) /\ d.n < n + 1 => d.n < m)
                             <=> \A d \in R : Begins(d) /\ d.n < n => d.n < m
      BY DEF QueuedBefore
    <3>1. m # n /\ \A d \in R : d.n < n /\ d.n < n + 1
      OBVIOUS
    <3> QED
      BY <1>4, <3>1
  <2>2. A \subseteq 1..(n - 1) /\ B \subseteq 1..n
    BY DEF QueuedBefore
  <2>3. n \in B <=> e.r = Simple("QUEUED")
    <3>1. \A d \in R : d.n # n /\ d.n < n
      OBVIOUS
    <3>2. (\E d \in S : d.n = n /\ d.r = Simple("QUEUED")) <=> e.r = Simple("QUEUED")
      BY <3>1
    <3>3. \A d \in S : Begins(d) /\ d.n < n + 1 => d.n < n
      BY <1>4, <3>1
    <3>4. n \in 1..((n + 1) - 1)
      OBVIOUS
    <3> QED
      BY <3>2, <3>3, <3>4 DEF QueuedBefore
  <2>4. n \notin A
    BY <2>2
  <2> HIDE DEF A, B
  <2>7. \A m : (m \in B <=> m \in A) \/ m = n
    <3>1. \A m : m \in 1..n => m \in 1..(n - 1) \/ m = n
      OBVIOUS
    <3>2. \A m : m \in 1..(n - 1) \/ m = n \/ (m \notin A /\ m \notin B)
      BY <2>2, <3>1
    <3> QED
      BY <2>1, <3>2
  <2>5. CASE e.r = Simple("QUEUED")
    <3>1. B = A \union {n}
      <4>1. \A m : m \in B <=> m \in A \union {n}
        BY <2>3, <2>5, <2>7
      <4> QED
        BY <4>1
    <3>2. Cardinality(B) = Cardinality(A) + 1
      BY <1>2, <2>4, <3>1, FS_AddElement
    <3> QED
      BY <1>1, <1>4, <2>5, <3>2 DEF A, B
  <2>6. CASE e.r # Simple("QUEUED")
    <3>1. \A m : m \in B <=> m \in A
      BY <2>3, <2>4, <2>6, <2>7
    <3>2. B = A
      BY <3>1
    <3> QED
      BY <1>1, <1>4, <2>6, <3>2 DEF A, B
  <2> QED
    BY <2>5, <2>6
<1> QED
  BY <1>3, <1>4

\* The reply to the n-th command is written: the connection is ready or closed.
LEMMA TalkWritten ==
    ASSUME NEW h, IsSeq(h), NEW e, ~IsMessage(e), NEW t, Messages(t),
           NEW n \in Nat \ {0}, e.n = n,
           \A i, j \in AnswersIn(h) : i < j => h[i].n < h[j].n,
           {d.n : d \in RepliesIn(h)} = 1..(n - 1), ExecsFull(h),
           e.exec => Len(e.r.array) = QueuedIn(h, n),
           NEW x, x.n = n, x.at \in {"read", "closed"},
           x.multi /\ x.at = "read" =>
              Len(x.queue) = IF Begins(e) THEN 0
                             ELSE IF e.r = Simple("QUEUED") THEN QueuedIn(h, n) + 1 ELSE QueuedIn(h, n),
           NEW f
    PROVE  TalkOK(h \o (<<e>> \o t), x, f)
<1> DEFINE g == h \o (<<e>> \o t)
           l == Len(h)
           R == RepliesIn(h)
<1>1. /\ IsSeq(g) /\ AnswersIn(g) = AnswersIn(h) \union {l + 1}
      /\ AnswersIn(h) \subseteq 1..l /\ l \in Nat
      /\ \A i \in AnswersIn(h) : g[i] = h[i]
      /\ g[l + 1] = e
      /\ RepliesIn(g) = R \union {e}
  <2>1. Written(g, h, e, t)
    BY DEF Written
  <2> HIDE DEF g
  <2>2. /\ IsSeq(g) /\ AnswersIn(g) = AnswersIn(h) \union {Len(h) + 1}
        /\ AnswersIn(h) \subseteq 1..Len(h) /\ Len(h) \in Nat
        /\ \A i \in AnswersIn(h) : g[i] = h[i]
        /\ g[Len(h) + 1] = e
        /\ RepliesIn(g) = RepliesIn(h) \union {e}
    BY <2>1, ReplyWritten
  <2> QED
    BY <2>2
<1> HIDE DEF g, l
<1>2. \A d \in R : d.n \in 1..(n - 1)
  OBVIOUS
<1>3. \A i \in AnswersIn(h) : h[i] \in R
  BY DEF RepliesIn
<1>4. \A i, j \in AnswersIn(g) : i < j => g[i].n < g[j].n
  <2> SUFFICES ASSUME NEW i \in AnswersIn(g), NEW j \in AnswersIn(g), i < j PROVE g[i].n < g[j].n
    OBVIOUS
  <2>1. i \in AnswersIn(h)
    BY <1>1
  <2>2. CASE j = l + 1
    <3>1. g[i].n \in 1..(n - 1) /\ g[j].n = n
      BY <1>1, <1>2, <1>3, <2>1, <2>2
    <3> QED
      BY <3>1
  <2>3. CASE j \in AnswersIn(h)
    BY <1>1, <2>1, <2>3
  <2> QED
    BY <1>1, <2>2, <2>3
<1>5. {d.n : d \in RepliesIn(g)} = 1..n
  <2>1. {d.n : d \in RepliesIn(g)} = {d.n : d \in R} \union {n}
    BY <1>1
  <2>2. 1..n = 1..(n - 1) \union {n}
    OBVIOUS
  <2> QED
    BY <2>1, <2>2
<1>6. Numbered(g, x.n, x.at)
  BY <1>4, <1>5 DEF Numbered
<1>7. /\ \A k \in 1..n : QueuedBefore(R \union {e}, k) = QueuedBefore(R, k)
      /\ Cardinality(QueuedBefore(R \union {e}, n + 1)) =
            IF Begins(e) THEN 0 ELSE IF e.r = Simple("QUEUED") THEN QueuedIn(h, n) + 1 ELSE QueuedIn(h, n)
  <2> HIDE DEF R
  <2> QED
    BY <1>2, QueuedStep DEF QueuedIn, R
<1>8. \A k \in 1..n : QueuedIn(g, k) = QueuedIn(h, k)
  BY <1>1, <1>7 DEF QueuedIn
<1>9. ExecsFull(g)
  <2> SUFFICES ASSUME NEW d \in RepliesIn(g), d.exec PROVE Len(d.r.array) = QueuedIn(g, d.n)
    BY DEF ExecsFull
  <2>1. CASE d \in R
    <3>1. d.n \in 1..n
      BY <1>2, <2>1
    <3> QED
      BY <1>8, <2>1, <3>1 DEF ExecsFull
  <2>2. CASE d = e
    <3>1. n \in 1..n
      OBVIOUS
    <3> QED
      BY <1>8, <2>2, <3>1
  <2> QED
    BY <1>1, <2>1, <2>2
<1>10. QueueFull(g, x)
  BY <1>1, <1>7 DEF QueueFull, QueuedIn
<1>11. Running(x, f, QueuedIn(g, x.n)) /\ Replying(x, f, QueuedIn(g, x.n))
  BY DEF Running, Replying
<1> QED
  BY <1>6, <1>9, <1>10, <1>11 DEF TalkOK, g

LEMMA ReplyKinds ==
    /\ \A n, t : Integer(n) # Simple(t)
    /\ \A a, t : Array(a) # Simple(t) /\ Array(a).array = a /\ ~IsError(Array(a))
    /\ \A s, t : Error(s) # Simple(t) /\ IsError(Error(s))
    /\ Simple("QUEUED") # Simple("OK")
<1>1. ASSUME NEW n, NEW t PROVE Integer(n) # Simple(t)
  <2>1. DOMAIN Integer(n) = {"int"} /\ DOMAIN Simple(t) = {"simple"}
    BY DEF Integer, Simple
  <2> QED
    BY <2>1
<1>2. ASSUME NEW a, NEW t PROVE Array(a) # Simple(t) /\ Array(a).array = a /\ ~IsError(Array(a))
  <2>1. DOMAIN Array(a) = {"array"} /\ DOMAIN Simple(t) = {"simple"} /\ Array(a).array = a
    BY DEF Array, Simple
  <2> QED
    BY <2>1 DEF IsError
<1>3. ASSUME NEW s, NEW t PROVE Error(s) # Simple(t) /\ IsError(Error(s))
  <2>1. DOMAIN Error(s) = {"error"} /\ DOMAIN Simple(t) = {"simple"}
    BY DEF Error, Simple
  <2> QED
    BY <2>1 DEF IsError
<1>4. Simple("QUEUED") # Simple("OK")
  <2>1. Simple("QUEUED").simple = "QUEUED" /\ Simple("OK").simple = "OK"
    BY DEF Simple
  <2> QED
    BY <2>1
<1> QED
  BY <1>1, <1>2, <1>3, <1>4

\* A work item is done: the command goes on, or the next one of the EXEC, or its reply is there.
LEMMA TalkProceed ==
    ASSUME NEW cn, CnOK(cn), cn.at = "run", NEW h, NEW f, TalkOK(h, cn, f), NEW r, NEW rest
    PROVE  TalkOK(h, Proceed(cn, r, rest), f)
<1> DEFINE x == Proceed(cn, r, rest)
           q == QueuedIn(h, cn.n)
           got == Append(cn.got, r)
           a == Answer(cn.cur, got)
           res == Append(cn.results, a)
<1>1. /\ Running(cn, f, q) /\ Numbered(h, cn.n, cn.at) /\ ExecsFull(h) /\ DOMAIN cn = Fields
      /\ cn.exec \in BOOLEAN /\ cn.multi \in BOOLEAN /\ cn.batch \in Seq(Frames) /\ (cn.exec => ~cn.multi)
      /\ cn.n # 0
  BY DEF TalkOK, CnOK
<1>2. /\ f[1] # "MULTI"
      /\ cn.exec => f[1] = "EXEC" /\ IsSeq(cn.results) /\ Len(cn.results) + 1 + Len(cn.batch) = q
      /\ ~cn.exec => cn.cur = f /\ f[1] # "EXEC"
      /\ cn.multi => f[1] = "PUBLISH" /\ Len(cn.queue) = q
  BY <1>1 DEF Running
<1> HIDE DEF q
<1>3. ASSUME NEW y, y.n = cn.n, y.at \in {"run", "reply"}, Running(y, f, q), Replying(y, f, q)
      PROVE  TalkOK(h, y, f)
  <2>1. Numbered(h, y.n, y.at)
    BY <1>1, <1>3 DEF Numbered
  <2>2. QueueFull(h, y)
    BY <1>3 DEF QueueFull
  <2> QED
    BY <1>1, <1>3, <2>1, <2>2 DEF TalkOK, q
<1>4. CASE rest # <<>>
  <2>1. x = [cn EXCEPT !.work = rest, !.got = got]
    BY <1>4 DEF Proceed
  <2>2. /\ x.at = cn.at /\ x.n = cn.n /\ x.multi = cn.multi /\ x.exec = cn.exec /\ x.queue = cn.queue
        /\ x.batch = cn.batch /\ x.results = cn.results /\ x.cur = cn.cur
    BY <1>1, <2>1 DEF Fields
  <2> HIDE DEF x
  <2>3. Running(x, f, q) /\ Replying(x, f, q)
    BY <1>2, <2>2 DEF Running, Replying
  <2>4. TalkOK(h, x, f)
    BY <1>3, <2>2, <2>3
  <2> QED
    BY <2>4 DEF x
<1>5. CASE rest = <<>> /\ ~cn.exec
  <2>1. x = [cn EXCEPT !.at = "reply", !.work = <<>>, !.reply = a]
    BY <1>5 DEF Proceed, Done
  <2>2. cn.multi => a # Simple("QUEUED")
    <3>1. cn.multi => a = Integer(Cardinality({i \in DOMAIN got : got[i] = Integer(1)}))
      BY <1>2, <1>5 DEF Answer
    <3> QED
      BY <3>1, ReplyKinds
  <2> HIDE DEF a
  <2>3. x.at = "reply" /\ x.n = cn.n /\ x.multi = cn.multi /\ x.queue = cn.queue /\ x.reply = a
    BY <1>1, <2>1 DEF Fields
  <2> HIDE DEF x
  <2>4. Running(x, f, q) /\ Replying(x, f, q)
    BY <1>2, <1>5, <2>2, <2>3 DEF Running, Replying
  <2>5. TalkOK(h, x, f)
    BY <1>3, <2>3, <2>4
  <2> QED
    BY <2>5 DEF x
<1>6. CASE rest = <<>> /\ cn.exec
  <2>1. /\ f[1] = "EXEC" /\ IsSeq(res) /\ Len(res) = Len(cn.results) + 1 /\ Len(cn.results) \in Nat
        /\ Len(res) + Len(cn.batch) = q /\ ~cn.multi
    <3>1. /\ f[1] = "EXEC" /\ IsSeq(cn.results) /\ Len(cn.results) + 1 + Len(cn.batch) = q /\ ~cn.multi
      BY <1>1, <1>2, <1>6
    <3>2. IsSeq(res) /\ Len(res) = Len(cn.results) + 1 /\ Len(cn.results) \in Nat
      BY <3>1, SeqAppend
    <3> QED
      BY <3>1, <3>2
  <2> HIDE DEF res, a
  <2>2. CASE cn.batch = <<>>
    <3>1. x = [cn EXCEPT !.at = "reply", !.work = <<>>, !.exec = FALSE, !.results = <<>>, !.reply = Array(res)]
      BY <1>6, <2>2 DEF Proceed, Done, res, a
    <3>2. x.at = "reply" /\ x.n = cn.n /\ x.multi = cn.multi /\ x.reply = Array(res)
      BY <1>1, <3>1 DEF Fields
    <3>3. Len(res) = q
      BY <2>1, <2>2
    <3> HIDE DEF x
    <3>4. x.reply.array = res
      BY <3>2, ReplyKinds
    <3>5. Running(x, f, q) /\ Replying(x, f, q)
      BY <2>1, <3>2, <3>3, <3>4 DEF Running, Replying
    <3>6. TalkOK(h, x, f)
      BY <1>3, <3>2, <3>5
    <3> QED
      BY <3>6 DEF x
  <2>3. CASE cn.batch # <<>>
    <3>1. x = [Start(cn, Head(cn.batch)) EXCEPT !.batch = Tail(@), !.results = res]
      BY <1>6, <2>3 DEF Proceed, Done, res, a
    <3>2. /\ x.at = "run" /\ x.n = cn.n /\ x.multi = cn.multi /\ x.exec = cn.exec
          /\ x.batch = Tail(cn.batch) /\ x.results = res
      BY <1>1, <3>1 DEF Fields, Start
    <3>3. Len(res) + 1 + Len(Tail(cn.batch)) = q
      <4>1. Len(cn.batch) \in Nat /\ Len(Tail(cn.batch)) = Len(cn.batch) - 1
        BY <1>1, <2>3
      <4>2. Len(res) \in Nat
        BY <2>1
      <4>3. \A i, j \in Nat : i + 1 + (j - 1) = i + j
        OBVIOUS
      <4>4. Len(res) + 1 + (Len(cn.batch) - 1) = Len(res) + Len(cn.batch)
        BY <4>1, <4>2, <4>3
      <4> QED
        BY <2>1, <4>1, <4>4
    <3> HIDE DEF x
    <3>4. Running(x, f, q) /\ Replying(x, f, q)
      BY <1>6, <2>1, <3>2, <3>3 DEF Running, Replying
    <3>5. TalkOK(h, x, f)
      BY <1>3, <3>2, <3>4
    <3> QED
      BY <3>5 DEF x
  <2> QED
    BY <2>2, <2>3
<1> QED
  BY <1>1, <1>4, <1>5, <1>6

\* A command answered at once.
LEMMA TalkAnswered ==
    ASSUME NEW y, DOMAIN y = Fields, NEW r, NEW f, NEW q,
           f[1] = "EXEC" /\ ~IsError(r) => Len(r.array) = q,
           y.multi => IF f[1] = "MULTI" /\ r = Simple("OK") THEN y.queue = <<>>
                      ELSE Len(y.queue) = IF r = Simple("QUEUED") THEN q + 1 ELSE q
    PROVE  Running(Answered(y, r), f, q) /\ Replying(Answered(y, r), f, q)
<1> DEFINE x == Answered(y, r)
<1>1. x.at = "reply" /\ x.multi = y.multi /\ x.queue = y.queue /\ x.reply = r
  BY DEF Answered, Fields
<1> HIDE DEF x
<1>2. Running(x, f, q) /\ Replying(x, f, q)
  BY <1>1 DEF Running, Replying
<1> QED
  BY <1>2 DEF x

LEMMA TalkExec ==
    ASSUME NEW cn, CnOK(cn), cn.at = "read", NEW f, f[1] = "EXEC", NEW q, cn.multi => Len(cn.queue) = q
    PROVE  Running(Exec(cn), f, q) /\ Replying(Exec(cn), f, q)
<1>0. DOMAIN cn = Fields /\ cn.queue \in Seq(Frames) /\ cn.multi \in BOOLEAN
  BY DEF CnOK
<1>1. CASE ~cn.multi
  <2>1. Exec(cn) = Answered(cn, Error("EXEC without MULTI")) /\ IsError(Error("EXEC without MULTI"))
    BY <1>1, ReplyKinds DEF Exec
  <2> QED
    BY <1>0, <1>1, <2>1, TalkAnswered
<1>2. CASE cn.multi /\ cn.queue = <<>>
  <2> DEFINE y == [cn EXCEPT !.multi = FALSE]
             r == Array(<<>>)
  <2>1. DOMAIN y = Fields /\ y.multi = FALSE
    BY <1>0 DEF Fields
  <2>2. Exec(cn) = Answered(y, r)
    BY <1>2 DEF Exec
  <2>3. Len(r.array) = q
    <3>1. r.array = <<>>
      BY ReplyKinds
    <3> HIDE DEF r
    <3> QED
      BY <1>2, <3>1
  <2> HIDE DEF y, r
  <2> QED
    BY <2>1, <2>2, <2>3, TalkAnswered
<1>3. CASE cn.multi /\ cn.queue # <<>>
  <2> DEFINE x == Exec(cn)
  <2>1. x = [Start(cn, Head(cn.queue)) EXCEPT !.multi = FALSE, !.queue = <<>>, !.exec = TRUE,
                                 !.batch = Tail(cn.queue), !.results = <<>>]
    BY <1>3 DEF Exec
  <2>2. /\ x.at = "run" /\ x.multi = FALSE /\ x.exec = TRUE /\ x.batch = Tail(cn.queue) /\ x.results = <<>>
    BY <1>0, <2>1 DEF Start, Fields
  <2>3. Len(<<>>) + 1 + Len(Tail(cn.queue)) = q
    BY <1>0, <1>3
  <2> HIDE DEF x
  <2>4. Running(x, f, q) /\ Replying(x, f, q)
    BY <2>2, <2>3, SeqEmpty DEF Running, Replying
  <2> QED
    BY <2>4 DEF x
<1> QED
  BY <1>0, <1>1, <1>2, <1>3

LEMMA TalkDispatch ==
    ASSUME NEW cn, CnOK(cn), cn.at = "read", NEW f, f[1] # "PUBLISH", NEW q, cn.multi => Len(cn.queue) = q
    PROVE  Running(Dispatch(cn, f), f, q) /\ Replying(Dispatch(cn, f), f, q)
<1> DEFINE a == Append(cn.queue, f)
           z == [cn EXCEPT !.queue = a]
           m == BeginMulti(cn)
           d == [cn EXCEPT !.multi = FALSE, !.queue = <<>>]
<1>1. DOMAIN cn = Fields /\ cn.queue \in Seq(Frames) /\ cn.multi \in BOOLEAN /\ ~cn.exec
  BY DEF CnOK
<1>2. CASE Queues(cn, f)
  <2>1. Len(a) = q + 1
    <3>1. IsSeq(cn.queue)
      BY <1>1 DEF IsSeq
    <3> QED
      BY <1>2, <3>1, SeqAppend DEF Queues
  <2> HIDE DEF a
  <2>2. DOMAIN z = Fields /\ z.queue = a
    BY <1>1 DEF Fields
  <2>3. Dispatch(cn, f) = Answered(z, Simple("QUEUED"))
    BY <1>2 DEF Dispatch, a
  <2>4. f[1] # "EXEC" /\ f[1] # "MULTI"
    BY <1>2 DEF Queues
  <2> HIDE DEF z
  <2> QED
    BY <2>1, <2>2, <2>3, <2>4, TalkAnswered
<1>3. CASE ~Queues(cn, f) /\ f[1] = "MULTI" /\ cn.multi
  <2>1. Dispatch(cn, f) = Answered(cn, Error("nested"))
    BY <1>3 DEF Dispatch, NestedMulti
  <2>2. Error("nested") # Simple("OK") /\ Error("nested") # Simple("QUEUED")
    BY ReplyKinds
  <2> QED
    BY <1>1, <1>3, <2>1, <2>2, TalkAnswered
<1>4. CASE ~Queues(cn, f) /\ f[1] = "MULTI" /\ ~cn.multi
  <2>1. Dispatch(cn, f) = Answered(m, Simple("OK"))
    BY <1>4 DEF Dispatch
  <2>2. DOMAIN m = Fields /\ m.queue = <<>>
    BY <1>1 DEF Fields, BeginMulti
  <2> HIDE DEF m
  <2> QED
    BY <1>4, <2>1, <2>2, TalkAnswered
<1>5. CASE ~Queues(cn, f) /\ f[1] = "DISCARD"
  <2>1. Dispatch(cn, f) = Discard(cn)
    BY <1>5 DEF Dispatch
  <2>2. DOMAIN d = Fields /\ d.multi = FALSE
    BY <1>1 DEF Fields
  <2>3. \/ Discard(cn) = Answered(d, Simple("OK"))
        \/ Discard(cn) = Answered(cn, Error("DISCARD without MULTI")) /\ ~cn.multi
    BY DEF Discard
  <2> HIDE DEF d
  <2> QED
    BY <1>1, <1>5, <2>1, <2>2, <2>3, TalkAnswered
<1>6. CASE ~Queues(cn, f) /\ f[1] = "EXEC"
  <2>1. Dispatch(cn, f) = Exec(cn)
    BY <1>6 DEF Dispatch
  <2> QED
    BY <1>6, <2>1, TalkExec
<1>7. CASE ~Queues(cn, f) /\ f[1] \notin {"MULTI", "DISCARD", "EXEC"}
  <2> DEFINE x == Start(cn, f)
  <2>1. Dispatch(cn, f) = x
    BY <1>7 DEF Dispatch
  <2>2. ~cn.multi
    BY <1>7 DEF Queues
  <2>3. x.at = "run" /\ x.multi = cn.multi /\ x.exec = cn.exec /\ x.cur = f
    BY <1>1 DEF Start, Fields
  <2> HIDE DEF x
  <2>4. Running(x, f, q) /\ Replying(x, f, q)
    BY <1>1, <1>7, <2>2, <2>3 DEF Running, Replying
  <2> QED
    BY <2>1, <2>4
<1> QED
  BY <1>1, <1>2, <1>3, <1>4, <1>5, <1>6, <1>7

\* A command is taken up and not answered in writing yet.
LEMMA TalkTaken ==
    ASSUME NEW cn, cn.at = "read", cn.n \in Nat, NEW h, NEW e, TalkOK(h, cn, e),
           NEW x, x.n = cn.n + 1, x.at \in {"run", "reply", "closed"}, NEW f,
           Running(x, f, QueuedIn(h, x.n)), Replying(x, f, QueuedIn(h, x.n))
    PROVE  TalkOK(h, x, f)
<1>1. Numbered(h, cn.n, cn.at) /\ ExecsFull(h)
  BY DEF TalkOK
<1>2. {d.n : d \in RepliesIn(h)} = 1..(x.n - 1) /\ \A i, j \in AnswersIn(h) : i < j => h[i].n < h[j].n
  <2>1. x.n - 1 = cn.n
    OBVIOUS
  <2> QED
    BY <1>1, <2>1 DEF Numbered
<1>3. Numbered(h, x.n, x.at)
  BY <1>2 DEF Numbered
<1>4. QueueFull(h, x)
  BY DEF QueueFull
<1> QED
  BY <1>1, <1>3, <1>4 DEF TalkOK

\* A step of connection c that writes nothing.
LEMMA TalkMove ==
    ASSUME ConnInv, TalkInv, NEW c \in Conns, NEW x, conn' = [conn EXCEPT ![c] = x], UNCHANGED <<out, sent>>,
           \A e \in Conns \ {c} : buf'[e] = buf[e], TalkOK(History(c), x, Head(buf'[c]))
    PROVE  TalkInv'
<1>1. conn'[c] = x /\ \A e \in Conns \ {c} : conn'[e] = conn[e]
  BY DEF ConnInv
<1>2. \A e \in Conns : History(e)' = History(e)
  BY DEF History
<1> SUFFICES ASSUME NEW e \in Conns
             PROVE  IsSeq(out'[e]) /\ IsSeq(sent'[e]) /\ TalkOK(History(e)', conn'[e], Head(buf'[e]))
  BY DEF TalkInv
<1>3. IsSeq(out'[e]) /\ IsSeq(sent'[e])
  BY DEF TalkInv
<1>4. CASE e = c
  BY <1>1, <1>2, <1>3, <1>4
<1>5. CASE e # c
  <2>1. TalkOK(History(e), conn[e], Head(buf[e]))
    BY DEF TalkInv
  <2>2. conn'[e] = conn[e] /\ buf'[e] = buf[e] /\ History(e)' = History(e)
    BY <1>1, <1>2, <1>5
  <2> QED
    BY <1>3, <2>1, <2>2
<1> QED
  BY <1>4, <1>5

LEMMA HistoryWritten ==
    ASSUME ConnInv, NEW c \in Conns, IsSeq(out[c]), IsSeq(sent[c]), NEW o, IsSeq(o), Write(c, o)
    PROVE  /\ IsSeq(out'[c]) /\ IsSeq(sent'[c]) /\ History(c)' = History(c) \o o
           /\ \A e \in Conns \ {c} : out'[e] = out[e] /\ sent'[e] = sent[e]
<1> DEFINE a == out[c] \o o
           b == (sent[c] \o out[c]) \o o
<1>1. IsSeq(sent[c] \o out[c]) /\ IsSeq(a)
  BY SeqConcat
<1>2. IsSeq(b)
  BY <1>1, SeqConcat
<1>3. b \o <<>> = b /\ b = sent[c] \o a
  <2>1. b = sent[c] \o a
    <3> DEFINE s == sent[c]
               t == out[c]
    <3>1. IsSeq(s) /\ IsSeq(t)
      OBVIOUS
    <3> HIDE DEF s, t
    <3>2. (s \o t) \o o = s \o (t \o o)
      BY <3>1, SeqAssoc
    <3> QED
      BY <3>2 DEF s, t
  <2> HIDE DEF b
  <2> QED
    BY <1>2, <2>1, SeqUnit
<1>4. \/ out' = [out EXCEPT ![c] = <<>>] /\ sent' = [sent EXCEPT ![c] = b]
      \/ out' = [out EXCEPT ![c] = a] /\ sent' = sent
  BY DEF Write
<1> HIDE DEF a, b
<1>5. DOMAIN out = Conns /\ DOMAIN sent = Conns
  BY DEF ConnInv
<1>6. \/ out'[c] = <<>> /\ sent'[c] = b
      \/ out'[c] = a /\ sent'[c] = sent[c]
  BY <1>4, <1>5
<1>7. \A e \in Conns \ {c} : out'[e] = out[e] /\ sent'[e] = sent[e]
  BY <1>4, <1>5
<1>8. sent'[c] \o out'[c] = b
  BY <1>3, <1>6
<1>9. History(c)' = History(c) \o o
  BY <1>8 DEF History, b
<1> QED
  BY <1>1, <1>2, <1>6, <1>7, <1>9, SeqEmpty

\* A step of connection c that writes o.
LEMMA TalkWrote ==
    ASSUME ConnInv, TalkInv, NEW c \in Conns, NEW o, IsSeq(o), Write(c, o),
           NEW x, conn' = [conn EXCEPT ![c] = x], \A e \in Conns \ {c} : buf'[e] = buf[e],
           TalkOK(History(c) \o o, x, Head(buf'[c]))
    PROVE  TalkInv'
<1>1. conn'[c] = x /\ \A e \in Conns \ {c} : conn'[e] = conn[e]
  BY DEF ConnInv
<1>2. /\ IsSeq(out'[c]) /\ IsSeq(sent'[c]) /\ History(c)' = History(c) \o o
      /\ \A e \in Conns \ {c} : out'[e] = out[e] /\ sent'[e] = sent[e]
  BY HistoryWritten DEF TalkInv
<1> SUFFICES ASSUME NEW e \in Conns
             PROVE  IsSeq(out'[e]) /\ IsSeq(sent'[e]) /\ TalkOK(History(e)', conn'[e], Head(buf'[e]))
  BY DEF TalkInv
<1>3. CASE e = c
  BY <1>1, <1>2, <1>3
<1>4. CASE e # c
  <2>1. IsSeq(out[e]) /\ IsSeq(sent[e]) /\ TalkOK(History(e), conn[e], Head(buf[e]))
    BY DEF TalkInv
  <2>2. History(e)' = History(e)
    BY <1>2, <1>4 DEF History
  <2>3. conn'[e] = conn[e] /\ buf'[e] = buf[e] /\ out'[e] = out[e] /\ sent'[e] = sent[e]
    BY <1>1, <1>2, <1>4
  <2> QED
    BY <2>1, <2>2, <2>3
<1> QED
  BY <1>3, <1>4

LEMMA HistorySeq ==
    ASSUME TalkInv, NEW c \in Conns
    PROVE  IsSeq(History(c)) /\ TalkOK(History(c), conn[c], Head(buf[c]))
<1>1. IsSeq(out[c]) /\ IsSeq(sent[c]) /\ TalkOK(History(c), conn[c], Head(buf[c]))
  BY DEF TalkInv
<1> QED
  BY <1>1, SeqConcat DEF History

LEMMA ReplyParts ==
    ASSUME NEW cn, NEW f, NEW r
    PROVE  LET e == Reply(cn, f, r)
           IN  /\ ~IsMessage(e) /\ e.n = cn.n /\ e.r = r /\ e.multi = (f[1] = "MULTI")
               /\ e.exec = (f[1] = "EXEC" /\ ~IsError(r)) /\ e.pub = (f[1] = "PUBLISH")
               /\ Begins(e) <=> f[1] = "MULTI" /\ r = Simple("OK")
  BY DEF Reply, IsMessage, Begins

LEMMA TalkRespond ==
    ASSUME ServerInv, TalkInv, NEW c \in Conns, Respond(c)
    PROVE  TalkInv'
<1> DEFINE cn == conn[c]
           f == Head(buf[c])
           e == Reply(cn, f, cn.reply)
           t == inq[c]
           o == <<e>> \o t
           h == History(c)
           n == cn.n
           x == IF f[1] = "QUIT" THEN Closed(cn, "quit") ELSE [cn EXCEPT !.at = "read"]
<1>1. /\ ConnInv /\ Write(c, o) /\ conn' = [conn EXCEPT ![c] = x] /\ cn.at = "reply" /\ CnOK(cn)
      /\ buf' = [buf EXCEPT ![c] = Tail(@)]
  BY DEF Respond, ServerInv, ConnInv
<1>2. Messages(t)
  <2>1. \A d \in [by : Conns, n : Nat] : IsMessage(d)
    BY DEF IsMessage
  <2> DEFINE X == [by : Conns, n : Nat]
  <2>2. t \in Seq(X)
    BY DEF ServerInv, QueueInv
  <2> HIDE DEF X, t
  <2>3. \A i \in DOMAIN t : t[i] \in X
    BY <2>2
  <2> QED
    BY <2>1, <2>2, <2>3 DEF Messages, IsSeq, X
<1>3. IsSeq(h) /\ TalkOK(h, cn, f)
  BY HistorySeq
<1>4. /\ x.n = n /\ x.at \in {"read", "closed"} /\ x.multi = cn.multi /\ x.queue = cn.queue
  BY <1>1 DEF CnOK, Fields, Closed
<1>5. /\ ~IsMessage(e) /\ e.n = n /\ e.r = cn.reply /\ e.exec = (f[1] = "EXEC" /\ ~IsError(cn.reply))
      /\ Begins(e) <=> f[1] = "MULTI" /\ cn.reply = Simple("OK")
  BY ReplyParts
<1>6. \A d \in Conns \ {c} : buf'[d] = buf[d]
  BY <1>1 DEF ConnInv
<1>7. IsSeq(o)
  BY <1>2, SeqOne, SeqConcat DEF Messages
<1> HIDE DEF x, e, t, h, f
<1>8. /\ {d.n : d \in RepliesIn(h)} = 1..(n - 1) /\ \A i, j \in AnswersIn(h) : i < j => h[i].n < h[j].n
      /\ ExecsFull(h) /\ Replying(cn, f, QueuedIn(h, n))
  BY <1>1, <1>3 DEF TalkOK, Numbered
<1>9. n \in Nat \ {0}
  <2>1. n \in Nat
    BY <1>1 DEF CnOK
  <2> QED
    BY <1>1, <1>3, <2>1 DEF TalkOK
<1>10. e.exec => Len(e.r.array) = QueuedIn(h, n)
  BY <1>1, <1>5, <1>8 DEF Replying
<1>11. x.multi /\ x.at = "read" =>
         Len(x.queue) = IF Begins(e) THEN 0
                        ELSE IF e.r = Simple("QUEUED") THEN QueuedIn(h, n) + 1 ELSE QueuedIn(h, n)
  BY <1>1, <1>4, <1>5, <1>8 DEF Replying
<1>12. TalkOK(h \o o, x, Head(buf'[c]))
  BY <1>2, <1>3, <1>4, <1>5, <1>8, <1>9, <1>10, <1>11, TalkWritten
<1> HIDE DEF o
<1> QED
  BY <1>1, <1>6, <1>7, <1>12, TalkWrote DEF h

\* A bad command is answered at once, in writing.
LEMMA TalkUnknown ==
    ASSUME NEW h, IsSeq(h), NEW old, CnOK(old), old.at = "read", NEW g, TalkOK(h, old, g),
           NEW cn, cn = [old EXCEPT !.n = @ + 1], NEW f, f[1] = "UNKNOWN", NEW k
    PROVE  TalkOK(h \o <<Reply(cn, f, Error("unknown command"))>>, cn, k)
<1> DEFINE r == Error("unknown command")
           e == Reply(cn, f, r)
           n == cn.n
           o == <<e>> \o <<>>
<1>1. n = old.n + 1 /\ cn.at = "read" /\ cn.multi = old.multi /\ cn.queue = old.queue /\ old.n \in Nat
  BY DEF CnOK, Fields
<1>2. r # Simple("OK") /\ r # Simple("QUEUED")
  BY ReplyKinds
<1>3. ~IsMessage(e) /\ e.n = n /\ e.r = r /\ ~e.exec /\ ~Begins(e)
  <2>1. /\ ~IsMessage(e) /\ e.n = n /\ e.r = r /\ e.exec = (f[1] = "EXEC" /\ ~IsError(r))
        /\ Begins(e) <=> f[1] = "MULTI" /\ r = Simple("OK")
    <3> HIDE DEF r
    <3> QED
      BY DEF Reply, IsMessage, Begins
  <2> HIDE DEF e
  <2> QED
    BY <2>1
<1>4. Messages(<<>>)
  BY SeqEmpty DEF Messages
<1>5. o = <<e>>
  <2> HIDE DEF e
  <2> QED
    BY SeqOne, SeqUnit
<1> HIDE DEF e, r, n
<1>6. /\ {d.n : d \in RepliesIn(h)} = 1..(n - 1) /\ \A i, j \in AnswersIn(h) : i < j => h[i].n < h[j].n
      /\ ExecsFull(h)
  <2>1. n - 1 = old.n
    BY <1>1
  <2> QED
    BY <2>1 DEF TalkOK, Numbered
<1>7. n \in Nat \ {0}
  BY <1>1
<1>8. cn.multi => Len(cn.queue) = QueuedIn(h, n)
  BY <1>1 DEF TalkOK, QueueFull
<1>9. TalkOK(h \o o, cn, k)
  BY <1>1, <1>2, <1>3, <1>4, <1>6, <1>7, <1>8, TalkWritten DEF n
<1> QED
  BY <1>5, <1>9 DEF e, r

LEMMA TalkTake ==
    ASSUME ServerInv, TalkInv, NEW c \in Conns, Take(c)
    PROVE  TalkInv'
<1> DEFINE f == Head(buf[c])
           old == conn[c]
           cn == [old EXCEPT !.n = @ + 1]
           h == History(c)
           q == QueuedIn(h, cn.n)
<1>1. old.at = "read" /\ buf[c] # <<>> /\ ConnInv /\ CnOK(old)
  BY DEF Take, ServerInv, ConnInv
<1>2. CnOK(cn) /\ cn.at = "read" /\ ~cn.exec
  BY <1>1, TakesFrame
<1>3. cn.n = old.n + 1 /\ old.n \in Nat /\ cn.multi = old.multi /\ cn.queue = old.queue
  BY <1>1 DEF CnOK, Fields
<1>4. IsSeq(h) /\ TalkOK(h, old, f)
  BY HistorySeq
<1>5. cn.multi => Len(cn.queue) = q
  BY <1>1, <1>3, <1>4 DEF TalkOK, QueueFull
<1>6. \/ /\ conn' = [conn EXCEPT ![c] = Closed(cn, "error")]
         /\ UNCHANGED <<out, sent, buf>>
      \/ /\ f[1] = "UNKNOWN" /\ conn' = [conn EXCEPT ![c] = cn]
         /\ Write(c, <<Reply(cn, f, Error("unknown command"))>>) /\ buf' = [buf EXCEPT ![c] = Tail(@)]
      \/ /\ f[1] = "SUBSCRIBE" /\ conn' = [conn EXCEPT ![c] = Answered(cn, Array(<<Integer(1)>>))]
         /\ UNCHANGED <<out, sent, buf>>
      \/ /\ f[1] = "PUBLISH"
         /\ \/ conn' = [conn EXCEPT ![c] = Answered(cn, Integer(0))]
            \/ conn' = [conn EXCEPT ![c] = [Start(cn, f) EXCEPT !.work = Sends(f)]]
         /\ UNCHANGED <<out, sent, buf>>
      \/ /\ f[1] # "PUBLISH" /\ conn' = [conn EXCEPT ![c] = Dispatch(cn, f)]
         /\ UNCHANGED <<out, sent, buf>>
  BY DEF Take
<1>7. ASSUME NEW x, conn' = [conn EXCEPT ![c] = x], UNCHANGED <<out, sent, buf>>,
             x.n = cn.n, x.at \in {"run", "reply", "closed"}, Running(x, f, q), Replying(x, f, q)
      PROVE  TalkInv'
  <2> HIDE DEF cn, h, f
  <2>1. TalkOK(h, x, f)
    BY <1>1, <1>3, <1>4, <1>7, TalkTaken
  <2>2. f = Head(buf'[c])
    BY <1>7 DEF f
  <2> QED
    BY <1>1, <1>7, <2>1, <2>2, TalkMove DEF h
<1> HIDE DEF f, cn, q
<1>8. DOMAIN cn = Fields
  BY <1>2 DEF CnOK
<1>9. CASE conn' = [conn EXCEPT ![c] = Closed(cn, "error")] /\ UNCHANGED <<out, sent, buf>>
  <2> DEFINE x == Closed(cn, "error")
  <2>1. x.at = "closed" /\ x.n = cn.n
    BY <1>8 DEF Closed, Fields
  <2>2. conn' = [conn EXCEPT ![c] = x]
    BY <1>9
  <2> HIDE DEF x
  <2>3. Running(x, f, q) /\ Replying(x, f, q)
    BY <2>1 DEF Running, Replying
  <2> QED
    BY <1>7, <1>9, <2>1, <2>2, <2>3
<1>10. CASE /\ f[1] = "UNKNOWN" /\ conn' = [conn EXCEPT ![c] = cn]
            /\ Write(c, <<Reply(cn, f, Error("unknown command"))>>) /\ buf' = [buf EXCEPT ![c] = Tail(@)]
  <2> DEFINE o == <<Reply(cn, f, Error("unknown command"))>>
  <2>1. IsSeq(o)
    BY SeqOne
  <2>2. TalkOK(h \o o, cn, Head(buf'[c]))
    <3>1. cn = [old EXCEPT !.n = @ + 1]
      BY DEF cn
    <3> HIDE DEF h, old
    <3> QED
      BY <1>1, <1>4, <1>10, <3>1, TalkUnknown
  <2>3. \A e \in Conns \ {c} : buf'[e] = buf[e]
    BY <1>1, <1>10 DEF ConnInv
  <2>4. Write(c, o)
    BY <1>10
  <2> HIDE DEF o
  <2> QED
    BY <1>1, <1>10, <2>1, <2>2, <2>3, <2>4, TalkWrote
<1>11. CASE /\ f[1] = "SUBSCRIBE" /\ conn' = [conn EXCEPT ![c] = Answered(cn, Array(<<Integer(1)>>))]
            /\ UNCHANGED <<out, sent, buf>>
  <2> DEFINE r == Array(<<Integer(1)>>)
             x == Answered(cn, r)
  <2>1. r # Simple("QUEUED")
    BY ReplyKinds
  <2>2. conn' = [conn EXCEPT ![c] = x]
    BY <1>11
  <2> HIDE DEF r
  <2>3. x.at = "reply" /\ x.n = cn.n
    BY <1>8 DEF Answered, Fields
  <2>4. Running(x, f, q) /\ Replying(x, f, q)
    BY <1>5, <1>8, <1>11, <2>1, TalkAnswered
  <2> HIDE DEF x
  <2> QED
    BY <1>7, <1>11, <2>2, <2>3, <2>4
<1>12. CASE /\ f[1] = "PUBLISH" /\ conn' = [conn EXCEPT ![c] = Answered(cn, Integer(0))]
            /\ UNCHANGED <<out, sent, buf>>
  <2> DEFINE r == Integer(0)
             x == Answered(cn, r)
  <2>1. r # Simple("QUEUED")
    BY ReplyKinds
  <2>2. conn' = [conn EXCEPT ![c] = x]
    BY <1>12
  <2> HIDE DEF r
  <2>3. x.at = "reply" /\ x.n = cn.n
    BY <1>8 DEF Answered, Fields
  <2>4. Running(x, f, q) /\ Replying(x, f, q)
    BY <1>5, <1>8, <1>12, <2>1, TalkAnswered
  <2> HIDE DEF x
  <2> QED
    BY <1>7, <1>12, <2>2, <2>3, <2>4
<1>13. CASE /\ f[1] = "PUBLISH" /\ conn' = [conn EXCEPT ![c] = [Start(cn, f) EXCEPT !.work = Sends(f)]]
            /\ UNCHANGED <<out, sent, buf>>
  <2> DEFINE x == [Start(cn, f) EXCEPT !.work = Sends(f)]
  <2>1. /\ x.at = "run" /\ x.n = cn.n /\ x.cur = f /\ x.multi = cn.multi /\ x.exec = cn.exec
        /\ x.queue = cn.queue
    BY <1>8 DEF Start, Fields
  <2>2. conn' = [conn EXCEPT ![c] = x]
    BY <1>13
  <2> HIDE DEF x
  <2>3. Running(x, f, q) /\ Replying(x, f, q)
    BY <1>2, <1>5, <1>13, <2>1 DEF Running, Replying
  <2> QED
    BY <1>7, <1>13, <2>1, <2>2, <2>3
<1>14. CASE /\ f[1] # "PUBLISH" /\ conn' = [conn EXCEPT ![c] = Dispatch(cn, f)]
            /\ UNCHANGED <<out, sent, buf>>
  <2> DEFINE x == Dispatch(cn, f)
  <2>1. Running(x, f, q) /\ Replying(x, f, q)
    BY <1>2, <1>5, <1>14, TalkDispatch
  <2>2. x.at \in {"run", "reply"} /\ x.n = cn.n
    <3>1. f \in Frames
      BY <1>1, TakesFrame DEF f
    <3> QED
      BY <1>2, <3>1, DispatchOK DEF Went
  <2>3. conn' = [conn EXCEPT ![c] = x]
    BY <1>14
  <2> HIDE DEF x
  <2> QED
    BY <1>7, <1>14, <2>1, <2>2, <2>3
<1> QED
  BY <1>6, <1>9, <1>10, <1>11, <1>12, <1>13, <1>14

\* A work item of connection c, whose record is y when its result r comes.
LEMMA TalkItem ==
    ASSUME ServerInv, TalkInv, NEW c \in Conns, conn[c].at = "run", NEW r, NEW rest,
           NEW y, CnOK(y), y = conn[c] \/ (\E d : y = [conn[c] EXCEPT !.db = d] \/ y = [conn[c] EXCEPT !.held = d]),
           conn' = [conn EXCEPT ![c] = Proceed(y, r, rest)], UNCHANGED <<buf, out, sent>>
    PROVE  TalkInv'
<1> DEFINE cn == conn[c]
           h == History(c)
           f == Head(buf[c])
           x == Proceed(y, r, rest)
<1>1. ConnInv /\ CnOK(cn)
  BY DEF ServerInv, ConnInv
<1>2. TalkOK(h, cn, f)
  BY HistorySeq
<1>3. /\ y.at = cn.at /\ y.n = cn.n /\ y.multi = cn.multi /\ y.exec = cn.exec /\ y.queue = cn.queue
      /\ y.batch = cn.batch /\ y.results = cn.results /\ y.cur = cn.cur
  BY <1>1 DEF CnOK, Fields
<1> HIDE DEF h, f
<1>4. TalkOK(h, y, f)
  BY <1>2, <1>3 DEF TalkOK, QueueFull, Running, Replying
<1>5. TalkOK(h, x, f)
  BY <1>3, <1>4, TalkProceed
<1>6. conn' = [conn EXCEPT ![c] = x] /\ f = Head(buf'[c])
  BY DEF f
<1> HIDE DEF x
<1> QED
  BY <1>1, <1>5, <1>6, TalkMove DEF h

LEMMA TalkKept ==
    ASSUME ServerInv, TalkInv, NEW c \in Conns, Serve(c) \/ Client(c)
    PROVE  TalkInv'
<1>1. ConnInv /\ CnOK(conn[c]) /\ DOMAIN conn = Conns
  BY DEF ServerInv, ConnInv
<1>2. ASSUME conn[c].at = "run", NEW r, NEW rest, conn' = [conn EXCEPT ![c] = Proceed(conn[c], r, rest)],
             UNCHANGED <<buf, out, sent>>
      PROVE  TalkInv'
  BY <1>1, <1>2, TalkItem
<1>3. CASE Take(c)
  BY <1>3, TalkTake
<1>4. CASE Respond(c)
  BY <1>4, TalkRespond
<1>5. CASE EnterScript(c)
  <2> DEFINE y == [conn[c] EXCEPT !.held = conn[c].db]
  <2>1. conn[c].at = "run" /\ UNCHANGED <<buf, out, sent>>
    BY <1>5 DEF EnterScript, Doing, input
  <2>2. CnOK(y)
    <3>1. conn[c].db \in Dbs
      BY <1>1 DEF CnOK
    <3> QED
      BY <1>1, <2>1, <3>1, SameWork
  <2>3. PICK r, rest : conn' = [conn EXCEPT ![c] = Proceed(y, r, rest)]
    BY <1>5 DEF EnterScript
  <2>4. \E d : y = [conn[c] EXCEPT !.held = d]
    OBVIOUS
  <2> HIDE DEF y
  <2> QED
    BY <2>1, <2>2, <2>3, <2>4, TalkItem
<1>6. CASE DbCall(c)
  <2>1. PICK r, rest : conn[c].at = "run" /\ conn' = [conn EXCEPT ![c] = Proceed(conn[c], r, rest)]
    BY <1>6 DEF DbCall, Doing
  <2> QED
    BY <1>2, <1>6, <2>1 DEF DbCall, input
<1>7. CASE FlushDb(c)
  BY <1>2, <1>7 DEF FlushDb, Doing, input
<1>8. CASE LogCommand(c)
  BY <1>2, <1>8 DEF LogCommand, Doing, input
<1>9. CASE NoDb(c)
  <2>1. UNCHANGED <<buf, out, sent>> /\ conn[c].at = "run"
    BY <1>9 DEF NoDb, input, Doing
  <2>2. PICK r, rest, d :
          \/ conn' = [conn EXCEPT ![c] = Proceed(conn[c], r, rest)]
          \/ d \in Dbs /\ conn' = [conn EXCEPT ![c] = Proceed([conn[c] EXCEPT !.db = d], r, rest)]
    <3>1. CASE conn' = [conn EXCEPT ![c] = Proceed(@, Simple("PONG"), Tail(@.work))]
      BY <3>1
    <3>2. CASE LET ok == Arg(c, 2) \in Dbs
                   r  == IF ok THEN Simple("OK") ELSE Error("invalid DB index") IN
               conn' = [conn EXCEPT ![c] =
                         Proceed(IF ok THEN [@ EXCEPT !.db = Arg(c, 2)] ELSE @, r, Rest(c, r))]
      <4> DEFINE d == Arg(c, 2)
                 ok == d \in Dbs
                 r == IF ok THEN Simple("OK") ELSE Error("invalid DB index")
                 y == IF ok THEN [conn[c] EXCEPT !.db = d] ELSE conn[c]
      <4>1. conn' = [conn EXCEPT ![c] = Proceed(y, r, Rest(c, r))]
        BY <3>2
      <4> HIDE DEF r, d
      <4> QED
        BY <4>1
    <3> QED
      BY <1>9, <3>1, <3>2 DEF NoDb
  <2>3. CASE conn' = [conn EXCEPT ![c] = Proceed(conn[c], r, rest)]
    BY <1>2, <2>1, <2>3
  <2>4. CASE d \in Dbs /\ conn' = [conn EXCEPT ![c] = Proceed([conn[c] EXCEPT !.db = d], r, rest)]
    <3> DEFINE y == [conn[c] EXCEPT !.db = d]
    <3>1. CnOK(y)
      BY <1>1, <2>1, <2>4, SameWork
    <3>2. conn' = [conn EXCEPT ![c] = Proceed(y, r, rest)] /\ \E a : y = [conn[c] EXCEPT !.db = a]
      BY <2>4
    <3> HIDE DEF y
    <3> QED
      BY <2>1, <3>1, <3>2, TalkItem
  <2> QED
    BY <2>2, <2>3, <2>4
<1>10. CASE ScriptCache(c)
  <2>1. PICK r, rest : conn[c].at = "run" /\ conn' = [conn EXCEPT ![c] = Proceed(conn[c], r, rest)]
    BY <1>10 DEF ScriptCache, Doing
  <2> QED
    BY <1>2, <1>10, <2>1 DEF ScriptCache, input
<1>11. CASE Send(c)
  BY <1>2, <1>11 DEF Send, Doing, input
<1>12. CASE Fill(c)
  <2>1. conn[c].at = "read" /\ UNCHANGED <<conn, out, sent>> /\ \E b : buf' = [buf EXCEPT ![c] = b]
    BY <1>12 DEF Fill
  <2>2. \A e \in Conns \ {c} : buf'[e] = buf[e]
    BY <1>1, <2>1 DEF ConnInv
  <2> SUFFICES ASSUME NEW e \in Conns
               PROVE  IsSeq(out'[e]) /\ IsSeq(sent'[e]) /\ TalkOK(History(e)', conn'[e], Head(buf'[e]))
    BY DEF TalkInv
  <2>3. /\ IsSeq(out'[e]) /\ IsSeq(sent'[e]) /\ History(e)' = History(e) /\ conn'[e] = conn[e]
        /\ TalkOK(History(e), conn[e], Head(buf[e]))
    BY <2>1 DEF TalkInv, History
  <2>4. TalkOK(History(e), conn[e], Head(buf'[e]))
    <3>1. conn[e].at = "read" \/ buf'[e] = buf[e]
      BY <2>1, <2>2
    <3> QED
      BY <2>3, <3>1 DEF TalkOK, Running, Replying
  <2> QED
    BY <2>3, <2>4
<1>13. CASE Hangup(c)
  <2> DEFINE x == Closed(conn[c], IF half[c] THEN "error" ELSE "eof")
             h == History(c)
  <2>1. conn' = [conn EXCEPT ![c] = x] /\ UNCHANGED <<buf, out, sent>>
    BY <1>13 DEF Hangup, input
  <2>2. x.at = "closed" /\ x.n = conn[c].n
    BY <1>1 DEF CnOK, Fields, Closed
  <2>3. TalkOK(h, conn[c], Head(buf[c]))
    BY HistorySeq
  <2> HIDE DEF x, h
  <2>4. Numbered(h, x.n, x.at)
    BY <2>2, <2>3 DEF TalkOK, Numbered
  <2>5. TalkOK(h, x, Head(buf'[c]))
    BY <2>2, <2>3, <2>4 DEF TalkOK, Running, Replying, QueueFull
  <2> QED
    BY <1>1, <2>1, <2>5, TalkMove DEF h
<1> QED
  BY <1>3, <1>4, <1>5, <1>6, <1>7, <1>8, <1>9, <1>10, <1>11, <1>12, <1>13 DEF Serve, Client

LEMMA TalkInit == Init => TalkInv
<1> SUFFICES ASSUME Init, NEW c \in Conns
             PROVE  IsSeq(out[c]) /\ IsSeq(sent[c]) /\ TalkOK(History(c), conn[c], Head(buf[c]))
  BY DEF TalkInv
<1>1. out[c] = <<>> /\ sent[c] = <<>> /\ conn[c] = Idle
  BY DEF Init
<1>2. Idle.at = "read" /\ Idle.n = 0 /\ Idle.multi = FALSE
  BY DEF Idle
<1> HIDE DEF Idle
<1>3. History(c) = <<>>
  BY <1>1 DEF History
<1>4. AnswersIn(<<>>) = {} /\ RepliesIn(<<>>) = {}
  BY DEF AnswersIn, RepliesIn
<1>5. Numbered(<<>>, Idle.n, Idle.at) /\ ExecsFull(<<>>)
  <2>1. {e.n : e \in RepliesIn(<<>>)} = 1..0
    BY <1>4
  <2> QED
    BY <1>2, <1>4, <2>1 DEF Numbered, ExecsFull
<1>6. TalkOK(<<>>, Idle, Head(buf[c]))
  BY <1>2, <1>5 DEF TalkOK, Running, Replying, QueueFull
<1> QED
  BY <1>1, <1>3, <1>6, SeqEmpty

LEMMA TalkInvariant == Spec => []TalkInv
<1>1. ServerInv /\ TalkInv /\ [Next]_vars => TalkInv'
  <2> SUFFICES ASSUME ServerInv, TalkInv, [Next]_vars PROVE TalkInv'
    OBVIOUS
  <2>1. CASE Next
    BY <2>1, TalkKept DEF Next
  <2>2. CASE UNCHANGED vars
    BY <2>2 DEF vars, TalkInv, History
  <2> QED
    BY <2>1, <2>2
<1> QED
  BY <1>1, TalkInit, ServerInvariant, PTL DEF Spec

\* Whatever clients pipeline, each connection has its replies one by one, in the
\* order of the commands and none twice or missing, and an EXEC's reply has as
\* many results as commands were answered QUEUED since the MULTI accepted last.
THEOREM RepliesInOrder == Spec => []OneReplyEach
<1>1. TalkInv => OneReplyEach
  <2> SUFFICES ASSUME TalkInv, NEW c \in Conns
               PROVE  LET h == History(c)
                          n == conn[c].n
                      IN  /\ \A i, j \in Answers(c) : i < j => h[i].n < h[j].n
                          /\ \E m \in {n - 1, n} :
                                /\ {e.n : e \in Replies(c)} = 1..m
                                /\ conn[c].at = "read" => m = n
                                /\ conn[c].at \in {"run", "reply"} => m = n - 1
                          /\ conn[c].multi /\ conn[c].at = "read" =>
                                 Len(conn[c].queue) = Cardinality(QueuedBefore(Replies(c), n + 1))
                          /\ \A e \in Replies(c) :
                                e.exec => Len(e.r.array) = Cardinality(QueuedBefore(Replies(c), e.n))
    BY DEF OneReplyEach
  <2>1. TalkOK(History(c), conn[c], Head(buf[c]))
    BY HistorySeq
  <2>2. Answers(c) = AnswersIn(History(c)) /\ Replies(c) = RepliesIn(History(c))
    BY DEF Answers, Replies, AnswersIn, RepliesIn
  <2> QED
    BY <2>1, <2>2 DEF TalkOK, Numbered, ExecsFull, QueueFull, QueuedIn
<1> QED
  BY <1>1, TalkInvariant, PTL


----------------------------------------------------------------------------
(* Messages, in order and counted.  S[s] is the stream of subscriber s:    *)
(* what is in its history and what waits in its channel.                   *)

Streams == [s \in Conns |-> Stream(s)]
Numbers == [p \in Conns |-> conn[p].n]
CopySet(S, m) == UNION {{<<s, i>> : i \in {j \in DOMAIN S[s] : S[s][j] = m}} : s \in Conns}
Counts(S, p) == [n \in Nat |-> Cardinality(CopySet(S, Message(p, n)))]

\* No message is newer than the command its publisher is at.
Dated(q, last) ==
    \A i \in DOMAIN q : IsMessage(q[i]) => q[i].by \in Conns /\ q[i].n \in Nat /\ q[i].n <= last[q[i].by]
StreamsOK(S, last) == \A s \in Conns : IsSeq(S[s]) /\ InOrder(S[s]) /\ Dated(S[s], last)
FiniteCopies(S) == \A p \in Conns : \A n \in Nat : IsFiniteSet(CopySet(S, Message(p, n)))

\* A connection that has begun command f, of which k messages are out.
Publishing(cn, f, k) ==
    f[1] = "PUBLISH" =>
      /\ cn.at = "run" => /\ IsSeq(cn.got)
                          /\ \A i \in DOMAIN cn.work : cn.work[i].do[1] = "send"
                          /\ Cardinality({i \in DOMAIN cn.got : cn.got[i] = Integer(1)}) = k
      /\ cn.at = "reply" => cn.reply = Integer(k)
PubOK(R, cn, f, K) == (\A e \in R : e.pub => e.r = Integer(K[e.n])) /\ Publishing(cn, f, K[cn.n])

PubInv ==
    /\ StreamsOK(Streams, Numbers) /\ FiniteCopies(Streams)
    /\ \A p \in Conns : PubOK(RepliesIn(History(p)), conn[p], Head(buf[p]), Counts(Streams, p))

LEMMA InCopySet ==
    ASSUME NEW S, NEW m
    PROVE  /\ \A x \in CopySet(S, m) : /\ x = <<x[1], x[2]>> /\ x[1] \in Conns
                                       /\ x[2] \in DOMAIN S[x[1]] /\ S[x[1]][x[2]] = m
           /\ \A s \in Conns : \A i \in DOMAIN S[s] : S[s][i] = m => <<s, i>> \in CopySet(S, m)
<1>1. ASSUME NEW x \in CopySet(S, m)
      PROVE  x = <<x[1], x[2]>> /\ x[1] \in Conns /\ x[2] \in DOMAIN S[x[1]] /\ S[x[1]][x[2]] = m
  <2>1. PICK s \in Conns : x \in {<<s, i>> : i \in {j \in DOMAIN S[s] : S[s][j] = m}}
    BY <1>1 DEF CopySet
  <2>2. PICK i \in DOMAIN S[s] : S[s][i] = m /\ x = <<s, i>>
    BY <2>1
  <2>3. x[1] = s /\ x[2] = i
    BY <2>2
  <2> QED
    BY <2>2, <2>3
<1>2. ASSUME NEW s \in Conns, NEW i \in DOMAIN S[s], S[s][i] = m PROVE <<s, i>> \in CopySet(S, m)
  BY <1>2 DEF CopySet
<1> QED
  BY <1>1, <1>2

\* e comes in after position l of q.
Inserted(g, q, l, e) ==
    /\ IsSeq(q) /\ IsSeq(g) /\ Len(q) \in Nat /\ l \in 0..Len(q)
    /\ DOMAIN q = 1..Len(q) /\ DOMAIN g = 1..(Len(q) + 1)
    /\ \A i \in 1..l : g[i] = q[i]
    /\ g[l + 1] = e
    /\ \A i \in (l + 1)..Len(q) : g[i + 1] = q[i]

Elsewhere(T, S, c) == \A s \in Conns \ {c} : T[s] = S[s]
InsertedAt(T, S, c, e) == (\E l : Inserted(T[c], S[c], l, e)) /\ Elsewhere(T, S, c)

LEMMA InsertedOK ==
    ASSUME NEW h, IsSeq(h), NEW t, IsSeq(t), NEW e
    PROVE  Inserted(h \o (<<e>> \o t), h \o t, Len(h), e)
<1> DEFINE u == <<e>>
           o == u \o t
           g == h \o o
           q == h \o t
           l == Len(h)
           k == Len(t)
<1>1. IsSeq(u) /\ Len(u) = 1 /\ u[1] = e
  BY SeqOne
<1> HIDE DEF u
<1>2. /\ IsSeq(o) /\ k \in Nat /\ Len(o) = 1 + k /\ o[1] = e
      /\ \A i \in 2..(1 + k) : o[i] = t[i - 1]
  <2>1. /\ IsSeq(u \o t) /\ Len(t) \in Nat /\ Len(u \o t) = Len(u) + Len(t)
        /\ \A i \in 1..Len(u) : (u \o t)[i] = u[i]
        /\ \A i \in (Len(u) + 1)..(Len(u) + Len(t)) : (u \o t)[i] = t[i - Len(u)]
    BY <1>1, SeqConcat
  <2> QED
    BY <1>1, <2>1
<1> HIDE DEF o
<1>3. /\ IsSeq(g) /\ l \in Nat /\ DOMAIN g = 1..(l + Len(o))
      /\ \A i \in 1..l : g[i] = h[i]
      /\ \A i \in (l + 1)..(l + Len(o)) : g[i] = o[i - l]
  BY <1>2, SeqConcat
<1>4. /\ IsSeq(q) /\ DOMAIN q = 1..(l + k) /\ Len(q) = l + k
      /\ \A i \in 1..l : q[i] = h[i]
      /\ \A i \in (l + 1)..(l + k) : q[i] = t[i - l]
  BY SeqConcat
<1> HIDE DEF g, q, l, k
<1>5. g[l + 1] = e
  <2>1. l + 1 \in (l + 1)..(l + Len(o)) /\ (l + 1) - l = 1
    BY <1>2, <1>3
  <2> QED
    BY <1>2, <1>3, <2>1
<1>6. \A i \in (l + 1)..(l + k) : g[i + 1] = q[i]
  <2> SUFFICES ASSUME NEW i \in (l + 1)..(l + k) PROVE g[i + 1] = q[i]
    OBVIOUS
  <2>1. i + 1 \in (l + 1)..(l + Len(o)) /\ (i + 1) - l \in 2..(1 + k) /\ ((i + 1) - l) - 1 = i - l
    BY <1>2, <1>3
  <2> QED
    BY <1>2, <1>3, <1>4, <2>1
<1>7. Inserted(g, q, l, e)
  BY <1>2, <1>3, <1>4, <1>5, <1>6 DEF Inserted
<1> QED
  BY <1>7 DEF g, q, l, o, u

\* A reply among the messages neither loses nor doubles a copy.
LEMMA CopiesInserted ==
    ASSUME NEW S, NEW T, NEW c \in Conns, NEW e, InsertedAt(T, S, c, e),
           NEW m, e # m, IsFiniteSet(CopySet(S, m))
    PROVE  IsFiniteSet(CopySet(T, m)) /\ Cardinality(CopySet(T, m)) = Cardinality(CopySet(S, m))
<1> PICK l : Inserted(T[c], S[c], l, e)
  BY DEF InsertedAt
<1> DEFINE A == CopySet(S, m)
           B == CopySet(T, m)
           g == [x \in A |-> IF x[1] = c /\ x[2] > l THEN <<c, x[2] + 1>> ELSE x]
<1>1. /\ Len(S[c]) \in Nat /\ l \in 0..Len(S[c]) /\ DOMAIN S[c] = 1..Len(S[c]) /\ DOMAIN T[c] = 1..(Len(S[c]) + 1)
      /\ \A i \in 1..l : T[c][i] = S[c][i]
      /\ T[c][l + 1] = e
      /\ \A i \in (l + 1)..Len(S[c]) : T[c][i + 1] = S[c][i]
  BY DEF Inserted
<1>0. \A s \in Conns \ {c} : T[s] = S[s]
  BY DEF InsertedAt, Elsewhere
<1>2. /\ \A x \in A : x = <<x[1], x[2]>> /\ x[1] \in Conns /\ x[2] \in DOMAIN S[x[1]] /\ S[x[1]][x[2]] = m
      /\ \A s \in Conns : \A i \in DOMAIN S[s] : S[s][i] = m => <<s, i>> \in A
  BY InCopySet
<1>3. /\ \A x \in B : x = <<x[1], x[2]>> /\ x[1] \in Conns /\ x[2] \in DOMAIN T[x[1]] /\ T[x[1]][x[2]] = m
      /\ \A s \in Conns : \A i \in DOMAIN T[s] : T[s][i] = m => <<s, i>> \in B
  BY InCopySet
<1> HIDE DEF A, B
<1>4. \A x \in A : /\ x[1] = c /\ x[2] > l => g[x] = <<c, x[2] + 1>>
                   /\ ~(x[1] = c /\ x[2] > l) => g[x] = x
  OBVIOUS
<1>5. \A x \in A : g[x] \in B
  <2> SUFFICES ASSUME NEW x \in A PROVE g[x] \in B
    OBVIOUS
  <2>1. CASE x[1] # c
    BY <1>0, <1>2, <1>3, <1>4, <2>1
  <2>2. CASE x[1] = c /\ ~(x[2] > l)
    <3>1. x[2] \in 1..Len(S[c]) /\ S[c][x[2]] = m /\ x = <<c, x[2]>>
      BY <1>1, <1>2, <2>2
    <3>2. x[2] \in 1..l /\ x[2] \in DOMAIN T[c]
      BY <1>1, <2>2, <3>1
    <3>3. T[c][x[2]] = m
      BY <1>1, <3>1, <3>2
    <3>4. <<c, x[2]>> \in B
      BY <1>3, <3>2, <3>3
    <3> QED
      BY <1>4, <2>2, <3>1, <3>4
  <2>3. CASE x[1] = c /\ x[2] > l
    <3>1. x[2] \in 1..Len(S[c]) /\ S[c][x[2]] = m
      BY <1>1, <1>2, <2>3
    <3>2. x[2] \in (l + 1)..Len(S[c]) /\ x[2] + 1 \in DOMAIN T[c]
      BY <1>1, <2>3, <3>1
    <3>3. T[c][x[2] + 1] = m
      BY <1>1, <3>1, <3>2
    <3>4. <<c, x[2] + 1>> \in B
      BY <1>3, <3>2, <3>3
    <3> QED
      BY <1>4, <2>3, <3>4
  <2> QED
    BY <2>1, <2>2, <2>3
<1>6. \A x, y \in A : g[x] = g[y] => x = y
  <2> SUFFICES ASSUME NEW x \in A, NEW y \in A, g[x] = g[y] PROVE x = y
    OBVIOUS
  <2>1. x = <<x[1], x[2]>> /\ y = <<y[1], y[2]>> /\ (x[1] = c => x[2] \in 1..Len(S[c])) /\ (y[1] = c => y[2] \in 1..Len(S[c]))
    BY <1>1, <1>2
  <2>2. g[x] = IF x[1] = c /\ x[2] > l THEN <<c, x[2] + 1>> ELSE <<x[1], x[2]>>
    BY <1>4, <2>1
  <2>3. g[y] = IF y[1] = c /\ y[2] > l THEN <<c, y[2] + 1>> ELSE <<y[1], y[2]>>
    BY <1>4, <2>1
  <2>4. x[1] = y[1]
    BY <2>2, <2>3
  <2>5. x[2] = y[2]
    BY <1>1, <2>1, <2>2, <2>3, <2>4
  <2> QED
    BY <2>1, <2>4, <2>5
<1>7. \A y \in B : \E x \in A : g[x] = y
  <2> SUFFICES ASSUME NEW y \in B PROVE \E x \in A : g[x] = y
    OBVIOUS
  <2>0. y = <<y[1], y[2]>> /\ y[1] \in Conns /\ y[2] \in DOMAIN T[y[1]] /\ T[y[1]][y[2]] = m
    BY <1>3
  <2>1. CASE y[1] # c
    <3>1. y \in A
      BY <1>0, <1>2, <2>0, <2>1
    <3> QED
      BY <1>4, <2>1, <3>1
  <2>2. CASE y[1] = c /\ y[2] <= l
    <3>1. y[2] \in 1..l /\ y[2] \in DOMAIN S[c]
      BY <1>1, <2>0, <2>2
    <3>2. S[c][y[2]] = m
      BY <1>1, <2>0, <2>2, <3>1
    <3>3. y \in A
      BY <1>2, <2>0, <2>2, <3>1, <3>2
    <3>4. ~(y[2] > l)
      BY <1>1, <3>1
    <3> QED
      BY <1>4, <3>3, <3>4
  <2>3. CASE y[1] = c /\ ~(y[2] <= l)
    <3> DEFINE i == y[2] - 1
    <3>1. y[2] \in 1..(Len(S[c]) + 1) /\ y[2] # l + 1
      BY <1>1, <2>0, <2>3
    <3>2. i \in (l + 1)..Len(S[c]) /\ i \in DOMAIN S[c] /\ i + 1 = y[2] /\ i > l
      BY <1>1, <2>3, <3>1
    <3> HIDE DEF i
    <3>3. S[c][i] = m
      <4>1. T[c][i + 1] = S[c][i]
        BY <1>1, <3>2
      <4> QED
        BY <2>0, <2>3, <3>2, <4>1
    <3> DEFINE x == <<c, i>>
    <3>4. x \in A /\ x[1] = c /\ x[2] = i
      BY <1>2, <3>2, <3>3
    <3> HIDE DEF x
    <3>5. g[x] = <<c, i + 1>>
      BY <1>4, <3>2, <3>4
    <3> QED
      BY <2>0, <2>3, <3>2, <3>4, <3>5
  <2> QED
    BY <2>1, <2>2, <2>3
<1>8. g \in [A -> B] /\ DOMAIN g = A
  BY <1>5
<1> HIDE DEF g
<1>9. ExistsBijection(A, B)
  BY <1>6, <1>7, <1>8 DEF ExistsBijection, Bijection, Injection, Surjection, IsInjective
<1>10. IsFiniteSet(A)
  BY DEF A
<1>11. IsFiniteSet(B) /\ Cardinality(B) = Cardinality(A)
  BY <1>9, <1>10, FS_Bijection
<1> QED
  BY <1>11 DEF A, B

LEMMA StreamInserted ==
    ASSUME NEW g, NEW q, NEW l, NEW e, Inserted(g, q, l, e), ~IsMessage(e), InOrder(q), NEW last, Dated(q, last)
    PROVE  IsSeq(g) /\ InOrder(g) /\ Dated(g, last)
<1> DEFINE Back(i) == IF i <= l THEN i ELSE i - 1
<1>1. /\ Len(q) \in Nat /\ l \in 0..Len(q) /\ DOMAIN q = 1..Len(q) /\ DOMAIN g = 1..(Len(q) + 1)
      /\ \A i \in 1..l : g[i] = q[i]
      /\ g[l + 1] = e
      /\ \A i \in (l + 1)..Len(q) : g[i + 1] = q[i]
      /\ IsSeq(g)
  BY DEF Inserted
<1>2. ASSUME NEW i \in DOMAIN g, IsMessage(g[i])
      PROVE  Back(i) \in DOMAIN q /\ q[Back(i)] = g[i]
  <2>1. i # l + 1
    BY <1>1, <1>2
  <2>2. CASE i <= l
    <3>1. i \in 1..l
      BY <1>1, <2>2
    <3> QED
      BY <1>1, <2>2, <3>1
  <2>3. CASE ~(i <= l)
    <3> DEFINE j == i - 1
    <3>1. j \in (l + 1)..Len(q) /\ j + 1 = i /\ j \in DOMAIN q
      <4>1. i \in 1..(Len(q) + 1) /\ i # l + 1 /\ ~(i <= l) /\ l \in 0..Len(q) /\ Len(q) \in Nat
        BY <1>1, <1>2, <2>1, <2>3
      <4>2. i - 1 \in (l + 1)..Len(q) /\ (i - 1) + 1 = i /\ i - 1 \in 1..Len(q)
        BY <4>1
      <4> QED
        BY <1>1, <4>2
    <3>2. g[j + 1] = q[j]
      BY <1>1, <3>1
    <3> QED
      BY <2>3, <3>1, <3>2
  <2> QED
    BY <2>2, <2>3
<1>3. \A i, j \in DOMAIN g : i # l + 1 /\ j # l + 1 /\ i < j => Back(i) < Back(j)
  BY <1>1
<1>4. ~IsMessage(g[l + 1])
  BY <1>1
<1> HIDE DEF Back
<1>5. InOrder(g)
  <2> SUFFICES ASSUME NEW i \in DOMAIN g, NEW j \in DOMAIN g, i < j, IsMessage(g[i]), IsMessage(g[j]),
                      g[i].by = g[j].by
               PROVE  g[i].n <= g[j].n
    BY DEF InOrder
  <2>1. Back(i) \in DOMAIN q /\ q[Back(i)] = g[i] /\ Back(j) \in DOMAIN q /\ q[Back(j)] = g[j]
    BY <1>2
  <2>2. Back(i) < Back(j)
    <3>1. i # l + 1 /\ j # l + 1
      BY <1>4
    <3> QED
      BY <1>3, <3>1
  <2> QED
    BY <2>1, <2>2 DEF InOrder
<1>6. Dated(g, last)
  BY <1>2 DEF Dated
<1> QED
  BY <1>1, <1>5, <1>6

\* A message sent goes to the end of a stream, and is as new as any.
LEMMA StreamSent ==
    ASSUME NEW q, IsSeq(q), InOrder(q), NEW last, Dated(q, last), NEW p \in Conns, NEW n \in Nat, last[p] = n
    PROVE  LET g == Append(q, Message(p, n)) IN IsSeq(g) /\ InOrder(g) /\ Dated(g, last)
<1> DEFINE m == Message(p, n)
           g == Append(q, m)
           k == Len(q) + 1
<1>1. IsMessage(m) /\ m.by = p /\ m.n = n
  BY DEF Message, IsMessage
<1> HIDE DEF m
<1>2. /\ IsSeq(g) /\ Len(q) \in Nat /\ DOMAIN q = 1..Len(q) /\ DOMAIN g = 1..k
      /\ \A i \in 1..Len(q) : g[i] = q[i]
      /\ g[k] = m
  <2>1. /\ IsSeq(Append(q, m)) /\ DOMAIN q = 1..Len(q) /\ Len(q) \in Nat
        /\ DOMAIN Append(q, m) = 1..(Len(q) + 1)
        /\ \A i \in 1..Len(q) : Append(q, m)[i] = q[i]
        /\ Append(q, m)[Len(q) + 1] = m
    BY SeqAppend
  <2> QED
    BY <2>1
<1> HIDE DEF g
<1>3. \A i \in DOMAIN g : i = k \/ (i \in DOMAIN q /\ g[i] = q[i])
  BY <1>2
<1>4. InOrder(g)
  <2> SUFFICES ASSUME NEW i \in DOMAIN g, NEW j \in DOMAIN g, i < j, IsMessage(g[i]), IsMessage(g[j]),
                      g[i].by = g[j].by
               PROVE  g[i].n <= g[j].n
    BY DEF InOrder
  <2>1. i \in DOMAIN q /\ g[i] = q[i]
    BY <1>2
  <2>2. CASE j = k
    <3>1. q[i].n <= last[q[i].by]
      BY <2>1 DEF Dated
    <3> QED
      BY <1>1, <1>2, <2>1, <2>2, <3>1
  <2>3. CASE j \in DOMAIN q /\ g[j] = q[j]
    BY <2>1, <2>3 DEF InOrder
  <2> QED
    BY <1>3, <2>2, <2>3
<1>5. Dated(g, last)
  <2> SUFFICES ASSUME NEW i \in DOMAIN g, IsMessage(g[i])
               PROVE  g[i].by \in Conns /\ g[i].n \in Nat /\ g[i].n <= last[g[i].by]
    BY DEF Dated
  <2>1. CASE i = k
    <3>1. n <= n
      OBVIOUS
    <3> QED
      BY <1>1, <1>2, <2>1, <3>1
  <2>2. CASE i \in DOMAIN q /\ g[i] = q[i]
    BY <2>2 DEF Dated
  <2> QED
    BY <1>3, <2>1, <2>2
<1> QED
  BY <1>2, <1>4, <1>5 DEF g, m

LEMMA CopiesSent ==
    ASSUME NEW S, NEW T, NEW to \in Conns, IsSeq(S[to]), NEW m, T[to] = Append(S[to], m),
           Elsewhere(T, S, to)
    PROVE  /\ \A d : d # m => CopySet(T, d) = CopySet(S, d)
           /\ IsFiniteSet(CopySet(S, m)) =>
                 /\ IsFiniteSet(CopySet(T, m))
                 /\ Cardinality(CopySet(T, m)) = Cardinality(CopySet(S, m)) + 1
<1> DEFINE k == Len(S[to]) + 1
           q == S[to]
<1>1. /\ Len(q) \in Nat /\ DOMAIN q = 1..Len(q) /\ DOMAIN T[to] = 1..k
      /\ \A i \in 1..Len(q) : T[to][i] = q[i]
      /\ T[to][k] = m
  BY SeqAppend
<1>0. \A s \in Conns \ {to} : T[s] = S[s]
  BY DEF Elsewhere
<1>2. ASSUME NEW d
      PROVE  /\ CopySet(S, d) \subseteq CopySet(T, d)
             /\ \A x \in CopySet(T, d) : x \in CopySet(S, d) \/ (x = <<to, k>> /\ d = m)
  <2>1. /\ \A x \in CopySet(S, d) : x = <<x[1], x[2]>> /\ x[1] \in Conns /\ x[2] \in DOMAIN S[x[1]] /\ S[x[1]][x[2]] = d
        /\ \A s \in Conns : \A i \in DOMAIN S[s] : S[s][i] = d => <<s, i>> \in CopySet(S, d)
    BY InCopySet
  <2>2. /\ \A x \in CopySet(T, d) : x = <<x[1], x[2]>> /\ x[1] \in Conns /\ x[2] \in DOMAIN T[x[1]] /\ T[x[1]][x[2]] = d
        /\ \A s \in Conns : \A i \in DOMAIN T[s] : T[s][i] = d => <<s, i>> \in CopySet(T, d)
    BY InCopySet
  <2>3. ASSUME NEW x \in CopySet(S, d) PROVE x \in CopySet(T, d)
    <3>1. x = <<x[1], x[2]>> /\ x[1] \in Conns /\ x[2] \in DOMAIN S[x[1]] /\ S[x[1]][x[2]] = d
      BY <2>1, <2>3
    <3>2. x[2] \in DOMAIN T[x[1]] /\ T[x[1]][x[2]] = d
      <4>1. CASE x[1] # to
        BY <1>0, <3>1, <4>1
      <4>2. CASE x[1] = to
        <5>1. x[2] \in 1..Len(q) /\ q[x[2]] = d
          BY <1>1, <3>1, <4>2
        <5>2. x[2] \in 1..k /\ T[to][x[2]] = d
          BY <1>1, <5>1
        <5> QED
          BY <1>1, <4>2, <5>2
      <4> QED
        BY <4>1, <4>2
    <3> QED
      BY <2>2, <3>1, <3>2
  <2>4. ASSUME NEW x \in CopySet(T, d) PROVE x \in CopySet(S, d) \/ (x = <<to, k>> /\ d = m)
    <3>1. x = <<x[1], x[2]>> /\ x[1] \in Conns /\ x[2] \in DOMAIN T[x[1]] /\ T[x[1]][x[2]] = d
      BY <2>2, <2>4
    <3>2. CASE x[1] # to
      BY <1>0, <2>1, <3>1, <3>2
    <3>3. CASE x[1] = to /\ x[2] = k
      BY <1>1, <3>1, <3>3
    <3>4. CASE x[1] = to /\ x[2] # k
      <4>1. x[2] \in 1..k /\ T[to][x[2]] = d
        BY <1>1, <3>1, <3>4
      <4>2. x[2] \in 1..Len(q)
        BY <1>1, <3>4, <4>1
      <4>3. q[x[2]] = d
        BY <1>1, <4>1, <4>2
      <4> QED
        BY <1>1, <2>1, <3>1, <3>4, <4>2, <4>3
    <3> QED
      BY <3>2, <3>3, <3>4
  <2> QED
    BY <2>3, <2>4
<1>3. ASSUME NEW d, d # m PROVE CopySet(T, d) = CopySet(S, d)
  <2>1. CopySet(S, d) \subseteq CopySet(T, d)
    BY <1>2
  <2>2. ASSUME NEW x \in CopySet(T, d) PROVE x \in CopySet(S, d)
    BY <1>2, <1>3, <2>2
  <2> QED
    BY <2>1, <2>2
<1>4. ASSUME IsFiniteSet(CopySet(S, m))
      PROVE  /\ IsFiniteSet(CopySet(T, m))
             /\ Cardinality(CopySet(T, m)) = Cardinality(CopySet(S, m)) + 1
  <2> DEFINE z == <<to, k>>
             A == CopySet(S, m)
  <2>1. z[1] = to /\ z[2] = k
    OBVIOUS
  <2>2. <<to, k>> \in CopySet(T, m)
    <3>1. k \in DOMAIN T[to] /\ T[to][k] = m
      BY <1>1
    <3> QED
      BY <3>1, InCopySet
  <2> HIDE DEF z
  <2>3. z \notin A
    <3>1. k \notin DOMAIN S[to]
      BY <1>1
    <3> QED
      BY <2>1, <3>1, InCopySet
  <2>4. CopySet(T, m) = A \union {z}
    <3>1. A \subseteq CopySet(T, m) /\ \A x \in CopySet(T, m) : x \in A \/ x = z
      BY <1>2 DEF z
    <3>2. z \in CopySet(T, m)
      BY <2>2 DEF z
    <3> QED
      BY <3>1, <3>2
  <2> HIDE DEF A
  <2>5. IsFiniteSet(A)
    BY <1>4 DEF A
  <2>6. IsFiniteSet(A \union {z}) /\ Cardinality(A \union {z}) = Cardinality(A) + 1
    BY <2>3, <2>5, FS_AddElement
  <2> QED
    BY <2>4, <2>6 DEF A
<1> QED
  BY <1>3, <1>4

LEMMA StreamParts ==
    /\ \A s \in Conns : Streams[s] = Stream(s) /\ Numbers[s] = conn[s].n
    /\ \A s \in Conns : Streams'[s] = Stream(s)' /\ Numbers'[s] = conn'[s].n
  BY DEF Streams, Numbers

LEMMA StreamsLater ==
    ASSUME NEW S, NEW last, NEW next, StreamsOK(S, last),
           \A p \in Conns : last[p] \in Nat /\ next[p] \in Nat /\ last[p] <= next[p]
    PROVE  StreamsOK(S, next)
<1> SUFFICES ASSUME NEW s \in Conns, NEW i \in DOMAIN S[s], IsMessage(S[s][i])
             PROVE  S[s][i].by \in Conns /\ S[s][i].n \in Nat /\ S[s][i].n <= next[S[s][i].by]
  BY DEF StreamsOK, Dated
<1> DEFINE e == S[s][i]
<1>1. e.by \in Conns /\ e.n \in Nat /\ e.n <= last[e.by]
  BY DEF StreamsOK, Dated
<1> HIDE DEF e
<1>2. last[e.by] \in Nat /\ next[e.by] \in Nat /\ last[e.by] <= next[e.by]
  BY <1>1
<1>3. e.n <= next[e.by]
  BY <1>1, <1>2
<1> QED
  BY <1>1, <1>3 DEF e

\* The commands of connection c only go on.
LEMMA NumbersGrow ==
    ASSUME ConnInv, NEW c \in Conns, NEW x, conn' = [conn EXCEPT ![c] = x], x.n \in Nat, conn[c].n <= x.n
    PROVE  \A p \in Conns : Numbers[p] \in Nat /\ Numbers'[p] \in Nat /\ Numbers[p] <= Numbers'[p]
<1> SUFFICES ASSUME NEW p \in Conns PROVE Numbers[p] \in Nat /\ Numbers'[p] \in Nat /\ Numbers[p] <= Numbers'[p]
  OBVIOUS
<1>1. Numbers[p] = conn[p].n /\ Numbers'[p] = conn'[p].n
  BY StreamParts
<1>2. conn[p].n \in Nat
  BY DEF ConnInv, CnOK
<1>3. conn'[c] = x /\ \A e \in Conns \ {c} : conn'[e] = conn[e]
  BY DEF ConnInv
<1>4. CASE p = c
  BY <1>1, <1>2, <1>3, <1>4
<1>5. CASE p # c
  BY <1>1, <1>2, <1>3, <1>5
<1> QED
  BY <1>4, <1>5

\* A step of connection c that neither writes nor sends.
LEMMA PubMove ==
    ASSUME ConnInv, PubInv, NEW c \in Conns, NEW x, conn' = [conn EXCEPT ![c] = x], UNCHANGED <<out, sent, inq>>,
           \A e \in Conns \ {c} : buf'[e] = buf[e], x.n \in Nat, conn[c].n <= x.n,
           Publishing(x, Head(buf'[c]), Counts(Streams, c)[x.n])
    PROVE  PubInv'
<1>1. Streams' = Streams /\ \A e \in Conns : History(e)' = History(e)
  BY DEF Streams, Stream, History
<1>2. conn'[c] = x /\ \A e \in Conns \ {c} : conn'[e] = conn[e]
  BY DEF ConnInv
<1>3. \A p \in Conns : Numbers[p] \in Nat /\ Numbers'[p] \in Nat /\ Numbers[p] <= Numbers'[p]
  BY NumbersGrow
<1>4. StreamsOK(Streams, Numbers')
  <2>1. StreamsOK(Streams, Numbers)
    BY DEF PubInv
  <2> DEFINE last == Numbers
             next == Numbers'
             S == Streams
  <2>2. StreamsOK(S, last) /\ \A p \in Conns : last[p] \in Nat /\ next[p] \in Nat /\ last[p] <= next[p]
    BY <1>3, <2>1
  <2> HIDE DEF last, next, S
  <2>3. StreamsOK(S, next)
    BY <2>2, StreamsLater
  <2> QED
    BY <2>3 DEF S, next
<1>5. FiniteCopies(Streams)
  BY DEF PubInv
<1>6. ASSUME NEW p \in Conns
      PROVE  PubOK(RepliesIn(History(p)'), conn'[p], Head(buf'[p]), Counts(Streams', p))
  <2>1. PubOK(RepliesIn(History(p)), conn[p], Head(buf[p]), Counts(Streams, p))
    BY DEF PubInv
  <2>2. CASE p = c
    BY <1>1, <1>2, <2>1, <2>2 DEF PubOK
  <2>3. CASE p # c
    <3>1. conn'[p] = conn[p] /\ buf'[p] = buf[p]
      BY <1>2, <2>3
    <3> QED
      BY <1>1, <2>1, <3>1
  <2> QED
    BY <2>2, <2>3
<1>7. StreamsOK(Streams', Numbers') /\ FiniteCopies(Streams')
  BY <1>1, <1>4, <1>5
<1> QED
  BY <1>6, <1>7 DEF PubInv

\* A step of connection c that writes reply e.
LEMMA PubWrote ==
    ASSUME ConnInv, PubInv, NEW c \in Conns, NEW x, conn' = [conn EXCEPT ![c] = x], x.at \in {"read", "closed"},
           \A s \in Conns \ {c} : buf'[s] = buf[s], x.n \in Nat, conn[c].n <= x.n,
           NEW e, ~IsMessage(e), e.pub => e.r = Integer(Counts(Streams, c)[e.n]),
           \E l : Inserted(Stream(c)', Stream(c), l, e),
           RepliesIn(History(c)') = RepliesIn(History(c)) \union {e},
           \A s \in Conns \ {c} : Stream(s)' = Stream(s) /\ History(s)' = History(s)
    PROVE  PubInv'
<1> DEFINE S == Streams
           T == Streams'
           last == Numbers
           next == Numbers'
<1>1. conn'[c] = x /\ \A s \in Conns \ {c} : conn'[s] = conn[s]
  BY DEF ConnInv
<1>2. StreamsOK(S, last) /\ FiniteCopies(S)
  BY DEF PubInv
<1>3. \A p \in Conns : last[p] \in Nat /\ next[p] \in Nat /\ last[p] <= next[p]
  BY NumbersGrow
<1>4. PICK l : Inserted(T[c], S[c], l, e)
  <2>1. T[c] = Stream(c)' /\ S[c] = Stream(c)
    BY StreamParts
  <2> HIDE DEF T, S
  <2> QED
    BY <2>1
<1>5. Elsewhere(T, S, c)
  BY StreamParts DEF Elsewhere
<1>6. \A p \in Conns : PubOK(RepliesIn(History(p)), conn[p], Head(buf[p]), Counts(S, p))
  BY DEF PubInv
<1>7. e.pub => e.r = Integer(Counts(S, c)[e.n])
  OBVIOUS
<1> HIDE DEF S, T, last, next
<1>8. ASSUME NEW p \in Conns, NEW n \in Nat
      PROVE  /\ IsFiniteSet(CopySet(T, Message(p, n)))
             /\ Cardinality(CopySet(T, Message(p, n))) = Cardinality(CopySet(S, Message(p, n)))
  <2> DEFINE m == Message(p, n)
  <2>1. IsMessage(m)
    BY DEF Message, IsMessage
  <2>2. IsFiniteSet(CopySet(S, m))
    BY <1>2 DEF FiniteCopies
  <2> HIDE DEF m
  <2>3. e # m
    BY <2>1
  <2>4. IsFiniteSet(CopySet(T, m)) /\ Cardinality(CopySet(T, m)) = Cardinality(CopySet(S, m))
    <3>1. InsertedAt(T, S, c, e)
      BY <1>4, <1>5 DEF InsertedAt
    <3> QED
      BY <2>2, <2>3, <3>1, CopiesInserted
  <2> QED
    BY <2>4 DEF m
<1>9. \A p \in Conns : Counts(T, p) = Counts(S, p)
  BY <1>8 DEF Counts
<1>10. StreamsOK(T, last)
  <2> SUFFICES ASSUME NEW s \in Conns PROVE IsSeq(T[s]) /\ InOrder(T[s]) /\ Dated(T[s], last)
    BY DEF StreamsOK
  <2>1. IsSeq(S[s]) /\ InOrder(S[s]) /\ Dated(S[s], last)
    BY <1>2 DEF StreamsOK
  <2>2. CASE s = c
    BY <1>4, <2>1, <2>2, StreamInserted
  <2>3. CASE s # c
    BY <1>5, <2>1, <2>3 DEF Elsewhere
  <2> QED
    BY <2>2, <2>3
<1>11. StreamsOK(T, next)
  BY <1>3, <1>10, StreamsLater
<1>12. FiniteCopies(T)
  BY <1>8 DEF FiniteCopies
<1>13. ASSUME NEW p \in Conns
       PROVE  PubOK(RepliesIn(History(p)'), conn'[p], Head(buf'[p]), Counts(T, p))
  <2>1. PubOK(RepliesIn(History(p)), conn[p], Head(buf[p]), Counts(S, p))
    BY <1>6
  <2>2. CASE p = c
    <3>1. Publishing(x, Head(buf'[c]), Counts(T, c)[x.n])
      BY DEF Publishing
    <3> QED
      BY <1>1, <1>7, <1>9, <2>1, <2>2, <3>1 DEF PubOK
  <2>3. CASE p # c
    <3>1. conn'[p] = conn[p] /\ buf'[p] = buf[p] /\ History(p)' = History(p) /\ Counts(T, p) = Counts(S, p)
      BY <1>1, <1>9, <2>3
    <3> QED
      BY <2>1, <3>1
  <2> QED
    BY <2>2, <2>3
<1> QED
  BY <1>11, <1>12, <1>13 DEF PubInv, T, next

\* A step of connection c that sends.
LEMMA PubSent ==
    ASSUME ServerInv, TalkInv, PubInv, NEW c \in Conns, NEW to \in Conns, conn[c].at = "run",
           inq' = [inq EXCEPT ![to] = Append(@, Message(c, conn[c].n))], UNCHANGED <<buf, out, sent>>,
           NEW x, conn' = [conn EXCEPT ![c] = x], x.n = conn[c].n,
           Publishing(x, Head(buf[c]), Counts(Streams, c)[x.n] + 1)
    PROVE  PubInv'
<1> DEFINE S == Streams
           T == Streams'
           last == Numbers
           next == Numbers'
           n == conn[c].n
           m == Message(c, n)
<1>1. ConnInv /\ CnOK(conn[c]) /\ DOMAIN conn = Conns
  BY DEF ServerInv, ConnInv
<1>2. conn'[c] = x /\ (\A s \in Conns \ {c} : conn'[s] = conn[s]) /\ n \in Nat /\ x.n = n
  BY <1>1 DEF CnOK
<1>3. StreamsOK(S, last) /\ FiniteCopies(S)
  BY DEF PubInv
<1>4. \A p \in Conns : last[p] \in Nat /\ next[p] \in Nat /\ last[p] <= next[p]
  <2>1. conn[c].n <= x.n /\ x.n \in Nat
    BY <1>2
  <2> QED
    BY <1>1, <2>1, NumbersGrow
<1>5. inq \in [Conns -> Seq([by : Conns, n : Nat])]
  BY DEF ServerInv, QueueInv
<1>6. \A s \in Conns : History(s)' = History(s)
  BY DEF History
<1>7. IsSeq(S[to]) /\ T[to] = Append(S[to], m)
  <2> DEFINE a == History(to)
             b == inq[to]
             d == Append(b, m)
  <2>1. IsSeq(a) /\ IsSeq(b)
    BY <1>5, HistorySeq DEF IsSeq
  <2>2. S[to] = a \o b
    BY StreamParts DEF Stream
  <2>3. T[to] = a \o d
    <3>1. inq'[to] = d
      BY <1>5
    <3>2. T[to] = History(to)' \o inq'[to]
      BY StreamParts DEF Stream
    <3> QED
      BY <1>6, <3>1, <3>2
  <2> HIDE DEF a, b, m, S, T
  <2>4. IsSeq(a \o b)
    BY <2>1, SeqConcat
  <2>5. Append(a \o b, m) = (a \o b) \o <<m>> /\ Append(b, m) = b \o <<m>>
    BY <2>1, <2>4, SeqSnoc
  <2>6. (a \o b) \o <<m>> = a \o (b \o <<m>>)
    BY <2>1, SeqOne, SeqAssoc
  <2> QED
    BY <2>2, <2>3, <2>4, <2>5, <2>6
<1>8. Elsewhere(T, S, to)
  <2> SUFFICES ASSUME NEW s \in Conns \ {to} PROVE T[s] = S[s]
    BY DEF Elsewhere
  <2>1. inq'[s] = inq[s] /\ History(s)' = History(s)
    BY <1>5, <1>6
  <2>2. T[s] = History(s)' \o inq'[s]
    BY StreamParts DEF Stream
  <2>3. S[s] = History(s) \o inq[s]
    BY StreamParts DEF Stream
  <2> HIDE DEF S, T
  <2> QED
    BY <2>1, <2>2, <2>3
<1>9. /\ \A p \in Conns : PubOK(RepliesIn(History(p)), conn[p], Head(buf[p]), Counts(S, p))
      /\ Publishing(x, Head(buf[c]), Counts(S, c)[n] + 1)
  BY <1>2 DEF PubInv
<1>10. last[c] = n
  BY StreamParts
<1>11. TalkOK(History(c), conn[c], Head(buf[c]))
  BY HistorySeq
<1> HIDE DEF S, T, last, next, n
<1>12. /\ \A d : d # m => CopySet(T, d) = CopySet(S, d)
       /\ IsFiniteSet(CopySet(S, m)) =>
             /\ IsFiniteSet(CopySet(T, m))
             /\ Cardinality(CopySet(T, m)) = Cardinality(CopySet(S, m)) + 1
  <2> HIDE DEF m
  <2> QED
    BY <1>7, <1>8, CopiesSent
<1>13. \A p \in Conns : \A k \in Nat : Message(p, k) = m => p = c /\ k = n
  BY DEF Message
<1>14. IsFiniteSet(CopySet(S, m))
  BY <1>2, <1>3 DEF FiniteCopies
<1>15. FiniteCopies(T)
  <2> SUFFICES ASSUME NEW p \in Conns, NEW k \in Nat PROVE IsFiniteSet(CopySet(T, Message(p, k)))
    BY DEF FiniteCopies
  <2>1. CASE Message(p, k) = m
    BY <1>12, <1>14, <2>1
  <2>2. CASE Message(p, k) # m
    BY <1>3, <1>12, <2>2 DEF FiniteCopies
  <2> QED
    BY <2>1, <2>2
<1>16. \A p \in Conns : \A k \in Nat : (p # c \/ k # n) => Counts(T, p)[k] = Counts(S, p)[k]
  BY <1>12, <1>13 DEF Counts
<1>17. Counts(T, c)[n] = Counts(S, c)[n] + 1
  BY <1>2, <1>12, <1>14 DEF Counts
<1>18. StreamsOK(T, last)
  <2> SUFFICES ASSUME NEW s \in Conns PROVE IsSeq(T[s]) /\ InOrder(T[s]) /\ Dated(T[s], last)
    BY DEF StreamsOK
  <2>1. IsSeq(S[s]) /\ InOrder(S[s]) /\ Dated(S[s], last)
    BY <1>3 DEF StreamsOK
  <2>2. CASE s = to
    BY <1>2, <1>7, <1>10, <2>1, <2>2, StreamSent
  <2>3. CASE s # to
    BY <1>8, <2>1, <2>3 DEF Elsewhere
  <2> QED
    BY <2>2, <2>3
<1>19. StreamsOK(T, next)
  BY <1>4, <1>18, StreamsLater
<1>20. ASSUME NEW p \in Conns
       PROVE  PubOK(RepliesIn(History(p)'), conn'[p], Head(buf'[p]), Counts(T, p))
  <2>1. PubOK(RepliesIn(History(p)), conn[p], Head(buf[p]), Counts(S, p))
    BY <1>9
  <2>2. CASE p = c
    <3> DEFINE R == RepliesIn(History(c))
    <3>1. {e.n : e \in R} = 1..(n - 1)
      BY <1>11 DEF TalkOK, Numbered, n
    <3> HIDE DEF R
    <3>2. ASSUME NEW e \in R PROVE e.n \in Nat /\ e.n # n
      <4>1. e.n \in {d.n : d \in R}
        OBVIOUS
      <4>2. e.n \in 1..(n - 1) /\ n \in Nat
        BY <1>2, <3>1, <4>1 DEF n
      <4> QED
        BY <4>2
    <3>3. \A e \in R : e.pub => e.r = Integer(Counts(T, c)[e.n])
      BY <1>16, <2>1, <2>2, <3>2 DEF PubOK, R
    <3>4. Publishing(x, Head(buf[c]), Counts(T, c)[x.n])
      BY <1>2, <1>9, <1>17
    <3>5. PubOK(R, x, Head(buf[c]), Counts(T, c))
      BY <3>3, <3>4 DEF PubOK
    <3> QED
      BY <1>2, <1>6, <2>2, <3>5 DEF R
  <2>3. CASE p # c
    <3>1. conn'[p] = conn[p] /\ buf'[p] = buf[p] /\ History(p)' = History(p)
      BY <1>2, <1>6, <2>3
    <3>2. Counts(T, p) = Counts(S, p)
      BY <1>16, <2>3 DEF Counts
    <3> QED
      BY <2>1, <3>1, <3>2
  <2> QED
    BY <2>2, <2>3
<1> QED
  BY <1>15, <1>19, <1>20 DEF PubInv, T, next

\* How many of the channels took the message.
Ones(got) == Cardinality({i \in DOMAIN got : got[i] = Integer(1)})

LEMMA OneMore ==
    ASSUME NEW got, IsSeq(got), NEW r
    PROVE  Ones(Append(got, r)) = IF r = Integer(1) THEN Ones(got) + 1 ELSE Ones(got)
<1> DEFINE g == Append(got, r)
           l == Len(got)
           one == Integer(1)
           A == {i \in DOMAIN got : got[i] = one}
           B == {i \in DOMAIN g : g[i] = one}
<1>1. /\ DOMAIN got = 1..l /\ l \in Nat /\ DOMAIN g = 1..(l + 1)
      /\ \A i \in 1..l : g[i] = got[i]
      /\ g[l + 1] = r
  BY SeqAppend
<1> HIDE DEF g, l, one
<1>2. IsFiniteSet(A)
  <2>1. IsFiniteSet(1..l)
    BY <1>1, FS_Interval
  <2>2. A \in SUBSET (1..l)
    BY <1>1
  <2> HIDE DEF A
  <2> QED
    BY <2>1, <2>2, FS_Subset
<1>3. CASE r = one
  <2>1. B = A \union {l + 1}
    BY <1>1, <1>3
  <2>2. l + 1 \notin A
    BY <1>1
  <2> HIDE DEF A, B
  <2>3. Cardinality(B) = Cardinality(A) + 1
    BY <1>2, <2>1, <2>2, FS_AddElement
  <2> QED
    BY <1>3, <2>3 DEF A, B, g, one, Ones
<1>4. CASE r # one
  <2>1. B = A
    BY <1>1, <1>4
  <2> HIDE DEF A, B
  <2>2. Cardinality(B) = Cardinality(A)
    BY <2>1
  <2> QED
    BY <1>4, <2>2 DEF A, B, g, one, Ones
<1> QED
  BY <1>3, <1>4

LEMMA PubProceed ==
    ASSUME NEW cn, CnOK(cn), cn.at = "run", NEW f, NEW q, Running(cn, f, q), NEW k, Publishing(cn, f, k),
           NEW r, NEW rest, rest = <<>> \/ rest = Tail(cn.work)
    PROVE  Publishing(Proceed(cn, r, rest), f, IF r = Integer(1) THEN k + 1 ELSE k)
<1> DEFINE x == Proceed(cn, r, rest)
           got == Append(cn.got, r)
           ones == Ones(got)
           z == IF r = Integer(1) THEN k + 1 ELSE k
<1> SUFFICES ASSUME f[1] = "PUBLISH" PROVE Publishing(x, f, z)
  BY DEF Publishing
<1>1. ~cn.exec /\ cn.cur = f /\ DOMAIN cn = Fields /\ WorkOK(cn.work, cn.cur, cn.multi)
  BY DEF Running, CnOK
<1>2. /\ IsSeq(cn.got) /\ \A i \in DOMAIN cn.work : cn.work[i].do[1] = "send"
      /\ Ones(cn.got) = k
  BY DEF Publishing, Ones
<1>3. ones = z /\ IsSeq(got)
  <2>1. IsSeq(got)
    BY <1>2, SeqAppend
  <2> QED
    BY <1>2, <2>1, OneMore
<1> HIDE DEF z
<1>4. CASE rest = <<>>
  <2>1. x = [cn EXCEPT !.at = "reply", !.work = <<>>, !.reply = Integer(ones)]
    BY <1>1, <1>4 DEF Proceed, Done, Answer, Ones
  <2> HIDE DEF ones
  <2>2. x.at = "reply" /\ x.reply = Integer(ones)
    BY <1>1, <2>1 DEF Fields
  <2> HIDE DEF x
  <2> QED
    BY <1>3, <2>2 DEF Publishing
<1>5. CASE rest # <<>>
  <2>1. x = [cn EXCEPT !.work = rest, !.got = got]
    BY <1>5 DEF Proceed
  <2>2. x.at = "run" /\ x.work = rest /\ x.got = got
    BY <1>1, <2>1 DEF Fields
  <2>3. \A i \in DOMAIN rest : rest[i].do[1] = "send"
    <3>1. PICK W : cn.work \in Seq(W)
      BY <1>1 DEF WorkOK, IsSeq
    <3>2. \A i \in DOMAIN rest : i + 1 \in DOMAIN cn.work /\ rest[i] = cn.work[i + 1]
      <4>1. cn.work # <<>> /\ rest = Tail(cn.work)
        BY <1>1, <1>5 DEF WorkOK
      <4> QED
        BY <3>1, <4>1
    <3> QED
      BY <1>2, <3>2
  <2> HIDE DEF x
  <2> QED
    BY <1>3, <2>2, <2>3 DEF Publishing, Ones
<1> QED
  BY <1>4, <1>5

LEMMA ProceedNumber ==
    ASSUME NEW cn, DOMAIN cn = Fields, NEW r, NEW rest
    PROVE  Proceed(cn, r, rest).n = cn.n
<1> DEFINE got == Append(cn.got, r)
           a == Answer(cn.cur, got)
           res == Append(cn.results, a)
           x == Proceed(cn, r, rest)
<1>1. \/ x = [cn EXCEPT !.work = rest, !.got = got]
      \/ x = [cn EXCEPT !.at = "reply", !.work = <<>>, !.reply = a]
      \/ x = [cn EXCEPT !.at = "reply", !.work = <<>>, !.exec = FALSE, !.results = <<>>, !.reply = Array(res)]
      \/ x = [Start(cn, Head(cn.batch)) EXCEPT !.batch = Tail(@), !.results = res]
  BY DEF Proceed, Done
<1> HIDE DEF x, a, res, got
<1>2. x.n = cn.n
  BY <1>1 DEF Start, Fields
<1> QED
  BY <1>2 DEF x

\* A work item of connection c that sends nothing.
LEMMA PubItem ==
    ASSUME ServerInv, PubInv, NEW c \in Conns, NEW what, Doing(c, what), what # "send", NEW r, NEW rest,
           NEW y, DOMAIN y = Fields, y.n = conn[c].n,
           conn' = [conn EXCEPT ![c] = Proceed(y, r, rest)], UNCHANGED <<buf, out, sent, inq>>
    PROVE  PubInv'
<1> DEFINE cn == conn[c]
           f == Head(buf[c])
           K == Counts(Streams, c)
           x == Proceed(y, r, rest)
<1>1. ConnInv /\ CnOK(cn) /\ cn.at = "run" /\ WorkOK(cn.work, cn.cur, cn.multi) /\ Head(cn.work).do[1] = what
  BY DEF ServerInv, ConnInv, CnOK, Doing
<1>2. x.n = cn.n /\ cn.n \in Nat
  BY <1>1, ProceedNumber DEF CnOK
<1>3. Publishing(cn, f, K[cn.n])
  BY DEF PubInv, PubOK
<1>4. conn' = [conn EXCEPT ![c] = x] /\ f = Head(buf'[c])
  OBVIOUS
<1> HIDE DEF x, f, K
<1>5. f[1] # "PUBLISH"
  <2>1. PICK W : cn.work \in Seq(W)
    BY <1>1 DEF WorkOK, IsSeq
  <2>2. 1 \in DOMAIN cn.work /\ Head(cn.work) = cn.work[1]
    BY <1>1, <2>1 DEF WorkOK
  <2> QED
    BY <1>1, <1>3, <2>2 DEF Publishing
<1>6. Publishing(x, f, K[x.n])
  BY <1>5 DEF Publishing
<1>7. cn.n <= x.n /\ x.n \in Nat
  BY <1>2
<1> QED
  BY <1>1, <1>4, <1>6, <1>7, PubMove DEF K

LEMMA PubSend ==
    ASSUME ServerInv, TalkInv, PubInv, NEW c \in Conns, Send(c)
    PROVE  PubInv'
<1> DEFINE cn == conn[c]
           to == Arg(c, 3)
           ok == HasRoom(inq[to]) /\ conn[to].at # "closed"
           r == Counted(ok)
           f == Head(buf[c])
           K == Counts(Streams, c)
           x == Proceed(cn, r, Tail(cn.work))
<1>1. ConnInv /\ Doing(c, "send") /\ UNCHANGED <<buf, out, sent>>
  BY DEF Send, ServerInv, input
<1>2. /\ inq' = IF ok THEN [inq EXCEPT ![to] = Append(@, Message(c, cn.n))] ELSE inq
      /\ conn' = [conn EXCEPT ![c] = x]
  BY DEF Send, Message
<1>3. cn.at = "run" /\ CnOK(cn) /\ to \in Conns
  <2>1. cn.at = "run" /\ CnOK(cn) /\ DoOK(Head(cn.work).do) /\ Head(cn.work).do[1] = "send"
    BY <1>1, AtWork
  <2> QED
    BY <2>1 DEF DoOK, Arg
<1>4. x.n = cn.n /\ cn.n \in Nat
  BY <1>3, ProceedNumber DEF CnOK
<1>5. Publishing(cn, f, K[cn.n])
  BY DEF PubInv, PubOK
<1>6. Running(cn, f, QueuedIn(History(c), cn.n))
  BY HistorySeq DEF TalkOK
<1>7. Publishing(x, f, IF r = Integer(1) THEN K[cn.n] + 1 ELSE K[cn.n])
  <2> HIDE DEF r, f, K, x
  <2> QED
    BY <1>3, <1>5, <1>6, PubProceed DEF x
<1>8. CASE ok
  <2>1. r = Integer(1)
    BY <1>8 DEF Counted
  <2>2. Publishing(x, f, K[x.n] + 1) /\ inq' = [inq EXCEPT ![to] = Append(@, Message(c, cn.n))]
    BY <1>2, <1>4, <1>7, <1>8, <2>1
  <2> HIDE DEF x, to
  <2> QED
    BY <1>1, <1>2, <1>3, <1>4, <2>2, PubSent
<1>9. CASE ~ok
  <2>1. r # Integer(1)
    <3>1. r = Integer(0)
      BY <1>9 DEF Counted
    <3>2. Integer(0).int = 0 /\ Integer(1).int = 1
      BY DEF Integer
    <3> QED
      BY <3>1, <3>2
  <2>2. Publishing(x, f, K[x.n]) /\ inq' = inq /\ f = Head(buf'[c])
    BY <1>1, <1>2, <1>4, <1>7, <1>9, <2>1
  <2>3. cn.n <= x.n /\ x.n \in Nat
    BY <1>4
  <2> HIDE DEF x
  <2> QED
    BY <1>1, <1>2, <2>2, <2>3, PubMove
<1> QED
  BY <1>8, <1>9

\* What waits in a channel is messages.
LEMMA ChannelMessages ==
    ASSUME QueueInv, NEW c \in Conns
    PROVE  Messages(inq[c])
<1> DEFINE X == [by : Conns, n : Nat]
           t == inq[c]
<1>1. \A d \in X : IsMessage(d)
  BY DEF IsMessage
<1>2. t \in Seq(X)
  BY DEF QueueInv
<1> HIDE DEF X, t
<1>3. \A i \in DOMAIN t : t[i] \in X
  BY <1>2
<1>4. Messages(t)
  BY <1>1, <1>2, <1>3 DEF Messages, IsSeq
<1> QED
  BY <1>4 DEF t

LEMMA SeqInsert ==
    ASSUME NEW h, IsSeq(h), NEW e, NEW t, IsSeq(t), NEW u, IsSeq(u)
    PROVE  (h \o (<<e>> \o t)) \o u = h \o (<<e>> \o (t \o u))
<1> DEFINE w == <<e>>
           o == w \o t
<1>1. IsSeq(w)
  BY SeqOne
<1> HIDE DEF w
<1>2. IsSeq(o)
  BY <1>1, SeqConcat
<1>3. o \o u = w \o (t \o u)
  BY <1>1, SeqAssoc
<1> HIDE DEF o
<1>4. (h \o o) \o u = h \o (o \o u)
  BY <1>2, SeqAssoc
<1> QED
  BY <1>3, <1>4 DEF o, w

\* Connection c writes reply e and the messages t of its channel, in which u is left.
LEMMA PubWrites ==
    ASSUME ServerInv, TalkInv, PubInv, NEW c \in Conns, NEW e, ~IsMessage(e), NEW t, NEW u,
           Messages(t), Messages(u), inq[c] = t \o u, Write(c, <<e>> \o t), inq' = [inq EXCEPT ![c] = u],
           \A s \in Conns \ {c} : buf'[s] = buf[s],
           NEW x, conn' = [conn EXCEPT ![c] = x], x.at \in {"read", "closed"}, x.n \in Nat, conn[c].n <= x.n,
           e.pub => e.r = Integer(Counts(Streams, c)[e.n])
    PROVE  PubInv'
<1> DEFINE h == History(c)
           g == History(c)'
           o == <<e>> \o t
           v == t \o u
<1>1. ConnInv /\ IsSeq(out[c]) /\ IsSeq(sent[c]) /\ IsSeq(h) /\ IsSeq(t) /\ IsSeq(u)
  BY HistorySeq DEF ServerInv, TalkInv, Messages
<1>2. IsSeq(o) /\ IsSeq(<<e>>) /\ IsSeq(v)
  BY <1>1, SeqOne, SeqConcat
<1>3. g = h \o o /\ \A s \in Conns \ {c} : out'[s] = out[s] /\ sent'[s] = sent[s]
  <2>1. Write(c, o)
    OBVIOUS
  <2> HIDE DEF o
  <2> QED
    BY <1>1, <1>2, <2>1, HistoryWritten
<1>4. DOMAIN inq = Conns
  BY DEF ServerInv, QueueInv
<1>5. inq'[c] = u /\ \A s \in Conns \ {c} : inq'[s] = inq[s]
  BY <1>4
<1>6. ASSUME NEW s \in Conns \ {c} PROVE Stream(s)' = Stream(s) /\ History(s)' = History(s)
  BY <1>3, <1>5 DEF Stream, History
<1>7. Stream(c) = h \o v
  BY DEF Stream
<1>8. Stream(c)' = g \o u
  BY <1>5 DEF Stream
<1> HIDE DEF h, g
<1>9. Stream(c)' = h \o (<<e>> \o v)
  <2>1. (h \o (<<e>> \o t)) \o u = h \o (<<e>> \o (t \o u))
    BY <1>1, SeqInsert
  <2> QED
    BY <1>3, <1>8, <2>1
<1>10. Inserted(Stream(c)', Stream(c), Len(h), e)
  <2> HIDE DEF v
  <2>1. Inserted(h \o (<<e>> \o v), h \o v, Len(h), e)
    BY <1>1, <1>2, InsertedOK
  <2> QED
    BY <1>7, <1>9, <2>1
<1>11. RepliesIn(g) = RepliesIn(h) \union {e}
  <2>1. Written(g, h, e, t)
    BY <1>3 DEF Written
  <2> QED
    BY <1>1, <2>1, ReplyWritten
<1> QED
  BY <1>1, <1>6, <1>10, <1>11, PubWrote DEF g, h

LEMMA PubRespond ==
    ASSUME ServerInv, TalkInv, PubInv, NEW c \in Conns, Respond(c)
    PROVE  PubInv'
<1> DEFINE cn == conn[c]
           f == Head(buf[c])
           e == Reply(cn, f, cn.reply)
           t == inq[c]
           x == IF f[1] = "QUIT" THEN Closed(cn, "quit") ELSE [cn EXCEPT !.at = "read"]
<1>1. /\ ConnInv /\ Write(c, <<e>> \o t) /\ conn' = [conn EXCEPT ![c] = x] /\ cn.at = "reply" /\ CnOK(cn)
      /\ buf' = [buf EXCEPT ![c] = Tail(@)] /\ inq' = [inq EXCEPT ![c] = <<>>]
  BY DEF Respond, ServerInv, ConnInv
<1>2. Messages(t) /\ Messages(<<>>)
  BY ChannelMessages, SeqEmpty DEF ServerInv, Messages
<1>3. x.n = cn.n /\ x.at \in {"read", "closed"} /\ cn.n \in Nat
  BY <1>1 DEF CnOK, Fields, Closed
<1>4. ~IsMessage(e) /\ e.n = cn.n /\ e.r = cn.reply /\ e.pub = (f[1] = "PUBLISH")
  BY ReplyParts
<1>5. \A d \in Conns \ {c} : buf'[d] = buf[d]
  BY <1>1 DEF ConnInv
<1>6. Publishing(cn, f, Counts(Streams, c)[cn.n])
  BY DEF PubInv, PubOK
<1> HIDE DEF x, e, f
<1>7. e.pub => e.r = Integer(Counts(Streams, c)[e.n])
  BY <1>1, <1>4, <1>6 DEF Publishing
<1>8. t = t \o <<>>
  BY <1>2, SeqUnit DEF Messages
<1>9. x.n \in Nat /\ cn.n <= x.n
  BY <1>3
<1> QED
  BY <1>1, <1>2, <1>3, <1>4, <1>5, <1>7, <1>8, <1>9, PubWrites

\* The command that is taken up has sent nothing yet.
LEMMA NoneSent ==
    ASSUME ConnInv, PubInv, NEW c \in Conns
    PROVE  Counts(Streams, c)[conn[c].n + 1] = 0
<1> DEFINE S == Streams
           n == conn[c].n
           m == Message(c, n + 1)
           A == CopySet(S, m)
<1>1. n \in Nat /\ StreamsOK(S, Numbers) /\ Numbers[c] = n
  BY StreamParts DEF PubInv, ConnInv, CnOK
<1>2. IsMessage(m) /\ m.by = c /\ m.n = n + 1
  BY DEF Message, IsMessage
<1>3. Counts(S, c)[n + 1] = Cardinality(A)
  BY <1>1 DEF Counts
<1> HIDE DEF S, n, m
<1>4. A = {}
  <2> SUFFICES ASSUME NEW z \in A PROVE FALSE
    OBVIOUS
  <2>1. z[1] \in Conns /\ z[2] \in DOMAIN S[z[1]] /\ S[z[1]][z[2]] = m
    BY InCopySet
  <2>2. n + 1 <= n
    BY <1>1, <1>2, <2>1 DEF StreamsOK, Dated
  <2> QED
    BY <1>1, <2>2
<1> HIDE DEF A
<1> QED
  BY <1>3, <1>4, FS_EmptySet DEF S, n

\* A bad command is answered at once; nothing leaves the channel.
LEMMA PubUnknown ==
    ASSUME ServerInv, TalkInv, PubInv, NEW c \in Conns, NEW e, ~IsMessage(e), ~e.pub, Write(c, <<e>>),
           UNCHANGED inq, \A s \in Conns \ {c} : buf'[s] = buf[s],
           NEW x, conn' = [conn EXCEPT ![c] = x], x.at \in {"read", "closed"}, x.n \in Nat, conn[c].n <= x.n
    PROVE  PubInv'
<1> DEFINE t == <<>>
           u == inq[c]
<1>1. Messages(u) /\ Messages(t)
  BY ChannelMessages, SeqEmpty DEF ServerInv, Messages
<1>2. u = t \o u
  BY <1>1, ConcatEmptySeq DEF Messages, IsSeq
<1>3. <<e>> \o t = <<e>>
  BY SeqOne, SeqUnit
<1>4. inq' = [inq EXCEPT ![c] = u]
  BY DEF ServerInv, QueueInv
<1>5. Write(c, <<e>> \o t)
  BY <1>3
<1> HIDE DEF t
<1> QED
  BY <1>1, <1>2, <1>4, <1>5, PubWrites

LEMMA PubTake ==
    ASSUME ServerInv, TalkInv, PubInv, NEW c \in Conns, Take(c)
    PROVE  PubInv'
<1> DEFINE f == Head(buf[c])
           old == conn[c]
           cn == [old EXCEPT !.n = @ + 1]
           K == Counts(Streams, c)
           r == Error("unknown command")
           e == Reply(cn, f, r)
<1>1. ConnInv /\ CnOK(old) /\ old.at = "read" /\ buf[c] # <<>> /\ UNCHANGED inq /\ subs \in [Channels -> Seq(Conns)]
  BY DEF Take, ServerInv, ConnInv, StoreInv
<1>2. CnOK(cn) /\ cn.at = "read" /\ f \in Frames
  BY <1>1, TakesFrame
<1>3. cn.n = old.n + 1 /\ old.n \in Nat
  BY <1>1 DEF CnOK, Fields
<1>4. K[cn.n] = 0
  BY <1>1, <1>3, NoneSent
<1>5. \/ /\ f[1] # "PUBLISH" /\ UNCHANGED <<out, sent, buf>>
         /\ \/ conn' = [conn EXCEPT ![c] = Closed(cn, "error")]
            \/ conn' = [conn EXCEPT ![c] = Answered(cn, Array(<<Integer(1)>>))]
            \/ conn' = [conn EXCEPT ![c] = Dispatch(cn, f)]
      \/ /\ f[1] = "UNKNOWN" /\ conn' = [conn EXCEPT ![c] = cn]
         /\ Write(c, <<e>>) /\ buf' = [buf EXCEPT ![c] = Tail(@)]
      \/ /\ f[1] = "PUBLISH" /\ UNCHANGED <<out, sent, buf>>
         /\ conn' = [conn EXCEPT ![c] = Answered(cn, Integer(0))]
      \/ /\ f[1] = "PUBLISH" /\ UNCHANGED <<out, sent, buf>>
         /\ Sends(f) # <<>> /\ conn' = [conn EXCEPT ![c] = [Start(cn, f) EXCEPT !.work = Sends(f)]]
  BY DEF Take
<1>6. ASSUME NEW x, conn' = [conn EXCEPT ![c] = x], UNCHANGED <<out, sent, buf>>, x.n = cn.n, Publishing(x, f, 0)
      PROVE  PubInv'
  <2>1. x.n \in Nat /\ old.n <= x.n /\ Publishing(x, f, K[x.n]) /\ f = Head(buf'[c])
    BY <1>3, <1>4, <1>6
  <2> HIDE DEF f, cn
  <2> QED
    BY <1>1, <1>6, <2>1, PubMove
<1>7. DOMAIN cn = Fields
  BY <1>2 DEF CnOK
<1> HIDE DEF f, cn, r
<1>8. ~IsMessage(e) /\ (f[1] = "UNKNOWN" => e.pub = FALSE)
  BY DEF Reply, IsMessage
<1> HIDE DEF e
<1>9. CASE /\ f[1] # "PUBLISH" /\ UNCHANGED <<out, sent, buf>>
           /\ \/ conn' = [conn EXCEPT ![c] = Closed(cn, "error")]
              \/ conn' = [conn EXCEPT ![c] = Answered(cn, Array(<<Integer(1)>>))]
              \/ conn' = [conn EXCEPT ![c] = Dispatch(cn, f)]
  <2>1. ASSUME NEW x, conn' = [conn EXCEPT ![c] = x], x.n = cn.n PROVE PubInv'
    <3>1. Publishing(x, f, 0)
      BY <1>9 DEF Publishing
    <3> QED
      BY <1>6, <1>9, <2>1, <3>1
  <2>2. CASE conn' = [conn EXCEPT ![c] = Closed(cn, "error")]
    <3>1. Closed(cn, "error").n = cn.n
      BY <1>7 DEF Closed, Fields
    <3> QED
      BY <2>1, <2>2, <3>1
  <2>3. CASE conn' = [conn EXCEPT ![c] = Answered(cn, Array(<<Integer(1)>>))]
    <3> DEFINE a == Array(<<Integer(1)>>)
    <3>1. conn' = [conn EXCEPT ![c] = Answered(cn, a)]
      BY <2>3
    <3> HIDE DEF a
    <3>2. Answered(cn, a).n = cn.n
      BY <1>7 DEF Answered, Fields
    <3> QED
      BY <2>1, <3>1, <3>2
  <2>4. CASE conn' = [conn EXCEPT ![c] = Dispatch(cn, f)]
    <3>1. Dispatch(cn, f).n = cn.n
      BY <1>2, DispatchOK DEF Went
    <3> QED
      BY <2>1, <2>4, <3>1
  <2> QED
    BY <1>9, <2>2, <2>3, <2>4
<1>10. CASE /\ f[1] = "UNKNOWN" /\ conn' = [conn EXCEPT ![c] = cn]
            /\ Write(c, <<e>>) /\ buf' = [buf EXCEPT ![c] = Tail(@)]
  <2>1. \A s \in Conns \ {c} : buf'[s] = buf[s]
    BY <1>1, <1>10 DEF ConnInv
  <2>2. cn.n \in Nat /\ old.n <= cn.n /\ ~e.pub
    BY <1>3, <1>8, <1>10
  <2> QED
    BY <1>1, <1>2, <1>8, <1>10, <2>1, <2>2, PubUnknown
<1>11. CASE /\ f[1] = "PUBLISH" /\ UNCHANGED <<out, sent, buf>>
            /\ conn' = [conn EXCEPT ![c] = Answered(cn, Integer(0))]
  <2> DEFINE x == Answered(cn, Integer(0))
  <2>1. x.at = "reply" /\ x.n = cn.n /\ x.reply = Integer(0)
    BY <1>7 DEF Answered, Fields
  <2>2. conn' = [conn EXCEPT ![c] = x]
    BY <1>11
  <2> HIDE DEF x
  <2>3. Publishing(x, f, 0)
    BY <2>1 DEF Publishing
  <2> QED
    BY <1>6, <1>11, <2>1, <2>2, <2>3
<1>12. CASE /\ f[1] = "PUBLISH" /\ UNCHANGED <<out, sent, buf>>
            /\ Sends(f) # <<>> /\ conn' = [conn EXCEPT ![c] = [Start(cn, f) EXCEPT !.work = Sends(f)]]
  <2> DEFINE x == [Start(cn, f) EXCEPT !.work = Sends(f)]
  <2>1. x.at = "run" /\ x.n = cn.n /\ x.work = Sends(f) /\ x.got = <<>>
    BY <1>7 DEF Start, Fields
  <2>2. conn' = [conn EXCEPT ![c] = x]
    BY <1>12
  <2> HIDE DEF x
  <2>3. \A i \in DOMAIN x.work : x.work[i].do[1] = "send"
    <3>1. WorkOK(Sends(f), f, TRUE)
      BY <1>1, <1>2, <1>12, SendsOK
    <3> QED
      BY <2>1, <3>1 DEF WorkOK
  <2>4. Cardinality({i \in DOMAIN x.got : x.got[i] = Integer(1)}) = 0
    <3>1. {i \in DOMAIN x.got : x.got[i] = Integer(1)} = {}
      BY <2>1
    <3> QED
      BY <3>1, FS_EmptySet
  <2>5. Publishing(x, f, 0)
    BY <2>1, <2>3, <2>4, SeqEmpty DEF Publishing
  <2> QED
    BY <1>6, <1>12, <2>1, <2>2, <2>5
<1> QED
  BY <1>5, <1>9, <1>10, <1>11, <1>12

LEMMA PubFill ==
    ASSUME ServerInv, PubInv, NEW c \in Conns, Fill(c)
    PROVE  PubInv'
<1>1. conn[c].at = "read" /\ UNCHANGED <<conn, out, sent, inq>> /\ \E b : buf' = [buf EXCEPT ![c] = b]
  BY DEF Fill
<1>2. \A e \in Conns \ {c} : buf'[e] = buf[e]
  BY <1>1 DEF ServerInv, ConnInv
<1>3. /\ Streams' = Streams /\ Numbers' = Numbers
      /\ \A e \in Conns : History(e)' = History(e) /\ conn'[e] = conn[e]
  BY <1>1 DEF Streams, Numbers, Stream, History
<1>4. ASSUME NEW e \in Conns
      PROVE  PubOK(RepliesIn(History(e)'), conn'[e], Head(buf'[e]), Counts(Streams', e))
  <2>1. PubOK(RepliesIn(History(e)), conn[e], Head(buf[e]), Counts(Streams, e))
    BY DEF PubInv
  <2>2. conn[e].at = "read" \/ buf'[e] = buf[e]
    BY <1>1, <1>2
  <2>3. PubOK(RepliesIn(History(e)), conn[e], Head(buf'[e]), Counts(Streams, e))
    BY <2>1, <2>2 DEF PubOK, Publishing
  <2> QED
    BY <1>3, <2>3
<1>5. StreamsOK(Streams', Numbers') /\ FiniteCopies(Streams')
  BY <1>3 DEF PubInv
<1> QED
  BY <1>4, <1>5 DEF PubInv

LEMMA PubHangup ==
    ASSUME ServerInv, PubInv, NEW c \in Conns, Hangup(c)
    PROVE  PubInv'
<1> DEFINE x == Closed(conn[c], IF half[c] THEN "error" ELSE "eof")
           K == Counts(Streams, c)
<1>1. ConnInv /\ CnOK(conn[c]) /\ conn' = [conn EXCEPT ![c] = x] /\ UNCHANGED <<buf, out, sent, inq>>
  BY DEF Hangup, input, ServerInv, ConnInv
<1>2. x.at = "closed" /\ x.n = conn[c].n /\ conn[c].n \in Nat
  BY <1>1 DEF CnOK, Fields, Closed
<1> HIDE DEF x
<1>3. Publishing(x, Head(buf'[c]), K[x.n])
  BY <1>2 DEF Publishing
<1>4. x.n \in Nat /\ conn[c].n <= x.n
  BY <1>2
<1> QED
  BY <1>1, <1>3, <1>4, PubMove

LEMMA PubKept ==
    ASSUME ServerInv, TalkInv, PubInv, NEW c \in Conns, Serve(c) \/ Client(c)
    PROVE  PubInv'
<1>1. DOMAIN conn[c] = Fields
  BY DEF ServerInv, ConnInv, CnOK
<1>2. ASSUME NEW what, Doing(c, what), what # "send", NEW r, NEW rest,
             conn' = [conn EXCEPT ![c] = Proceed(conn[c], r, rest)], UNCHANGED <<buf, out, sent, inq>>
      PROVE  PubInv'
  BY <1>1, <1>2, PubItem
<1>3. CASE Take(c)
  BY <1>3, PubTake
<1>4. CASE Respond(c)
  BY <1>4, PubRespond
<1>5. CASE EnterScript(c)
  <2> DEFINE y == [conn[c] EXCEPT !.held = conn[c].db]
  <2>1. Doing(c, "enter") /\ UNCHANGED <<buf, out, sent, inq>>
    BY <1>5 DEF EnterScript, input
  <2>2. DOMAIN y = Fields /\ y.n = conn[c].n
    BY <1>1 DEF Fields
  <2>3. PICK r, rest : conn' = [conn EXCEPT ![c] = Proceed(y, r, rest)]
    BY <1>5 DEF EnterScript
  <2> HIDE DEF y
  <2> QED
    BY <2>1, <2>2, <2>3, PubItem
<1>6. CASE DbCall(c)
  <2>1. PICK what \in {"get", "put", "incr", "del"} :
          Doing(c, what) /\ \E r, rest : conn' = [conn EXCEPT ![c] = Proceed(conn[c], r, rest)]
    BY <1>6 DEF DbCall
  <2>2. what # "send"
    BY <2>1
  <2> QED
    BY <1>2, <1>6, <2>1, <2>2 DEF DbCall, input
<1>7. CASE FlushDb(c)
  BY <1>2, <1>7 DEF FlushDb, input
<1>8. CASE LogCommand(c)
  BY <1>2, <1>8 DEF LogCommand, input
<1>9. CASE NoDb(c)
  <2>1. UNCHANGED <<buf, out, sent, inq>>
    BY <1>9 DEF NoDb, input
  <2>2. CASE Doing(c, "nop") /\ conn' = [conn EXCEPT ![c] = Proceed(@, Simple("PONG"), Tail(@.work))]
    BY <1>2, <2>1, <2>2
  <2>3. CASE /\ Doing(c, "select")
             /\ LET ok == Arg(c, 2) \in Dbs
                    r  == IF ok THEN Simple("OK") ELSE Error("invalid DB index") IN
                conn' = [conn EXCEPT ![c] =
                          Proceed(IF ok THEN [@ EXCEPT !.db = Arg(c, 2)] ELSE @, r, Rest(c, r))]
    <3> DEFINE d == Arg(c, 2)
               ok == d \in Dbs
               r == IF ok THEN Simple("OK") ELSE Error("invalid DB index")
               rest == Rest(c, r)
               y == IF ok THEN [conn[c] EXCEPT !.db = d] ELSE conn[c]
    <3>1. conn' = [conn EXCEPT ![c] = Proceed(y, r, rest)]
      BY <2>3
    <3> HIDE DEF d, r, rest
    <3>2. DOMAIN y = Fields /\ y.n = conn[c].n
      BY <1>1 DEF Fields
    <3> HIDE DEF y
    <3> QED
      BY <2>1, <2>3, <3>1, <3>2, PubItem
  <2> QED
    BY <1>9, <2>2, <2>3 DEF NoDb
<1>10. CASE ScriptCache(c)
  <2>1. PICK what \in {"load", "forget", "lookup"} :
          Doing(c, what) /\ \E r, rest : conn' = [conn EXCEPT ![c] = Proceed(conn[c], r, rest)]
    BY <1>10 DEF ScriptCache
  <2>2. what # "send"
    BY <2>1
  <2> QED
    BY <1>2, <1>10, <2>1, <2>2 DEF ScriptCache, input
<1>11. CASE Send(c)
  BY <1>11, PubSend
<1>12. CASE Fill(c)
  BY <1>12, PubFill
<1>13. CASE Hangup(c)
  BY <1>13, PubHangup
<1> QED
  BY <1>3, <1>4, <1>5, <1>6, <1>7, <1>8, <1>9, <1>10, <1>11, <1>12, <1>13 DEF Serve, Client

LEMMA PubInit == Init => PubInv
<1> SUFFICES ASSUME Init PROVE PubInv
  OBVIOUS
<1> DEFINE S == Streams
<1>1. \A s \in Conns : History(s) = <<>> /\ S[s] = <<>> /\ conn[s].at = "read"
  <2> TAKE s \in Conns
  <2>1. out[s] = <<>> /\ sent[s] = <<>> /\ inq[s] = <<>> /\ conn[s] = Idle
    BY DEF Init
  <2>2. History(s) = <<>>
    BY <2>1 DEF History
  <2>3. Stream(s) = <<>>
    BY <2>1, <2>2 DEF Stream
  <2>4. Idle.at = "read"
    BY DEF Idle
  <2> HIDE DEF S
  <2>5. S[s] = Stream(s)
    BY StreamParts DEF S
  <2> QED
    BY <2>1, <2>2, <2>3, <2>4, <2>5
<1> HIDE DEF S
<1>2. StreamsOK(S, Numbers)
  BY <1>1, SeqEmpty DEF StreamsOK, InOrder, Dated
<1>3. \A m : CopySet(S, m) = {}
  BY <1>1 DEF CopySet
<1>4. FiniteCopies(S)
  BY <1>3, FS_EmptySet DEF FiniteCopies
<1>5. RepliesIn(<<>>) = {}
  BY DEF AnswersIn, RepliesIn
<1>6. \A p \in Conns : PubOK(RepliesIn(History(p)), conn[p], Head(buf[p]), Counts(S, p))
  BY <1>1, <1>5 DEF PubOK, Publishing
<1> QED
  BY <1>2, <1>4, <1>6 DEF PubInv, S

LEMMA PubInvariant == Spec => []PubInv
<1>1. ServerInv /\ TalkInv /\ PubInv /\ [Next]_vars => PubInv'
  <2> SUFFICES ASSUME ServerInv, TalkInv, PubInv, [Next]_vars PROVE PubInv'
    OBVIOUS
  <2>1. CASE Next
    BY <2>1, PubKept DEF Next
  <2>2. CASE UNCHANGED vars
    BY <2>2 DEF vars, PubInv, Streams, Numbers, Stream, History
  <2> QED
    BY <2>1, <2>2
<1> QED
  BY <1>1, PubInit, ServerInvariant, TalkInvariant, PTL DEF Spec

\* However publishers and subscribers interleave, with sends outside the lock of
\* the registry and channels that are full or gone: a subscriber has the messages
\* of a publisher in the order published, and PUBLISH answers how many copies of
\* its message entered a channel.
THEOREM PublishCounted == Spec => []PublishKept
<1>1. TalkInv /\ PubInv => PublishKept
  <2> SUFFICES ASSUME TalkInv, PubInv PROVE PublishKept
    OBVIOUS
  <2>1. \A s \in Conns : InOrder(Stream(s))
    BY StreamParts DEF PubInv, StreamsOK
  <2>2. ASSUME NEW p \in Conns, NEW e \in Replies(p), e.pub
        PROVE  e.r = Integer(Cardinality(Copies(p, e.n)))
    <3> DEFINE R == RepliesIn(History(p))
    <3>1. e \in R
      BY DEF Replies, Answers, RepliesIn, AnswersIn
    <3>2. e.n \in Nat
      <4>1. PICK m \in {conn[p].n - 1, conn[p].n} : {d.n : d \in R} = 1..m
        BY HistorySeq DEF TalkOK, Numbered
      <4>2. e.n \in {d.n : d \in R}
        BY <3>1
      <4>3. e.n \in 1..m
        BY <4>1, <4>2
      <4> HIDE DEF R
      <4> QED
        BY <4>3
    <3>3. e.r = Integer(Counts(Streams, p)[e.n])
      BY <2>2, <3>1 DEF PubInv, PubOK
    <3>4. Counts(Streams, p)[e.n] = Cardinality(CopySet(Streams, Message(p, e.n)))
      BY <3>2 DEF Counts
    <3>5. CopySet(Streams, Message(p, e.n)) = Copies(p, e.n)
      BY StreamParts DEF CopySet, Copies, CopiesFor
    <3> QED
      BY <3>3, <3>4, <3>5
  <2> QED
    BY <2>1, <2>2 DEF PublishKept
<1> QED
  BY <1>1, PubInvariant, TalkInvariant, PTL
=============================================================================
