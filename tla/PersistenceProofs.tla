------------------------- MODULE PersistenceProofs -------------------------
(***************************************************************************)
(* For any number of connections, keys, writes, SAVEs and stops, with any  *)
(* channel and batch size, with and without disk errors: the AOF loses and *)
(* repeats nothing but whole batches and keeps every order it is given, a  *)
(* snapshot is one saver's whole copy, and it never takes a key back.      *)
(***************************************************************************)
EXTENDS Persistence, SequenceTheorems, TLAPS

----------------------------------------------------------------------------
(* What no step of one part does to the state of another.                  *)

\* A saver and the shutdown task leave the store and the log alone.
LEMMA SaverFrame ==
    ASSUME NEW s \in Savers, StartSave(s) \/ Saver(s)
    PROVE  /\ UNCHANGED <<up, mem, entry, queue, batch, worker, aof, writes, sent, dropped, loaded>>
           /\ up
  BY DEF StartSave, Saver, CopyKey, BeginSave, BeginFails, Upsert, DeleteStale, SnapshotFails,
         CommitSave, CommitFails, Finish, durable, counters, history

\* The AOF worker leaves the store, the clients and the savers alone.
LEMMA WorkerFrame ==
    ASSUME AofWorker
    PROVE  /\ UNCHANGED <<up, mem, pc, entry, image, at, txn, work, kv, writes, sent, saved, commits, base, loaded>>
           /\ up
  BY DEF AofWorker, Receive, CloseBatch, InsertBatch, CommitBatch, FlushFails, durable, counters, history

\* A client that logs a write touches only its own entry and the channel.
LEMMA ClientFrame ==
    ASSUME NEW c \in Clients, Send(c) \/ SendFails(c)
    PROVE  /\ UNCHANGED <<up, mem, image, at, batch, worker, txn, work, lock, kv, aof, writes, dropped,
                          saved, commits, base, loaded>>
           /\ pc' = [pc EXCEPT ![c] = "idle"] /\ entry' = [entry EXCEPT ![c] = None]
           /\ up /\ pc[c] = "log"
  BY DEF Send, SendFails, Goto, durable, counters, history

----------------------------------------------------------------------------
(* Types, with what the type invariant needs to be inductive.              *)

Pending == [by : Clients, key : Keys, n : Nat]

\* The variables that TypeOK leaves out.
OtherTypes ==
    /\ entry \in [Clients -> Pending \cup {None}]
    /\ writes \in Nat /\ sent \in Nat /\ commits \in Nat
    /\ base \in [Savers -> Nat] /\ saved \in Store

\* Where a task is says which write it holds, which key it copies next, and
\* whether the worker has a batch.
Placed ==
    /\ \A c \in Clients : pc[c] = "log" => entry[c] \in Pending /\ entry[c].by = c
    /\ \A s \in Savers : pc[s] \in {"idle", "log", "exit"} => at[s] = 1
    /\ \A s \in Savers : pc[s] = "copy" => at[s] \in Keys
    /\ worker \in {"recv", "dead"} => batch = <<>>
    /\ ~up => worker = "dead" /\ \A s \in Savers : pc[s] = "idle"

Typed == TypeOK /\ OtherTypes /\ Placed

LEMMA ConstFacts ==
    /\ Keys \subseteq Int /\ 1 \in Keys /\ NumKeys \in Keys
    /\ Blank \in Store
    /\ Clients \subseteq Savers /\ Shut \in Savers /\ Shut \notin Clients /\ None \notin Savers
    /\ 1 \in 1 .. NumKeys + 1
  BY PersistenceAssumption DEF Keys, Blank, Store, Savers

\* An entry takes its place in the channel.
LEMMA NumberedType ==
    ASSUME NEW e \in Pending, NEW i \in Nat
    PROVE  /\ Numbered(e, i) \in LogEntries
           /\ Numbered(e, i).by = e.by /\ Numbered(e, i).key = e.key
           /\ Numbered(e, i).n = e.n /\ Numbered(e, i).seq = i
  BY DEF Numbered, LogEntries, Pending

LEMMA InitTyped == Init => Typed
<1> SUFFICES ASSUME Init PROVE Typed
  OBVIOUS
<1> USE ConstFacts DEF Init, Started
<1>1. TypeOK
  BY PersistenceAssumption DEF TypeOK, Steps
<1>2. OtherTypes
  BY DEF OtherTypes
<1>3. Placed
  BY DEF Placed
<1> QED
  BY <1>1, <1>2, <1>3 DEF Typed

LEMMA TypedApply ==
    ASSUME Typed, NEW c \in Clients, NEW k \in Keys, NEW del \in BOOLEAN, NEW skip \in BOOLEAN,
           Apply(c, k, del, skip)
    PROVE  Typed'
<1> USE ConstFacts DEF Typed, Apply, Goto, durable, history
<1>1. writes' \in Nat /\ -writes' \in Int
  BY DEF OtherTypes
<1>2. mem' \in Store
  BY <1>1 DEF TypeOK, Store
<1>3. pc' \in [Savers -> Steps]
  BY DEF TypeOK, Steps
<1>4. TypeOK'
  BY <1>2, <1>3 DEF TypeOK
<1>5. [by |-> c, key |-> k, n |-> writes'] \in Pending
  BY <1>1 DEF Pending
<1>6. OtherTypes'
  BY <1>1, <1>5 DEF OtherTypes
<1>7. Placed'
  <2>1. CASE pc' = [pc EXCEPT ![c] = "log"] /\ entry' = [entry EXCEPT ![c] = [by |-> c, key |-> k, n |-> writes']]
    <3>1. entry'[c] \in Pending /\ entry'[c].by = c
      BY <1>5, <2>1 DEF OtherTypes
    <3>2. \A s \in Savers \ {c} : pc'[s] = pc[s]
      BY <2>1 DEF TypeOK
    <3>3. \A d \in Clients \ {c} : entry'[d] = entry[d]
      BY <2>1 DEF OtherTypes
    <3>4. pc'[c] = "log" /\ pc[c] = "idle"
      BY <2>1 DEF TypeOK
    <3> QED
      BY <3>1, <3>2, <3>3, <3>4 DEF Placed
  <2>2. CASE UNCHANGED <<pc, entry>>
    BY <2>2 DEF Placed
  <2> QED
    BY <2>1, <2>2
<1> QED
  BY <1>4, <1>6, <1>7

LEMMA TypedLog ==
    ASSUME Typed, NEW c \in Clients, Send(c) \/ SendFails(c)
    PROVE  Typed'
<1> USE ConstFacts DEF Typed
<1>1. /\ UNCHANGED <<up, mem, image, at, batch, worker, txn, work, lock, kv, aof, writes, dropped,
                     saved, commits, base, loaded>>
      /\ pc' = [pc EXCEPT ![c] = "idle"] /\ entry' = [entry EXCEPT ![c] = None]
      /\ up /\ pc[c] = "log"
  BY ClientFrame
<1>2. entry[c] \in Pending
  BY <1>1 DEF Placed
<1>3. /\ sent' \in Nat /\ queue' \in Seq(LogEntries) /\ Len(queue') <= QueueCap
  <2>1. CASE Send(c)
    <3>1. sent' = sent + 1 /\ sent' \in Nat /\ Len(queue) < QueueCap /\ queue' = Append(queue, Numbered(entry[c], sent'))
      BY <2>1 DEF Send, OtherTypes
    <3>2. Numbered(entry[c], sent') \in LogEntries
      BY <1>2, <3>1, NumberedType
    <3>3. queue' \in Seq(LogEntries) /\ Len(queue') = Len(queue) + 1
      BY <3>1, <3>2, AppendProperties DEF TypeOK
    <3>4. Len(queue) \in Nat
      BY DEF TypeOK
    <3> QED
      BY <3>1, <3>3, <3>4, PersistenceAssumption
  <2>2. CASE SendFails(c)
    BY <2>2 DEF SendFails, history, TypeOK, OtherTypes
  <2> QED
    BY <2>1, <2>2
<1>4. TypeOK'
  BY <1>1, <1>3 DEF TypeOK, Steps
<1>5. OtherTypes'
  BY <1>1, <1>3 DEF OtherTypes
<1>6. Placed'
  <2>1. pc'[c] = "idle" /\ at[c] = 1
    BY <1>1 DEF Placed, TypeOK
  <2>2. \A s \in Savers \ {c} : pc'[s] = pc[s]
    BY <1>1 DEF TypeOK
  <2>3. \A d \in Clients \ {c} : entry'[d] = entry[d]
    BY <1>1 DEF OtherTypes
  <2> QED
    BY <1>1, <2>1, <2>2, <2>3 DEF Placed
<1> QED
  BY <1>4, <1>5, <1>6

LEMMA TypedWorker ==
    ASSUME Typed, AofWorker
    PROVE  Typed'
<1> USE PersistenceAssumption DEF Typed, durable, history
<1>1. /\ UNCHANGED <<up, mem, pc, entry, image, at, txn, work, kv, writes, sent, saved, commits, base, loaded>>
      /\ up
  BY WorkerFrame
<1>2. OtherTypes'
  BY <1>1 DEF OtherTypes
<1>3. SUFFICES /\ queue' \in Seq(LogEntries) /\ batch' \in Seq(LogEntries) /\ aof' \in Seq(LogEntries)
               /\ Len(queue') <= QueueCap /\ Len(batch') <= BatchMax
               /\ worker' \in {"recv", "fill", "insert", "commit"}
               /\ worker' = "recv" => batch' = <<>>
               /\ lock' \in {"save", "aof", None}
  BY <1>1, <1>2, <1>3 DEF TypeOK, Placed
<1>4. Len(queue) \in Nat /\ Len(batch) \in Nat
  BY DEF TypeOK
<1>5. CASE Receive
  <2>1. queue # <<>> /\ batch' = Append(batch, Head(queue)) /\ queue' = Tail(queue)
    BY <1>5 DEF Receive
  <2>2. Head(queue) \in LogEntries /\ queue' \in Seq(LogEntries) /\ Len(queue') = Len(queue) - 1
    BY <2>1, HeadTailProperties DEF TypeOK
  <2>3. batch' \in Seq(LogEntries) /\ Len(batch') = Len(batch) + 1
    BY <2>1, <2>2, AppendProperties DEF TypeOK
  <2>4. Len(batch) < BatchMax
    BY <1>5 DEF Receive, Placed
  <2> QED
    BY <1>4, <1>5, <2>2, <2>3, <2>4 DEF Receive, TypeOK
<1>6. CASE CloseBatch
  BY <1>6 DEF CloseBatch, TypeOK
<1>7. CASE InsertBatch
  BY <1>7 DEF InsertBatch, TypeOK
<1>8. CASE CommitBatch
  BY <1>4, <1>8 DEF CommitBatch, TypeOK
<1>9. CASE FlushFails
  BY <1>4, <1>9 DEF FlushFails, TypeOK
<1> QED
  BY <1>5, <1>6, <1>7, <1>8, <1>9 DEF AofWorker

LEMMA TypedSaver ==
    ASSUME Typed, NEW s \in Savers, StartSave(s) \/ Saver(s)
    PROVE  Typed'
<1> USE PersistenceAssumption, ConstFacts DEF Typed
<1>1. /\ UNCHANGED <<up, mem, entry, queue, batch, worker, aof, writes, sent, dropped, loaded>>
      /\ up
  BY SaverFrame
<1>2. image[s] \in Store /\ at[s] \in 1 .. NumKeys + 1 /\ pc[s] \in Steps /\ DOMAIN pc = Savers
  BY DEF TypeOK
<1>3. SUFFICES /\ pc' = [pc EXCEPT ![s] = pc'[s]] /\ pc'[s] \in Steps \ {"log"}
               /\ image' \in [Savers -> Store]
               /\ at' \in [Savers -> 1 .. NumKeys + 1] /\ at' = [at EXCEPT ![s] = at'[s]]
               /\ pc'[s] \in {"idle", "exit"} => at'[s] = 1
               /\ pc'[s] = "copy" => at'[s] \in Keys
               /\ kv' \in Store /\ work' \in Store /\ saved' \in Store
               /\ txn' \in Savers \cup {None} /\ lock' \in {"save", "aof", None}
               /\ commits' \in Nat /\ base' \in [Savers -> Nat]
  <2>1. \A u \in Savers \ {s} : pc'[u] = pc[u] /\ at'[u] = at[u]
    BY <1>3 DEF TypeOK
  <2>2. TypeOK'
    BY <1>1, <1>3 DEF TypeOK
  <2>3. OtherTypes'
    BY <1>1, <1>3 DEF OtherTypes
  <2>4. Placed'
    BY <1>1, <1>3, <2>1 DEF Placed
  <2> QED
    BY <2>2, <2>3, <2>4
<1>4. CASE StartSave(s)
  BY <1>2, <1>4 DEF StartSave, Goto, Steps, TypeOK, OtherTypes, Placed, durable
<1>5. CASE CopyKey(s)
  <2>1. at[s] \in Keys /\ at[s] \in Int
    BY <1>5 DEF CopyKey, Placed
  <2>2. /\ image' = [image EXCEPT ![s][at[s]] = mem[at[s]]]
        /\ at' = [at EXCEPT ![s] = @ + 1] /\ at'[s] = at[s] + 1
        /\ pc' = [pc EXCEPT ![s] = IF at[s] = NumKeys THEN "begin" ELSE "copy"]
    BY <1>5 DEF CopyKey, Goto, TypeOK
  <2>3. mem[at[s]] \in Int
    BY <2>1 DEF TypeOK, Store
  <2>4. image' \in [Savers -> Store]
    BY <2>1, <2>2, <2>3 DEF TypeOK, Store
  <2>5. at[s] + 1 \in 1 .. NumKeys + 1 /\ (at[s] # NumKeys => at[s] + 1 \in Keys)
    BY <2>1 DEF Keys
  <2>6. at' \in [Savers -> 1 .. NumKeys + 1]
    BY <2>2, <2>5 DEF TypeOK
  <2>7. UNCHANGED <<kv, work, saved, txn, lock, commits, base>>
    BY <1>5 DEF CopyKey, durable, history
  <2> QED
    BY <1>2, <2>2, <2>4, <2>5, <2>6, <2>7 DEF Steps, TypeOK, OtherTypes
<1>6. ASSUME Finish(s)
      PROVE  /\ pc' = [pc EXCEPT ![s] = pc'[s]] /\ pc'[s] \in {"idle", "exit"}
             /\ image' \in [Savers -> Store]
             /\ at' \in [Savers -> 1 .. NumKeys + 1] /\ at' = [at EXCEPT ![s] = at'[s]] /\ at'[s] = 1
  BY <1>2, <1>6 DEF Finish, Goto, TypeOK
<1>7. CASE BeginSave(s)
  BY <1>2, <1>7 DEF BeginSave, Goto, Steps, TypeOK, OtherTypes, durable, history
<1>8. CASE BeginFails(s)
  BY <1>2, <1>6, <1>8 DEF BeginFails, Steps, TypeOK, OtherTypes, durable, history
<1>9. CASE Upsert(s)
  <2>1. work' \in Store
    BY <1>2, <1>9 DEF Upsert, TypeOK, Store
  <2> QED
    BY <1>2, <1>9, <2>1 DEF Upsert, TakeLock, Goto, Steps, TypeOK, OtherTypes, durable, history
<1>10. CASE DeleteStale(s)
  <2>1. work' \in Store
    BY <1>2, <1>10 DEF DeleteStale, TypeOK, Store
  <2> QED
    BY <1>2, <1>10, <2>1 DEF DeleteStale, TakeLock, Goto, Steps, TypeOK, OtherTypes, durable, history
<1>11. CASE SnapshotFails(s)
  BY <1>2, <1>6, <1>11 DEF SnapshotFails, Steps, TypeOK, OtherTypes, durable, history
<1>12. CASE CommitSave(s)
  <2>1. /\ kv' = work /\ saved' = image[s] /\ txn' = None /\ work' = Blank /\ base' = base
        /\ commits' = commits + 1 /\ lock' \in {None, lock} /\ Finish(s)
    BY <1>12 DEF CommitSave
  <2>2. commits' \in Nat
    BY <2>1 DEF OtherTypes
  <2> QED
    BY <1>2, <1>6, <2>1, <2>2 DEF Steps, TypeOK, OtherTypes
<1>13. CASE CommitFails(s)
  BY <1>2, <1>6, <1>13 DEF CommitFails, Steps, TypeOK, OtherTypes, durable, history
<1> QED
  BY <1>4, <1>5, <1>7, <1>8, <1>9, <1>10, <1>11, <1>12, <1>13 DEF Saver

LEMMA TypedHalt ==
    ASSUME Typed, Halt
    PROVE  Typed'
<1> USE ConstFacts, PersistenceAssumption DEF Typed, Halt, durable
<1>1. /\ pc' \in [Savers -> Steps] /\ image' \in [Savers -> Store]
      /\ at' \in [Savers -> 1 .. NumKeys + 1]
  BY DEF Steps
<1>2. /\ queue' \in Seq(LogEntries) /\ batch' \in Seq(LogEntries)
      /\ Len(queue') <= QueueCap /\ Len(batch') <= BatchMax
  OBVIOUS
<1>3. TypeOK'
  BY <1>1, <1>2 DEF TypeOK
<1>4. OtherTypes'
  BY DEF OtherTypes
<1>5. Placed'
  BY DEF Placed
<1> QED
  BY <1>3, <1>4, <1>5

LEMMA TypedRestart ==
    ASSUME Typed, Restart
    PROVE  Typed'
<1> USE DEF Typed
<1>1. PICK K : mem' = [k \in Keys |-> IF k \in K THEN kv[k] ELSE 0]
  BY DEF Restart
<1>2. mem' \in Store
  BY <1>1 DEF TypeOK, Store
<1>3. worker' \in {"recv", "dead"} /\ batch = <<>>
  BY DEF Restart, Started, Placed
<1>4. TypeOK' /\ OtherTypes'
  BY <1>2, <1>3 DEF Restart, TypeOK, OtherTypes, durable, counters, history
<1>5. Placed'
  BY <1>3 DEF Restart, Placed
<1> QED
  BY <1>4, <1>5

\* Types are preserved by every step of clients, worker, savers and process.
LEMMA TypedStep == Typed /\ [Next]_vars => Typed'
<1> SUFFICES ASSUME Typed, [Next]_vars PROVE Typed'
  OBVIOUS
<1>1. CASE UNCHANGED vars
  BY <1>1 DEF vars, volatile, durable, counters, history, Typed, TypeOK, OtherTypes, Placed
<1>2. CASE Next
  BY <1>2, TypedApply, TypedLog, TypedWorker, TypedSaver, TypedHalt, TypedRestart DEF Next, Exit, Crash
<1> QED
  BY <1>1, <1>2

----------------------------------------------------------------------------
(* The log.                                                                *)

\* Every pair of positions of t is one of s, in the same order.
Thinned(t, s) ==
    \A i, j \in DOMAIN t : \E x, y \in DOMAIN s :
        s[x] = t[i] /\ s[y] = t[j] /\ (i < j => x < y)

\* Three sequences one behind the other.
LEMMA ThreeParts ==
    ASSUME NEW a \in Seq(LogEntries), NEW b \in Seq(LogEntries), NEW q \in Seq(LogEntries)
    PROVE  /\ a \o b \o q \in Seq(LogEntries)
           /\ Len(a \o b \o q) = Len(a) + Len(b) + Len(q)
           /\ Len(a) \in Nat /\ Len(b) \in Nat /\ Len(q) \in Nat
           /\ \A i \in 1 .. Len(a) : (a \o b \o q)[i] = a[i]
           /\ \A i \in 1 .. Len(b) : (a \o b \o q)[Len(a) + i] = b[i]
           /\ \A i \in 1 .. Len(q) : (a \o b \o q)[Len(a) + Len(b) + i] = q[i]
<1>1. /\ a \o b \in Seq(LogEntries) /\ Len(a \o b) = Len(a) + Len(b)
      /\ \A i \in 1 .. Len(a) + Len(b) : (a \o b)[i] = IF i <= Len(a) THEN a[i] ELSE b[i - Len(a)]
  BY ConcatProperties
<1>2. /\ (a \o b) \o q \in Seq(LogEntries) /\ Len((a \o b) \o q) = Len(a \o b) + Len(q)
      /\ \A i \in 1 .. Len(a \o b) + Len(q) :
            ((a \o b) \o q)[i] = IF i <= Len(a \o b) THEN (a \o b)[i] ELSE q[i - Len(a \o b)]
  BY <1>1, ConcatProperties
<1>3. Len(a) \in Nat /\ Len(b) \in Nat /\ Len(q) \in Nat
  BY LenProperties
<1> QED
  BY <1>1, <1>2, <1>3

\* The middle part, or the last two, can be left out.
LEMMA ThinnedParts ==
    ASSUME NEW a \in Seq(LogEntries), NEW b \in Seq(LogEntries), NEW q \in Seq(LogEntries)
    PROVE  Thinned(a \o q, a \o b \o q) /\ Thinned(a, a \o b \o q)
<1> DEFINE s == a \o b \o q
<1>1. /\ s \in Seq(LogEntries) /\ Len(s) = Len(a) + Len(b) + Len(q)
      /\ Len(a) \in Nat /\ Len(b) \in Nat /\ Len(q) \in Nat
      /\ \A i \in 1 .. Len(a) : s[i] = a[i]
      /\ \A i \in 1 .. Len(q) : s[Len(a) + Len(b) + i] = q[i]
  BY ThreeParts
<1>2. /\ a \o q \in Seq(LogEntries) /\ Len(a \o q) = Len(a) + Len(q)
      /\ \A i \in 1 .. Len(a) + Len(q) : (a \o q)[i] = IF i <= Len(a) THEN a[i] ELSE q[i - Len(a)]
  BY ConcatProperties
<1>3. DOMAIN s = 1 .. Len(s) /\ DOMAIN (a \o q) = 1 .. Len(a) + Len(q) /\ DOMAIN a = 1 .. Len(a)
  BY <1>1, <1>2, LenProperties
<1> DEFINE to(i) == IF i <= Len(a) THEN i ELSE i + Len(b)
<1> HIDE DEF s
<1>4. ASSUME NEW i \in DOMAIN (a \o q) PROVE to(i) \in DOMAIN s /\ s[to(i)] = (a \o q)[i]
  <2>1. CASE i <= Len(a)
    BY <1>1, <1>2, <1>3, <2>1
  <2>2. CASE ~(i <= Len(a))
    <3>1. i - Len(a) \in 1 .. Len(q) /\ to(i) = Len(a) + Len(b) + (i - Len(a))
      BY <1>1, <1>3, <2>2
    <3> QED
      BY <1>1, <1>2, <1>3, <2>2, <3>1
  <2> QED
    BY <2>1, <2>2
<1>5. \A i, j \in DOMAIN (a \o q) : i < j => to(i) < to(j)
  BY <1>1, <1>3
<1>6. Thinned(a \o q, s)
  BY <1>4, <1>5 DEF Thinned
<1>7. Thinned(a, s)
  BY <1>1, <1>3 DEF Thinned
<1> QED
  BY <1>6, <1>7 DEF s

\* How the entries on their way change: not at all, by one at the end, or by the
\* loss of the worker's batch, with the channel when the process ends.
LEMMA PipelineStep ==
    ASSUME Typed, [Next]_vars
    PROVE  \/ UNCHANGED <<Pipeline, sent, dropped>>
           \/ \E c \in Clients :
                 /\ pc[c] = "log" /\ pc' = [pc EXCEPT ![c] = "idle"] /\ entry' = [entry EXCEPT ![c] = None]
                 /\ sent' = sent + 1 /\ dropped' = dropped /\ writes' = writes
                 /\ Pipeline' = Pipeline \o <<Numbered(entry[c], sent')>>
           \/ /\ Pipeline' = aof \o queue /\ sent' = sent
              /\ dropped' = dropped \cup Seqs(batch)
              /\ UNCHANGED <<pc, entry, writes>>
           \/ /\ Pipeline' = aof /\ sent' = sent
              /\ dropped' = dropped \cup Seqs(batch) \cup Seqs(queue)
              /\ pc' = [s \in Savers |-> "idle"] /\ writes' = writes
<1>0. queue \in Seq(LogEntries) /\ batch \in Seq(LogEntries) /\ aof \in Seq(LogEntries)
  BY DEF Typed, TypeOK
<1>1. CASE UNCHANGED vars
  BY <1>1 DEF vars, volatile, durable, history, Pipeline
<1>2. ASSUME NEW c \in Clients, NEW k \in Keys, NEW del \in BOOLEAN, NEW skip \in BOOLEAN,
             Apply(c, k, del, skip)
      PROVE  UNCHANGED <<Pipeline, sent, dropped>>
  BY <1>2 DEF Apply, durable, history, Pipeline
<1>3. ASSUME NEW c \in Clients, Send(c)
      PROVE  /\ pc[c] = "log" /\ pc' = [pc EXCEPT ![c] = "idle"] /\ entry' = [entry EXCEPT ![c] = None]
             /\ sent' = sent + 1 /\ dropped' = dropped /\ writes' = writes
             /\ Pipeline' = Pipeline \o <<Numbered(entry[c], sent')>>
  <2>1. /\ pc[c] = "log" /\ pc' = [pc EXCEPT ![c] = "idle"] /\ entry' = [entry EXCEPT ![c] = None]
        /\ sent' = sent + 1 /\ dropped' = dropped /\ aof' = aof /\ batch' = batch /\ writes' = writes
        /\ queue' = Append(queue, Numbered(entry[c], sent'))
    BY <1>3 DEF Send, Goto, durable, counters
  <2>2. Numbered(entry[c], sent') \in LogEntries
    <3>1. entry[c] \in Pending /\ sent' \in Nat
      BY <2>1 DEF Typed, Placed, OtherTypes
    <3> QED
      BY <3>1, NumberedType
  <2>3. queue' = queue \o <<Numbered(entry[c], sent')>> /\ <<Numbered(entry[c], sent')>> \in Seq(LogEntries)
    BY <1>0, <2>1, <2>2, AppendIsConcat
  <2>4. aof \o batch \in Seq(LogEntries)
    BY <1>0, ConcatProperties
  <2>5. (aof \o batch) \o (queue \o <<Numbered(entry[c], sent')>>)
          = ((aof \o batch) \o queue) \o <<Numbered(entry[c], sent')>>
    BY <1>0, <2>3, <2>4, ConcatAssociative
  <2> QED
    BY <2>1, <2>3, <2>5 DEF Pipeline
<1>4. ASSUME NEW c \in Clients, SendFails(c) PROVE UNCHANGED <<Pipeline, sent, dropped>>
  BY <1>4 DEF SendFails, durable, history, Pipeline
<1>5. ASSUME NEW s \in Savers, StartSave(s) \/ Saver(s) PROVE UNCHANGED <<Pipeline, sent, dropped>>
  BY <1>5, SaverFrame DEF Pipeline
<1>6. CASE Receive
  <2>1. /\ queue # <<>> /\ batch' = Append(batch, Head(queue)) /\ queue' = Tail(queue)
        /\ UNCHANGED <<aof, sent, dropped>>
    BY <1>6 DEF Receive, durable, history
  <2>2. Head(queue) \in LogEntries /\ Tail(queue) \in Seq(LogEntries)
    BY <1>0, <2>1, HeadTailProperties
  <2>3. batch' = batch \o <<Head(queue)>> /\ <<Head(queue)>> \in Seq(LogEntries)
    BY <1>0, <2>1, <2>2, AppendIsConcat
  <2>4. queue = <<Head(queue)>> \o Tail(queue)
    BY <1>0, <2>1
  <2>5. Pipeline' = Pipeline
    <3> DEFINE h == <<Head(queue)>>
               t == Tail(queue)
    <3>1. queue = h \o t /\ batch' = batch \o h /\ queue' = t /\ aof' = aof
      BY <2>1, <2>3, <2>4
    <3>2. h \in Seq(LogEntries) /\ t \in Seq(LogEntries)
      BY <2>2, <2>3
    <3> HIDE DEF h, t
    <3>3. aof \o (batch \o h) = (aof \o batch) \o h
      <4>1. aof \in Seq(LogEntries) /\ batch \in Seq(LogEntries) /\ h \in Seq(LogEntries)
        BY <1>0, <3>2
      <4> QED
        BY <4>1, ConcatAssociative
    <3>4. aof \o batch \in Seq(LogEntries)
      BY <1>0, ConcatProperties
    <3> DEFINE ab == aof \o batch
    <3> HIDE DEF ab
    <3>5. ab \in Seq(LogEntries)
      BY <3>4 DEF ab
    <3>6. (ab \o h) \o t = ab \o (h \o t)
      BY <3>2, <3>5, ConcatAssociative
    <3> QED
      BY <3>1, <3>3, <3>6 DEF Pipeline, ab
  <2> QED
    BY <2>1, <2>5
<1>7. CASE CloseBatch \/ InsertBatch
  BY <1>7 DEF CloseBatch, InsertBatch, durable, history, Pipeline
<1>8. CASE CommitBatch
  <2>1. aof' = aof \o batch /\ batch' = <<>> /\ UNCHANGED <<queue, sent, dropped>>
    BY <1>8 DEF CommitBatch, history
  <2>2. (aof \o batch) \o <<>> = aof \o batch
    BY <1>0, ConcatProperties, ConcatEmptySeq
  <2> QED
    BY <2>1, <2>2 DEF Pipeline
<1>9. CASE FlushFails
  <2>1. /\ aof' = aof /\ batch' = <<>> /\ UNCHANGED <<queue, sent, pc, entry, writes>>
        /\ dropped' = dropped \cup Seqs(batch)
    BY <1>9 DEF FlushFails, durable, counters
  <2>2. aof \o <<>> = aof
    BY <1>0, ConcatEmptySeq
  <2> QED
    BY <2>1, <2>2 DEF Pipeline
<1>10. CASE Halt
  <2>1. /\ aof' = aof /\ batch' = <<>> /\ queue' = <<>> /\ sent' = sent /\ writes' = writes
        /\ dropped' = dropped \cup Seqs(batch) \cup Seqs(queue)
        /\ pc' = [s \in Savers |-> "idle"]
    BY <1>10 DEF Halt, durable
  <2>2. (aof \o <<>>) \o <<>> = aof
    BY <1>0, ConcatEmptySeq
  <2> QED
    BY <2>1, <2>2 DEF Pipeline
<1>11. CASE Restart
  BY <1>11 DEF Restart, durable, history, Pipeline
<1> QED
  BY <1>1, <1>2, <1>3, <1>4, <1>5, <1>6, <1>7, <1>8, <1>9, <1>10, <1>11 DEF Next, AofWorker, Exit, Crash


\* The numbers of two parts are those of the whole.
LEMMA SeqsConcat ==
    ASSUME NEW s \in Seq(LogEntries), NEW t \in Seq(LogEntries)
    PROVE  Seqs(s \o t) = Seqs(s) \cup Seqs(t)
<1>1. /\ s \o t \in Seq(LogEntries) /\ Len(s \o t) = Len(s) + Len(t)
      /\ \A i \in 1 .. Len(s) + Len(t) : (s \o t)[i] = IF i <= Len(s) THEN s[i] ELSE t[i - Len(s)]
  BY ConcatProperties
<1>2. /\ DOMAIN s = 1 .. Len(s) /\ DOMAIN t = 1 .. Len(t) /\ DOMAIN (s \o t) = 1 .. Len(s) + Len(t)
      /\ Len(s) \in Nat /\ Len(t) \in Nat
  BY <1>1, LenProperties
<1>3. ASSUME NEW i \in DOMAIN s PROVE i \in DOMAIN (s \o t) /\ (s \o t)[i] = s[i]
  BY <1>1, <1>2
<1>4. ASSUME NEW i \in DOMAIN t PROVE Len(s) + i \in DOMAIN (s \o t) /\ (s \o t)[Len(s) + i] = t[i]
  BY <1>1, <1>2
<1>5. ASSUME NEW i \in DOMAIN (s \o t)
      PROVE  \/ i \in DOMAIN s /\ (s \o t)[i] = s[i]
             \/ i - Len(s) \in DOMAIN t /\ (s \o t)[i] = t[i - Len(s)]
  BY <1>1, <1>2
<1>6. Seqs(s) \subseteq Seqs(s \o t)
  BY <1>3, Zenon DEF Seqs
<1>7. Seqs(t) \subseteq Seqs(s \o t)
  BY <1>4, Zenon DEF Seqs
<1>8. Seqs(s \o t) \subseteq Seqs(s) \cup Seqs(t)
  BY <1>5, Zenon DEF Seqs
<1> QED
  BY <1>6, <1>7, <1>8

\* The order of the sends.
Ordered(s) == \A i, j \in DOMAIN s : i < j => s[i].seq < s[j].seq

\* In a sequence ordered by number the parts share no number.
LEMMA PartsDisjoint ==
    ASSUME NEW a \in Seq(LogEntries), NEW b \in Seq(LogEntries), NEW q \in Seq(LogEntries),
           Ordered(a \o b \o q)
    PROVE  /\ Seqs(a) \cap Seqs(b) = {} /\ Seqs(a) \cap Seqs(q) = {} /\ Seqs(b) \cap Seqs(q) = {}
           /\ Seqs(a \o b \o q) = Seqs(a) \cup Seqs(b) \cup Seqs(q)
           /\ Seqs(a \o q) = Seqs(a) \cup Seqs(q)
<1> DEFINE s == a \o b \o q
<1>1. /\ s \in Seq(LogEntries) /\ Len(s) = Len(a) + Len(b) + Len(q)
      /\ Len(a) \in Nat /\ Len(b) \in Nat /\ Len(q) \in Nat
      /\ \A i \in 1 .. Len(a) : s[i] = a[i]
      /\ \A i \in 1 .. Len(b) : s[Len(a) + i] = b[i]
      /\ \A i \in 1 .. Len(q) : s[Len(a) + Len(b) + i] = q[i]
  BY ThreeParts, Zenon
<1>2. /\ DOMAIN s = 1 .. Len(s)
      /\ DOMAIN a = 1 .. Len(a) /\ DOMAIN b = 1 .. Len(b) /\ DOMAIN q = 1 .. Len(q)
  BY <1>1, LenProperties
<1>3. \A i \in DOMAIN s : s[i].seq \in Nat
  <2>1. \A i \in DOMAIN s : s[i] \in LogEntries
    BY <1>1, <1>2, ElementOfSeq
  <2> QED
    BY <2>1 DEF LogEntries
<1> HIDE DEF s
<1>4. \A i, j \in DOMAIN s : i < j => s[i].seq # s[j].seq
  BY <1>3 DEF Ordered, s
<1>5. \A i \in DOMAIN a : i \in DOMAIN s /\ s[i] = a[i]
  BY <1>1, <1>2
<1>6. \A i \in DOMAIN b : Len(a) + i \in DOMAIN s /\ s[Len(a) + i] = b[i] /\ \A j \in DOMAIN a : j < Len(a) + i
  BY <1>1, <1>2
<1>7. \A i \in DOMAIN q : /\ Len(a) + Len(b) + i \in DOMAIN s /\ s[Len(a) + Len(b) + i] = q[i]
                          /\ \A j \in DOMAIN a : j < Len(a) + Len(b) + i
                          /\ \A j \in DOMAIN b : Len(a) + j < Len(a) + Len(b) + i
  BY <1>1, <1>2
<1>8. \A i \in DOMAIN a, j \in DOMAIN b : a[i].seq # b[j].seq
  BY <1>4, <1>5, <1>6
<1>9. \A i \in DOMAIN a, j \in DOMAIN q : a[i].seq # q[j].seq
  BY <1>4, <1>5, <1>7
<1>10. \A i \in DOMAIN b, j \in DOMAIN q : b[i].seq # q[j].seq
  BY <1>4, <1>6, <1>7
<1>11. a \o b \in Seq(LogEntries)
  BY ConcatProperties
<1> QED
  BY <1>8, <1>9, <1>10, <1>11, SeqsConcat DEF Seqs

LEMMA AofConservedStep ==
    ASSUME Typed, AofConserved, [Next]_vars
    PROVE  AofConserved'
<1>0. queue \in Seq(LogEntries) /\ batch \in Seq(LogEntries) /\ aof \in Seq(LogEntries) /\ sent \in Nat
  BY DEF Typed, TypeOK, OtherTypes
<1>1. /\ Pipeline \in Seq(LogEntries) /\ DOMAIN Pipeline = 1 .. Len(Pipeline) /\ Len(Pipeline) \in Nat
  BY <1>0, ThreeParts, LenProperties DEF Pipeline
<1>2. CASE UNCHANGED <<Pipeline, sent, dropped>>
  BY <1>2 DEF AofConserved
<1>3. ASSUME NEW c \in Clients, pc[c] = "log", sent' = sent + 1, dropped' = dropped,
             Pipeline' = Pipeline \o <<Numbered(entry[c], sent')>>
      PROVE  AofConserved'
  <2> DEFINE e == Numbered(entry[c], sent')
             P == Pipeline \o <<e>>
  <2>1. e \in LogEntries /\ e.seq = sent + 1
    <3>1. entry[c] \in Pending /\ sent' \in Nat
      BY <1>0, <1>3 DEF Typed, Placed
    <3> QED
      BY <1>3, <3>1, NumberedType
  <2> HIDE DEF e
  <2>2. <<e>> \in Seq(LogEntries) /\ Len(<<e>>) = 1 /\ <<e>>[1] = e /\ DOMAIN <<e>> = {1}
    BY <2>1
  <2>3. /\ P \in Seq(LogEntries) /\ Len(P) = Len(Pipeline) + 1
        /\ \A i \in 1 .. Len(Pipeline) + 1 : P[i] = IF i <= Len(Pipeline) THEN Pipeline[i] ELSE <<e>>[i - Len(Pipeline)]
    BY <1>1, <2>2, ConcatProperties
  <2>4. Seqs(P) = Seqs(Pipeline) \cup {sent + 1}
    <3>1. Seqs(<<e>>) = {sent + 1}
      BY <2>1, <2>2 DEF Seqs
    <3> QED
      BY <1>1, <2>2, <3>1, SeqsConcat
  <2>5. DOMAIN P = 1 .. Len(Pipeline) + 1
    BY <2>3, LenProperties
  <2> HIDE DEF P
  <2>6. \A i \in DOMAIN Pipeline : Pipeline[i].seq \in 1 .. sent
    BY DEF AofConserved, Seqs
  <2>7. \A i, j \in DOMAIN P : i < j => P[i].seq < P[j].seq
    <3> SUFFICES ASSUME NEW i \in DOMAIN P, NEW j \in DOMAIN P, i < j PROVE P[i].seq < P[j].seq
      OBVIOUS
    <3>1. i \in DOMAIN Pipeline /\ P[i] = Pipeline[i]
      BY <1>1, <2>3, <2>5
    <3>2. CASE j \in DOMAIN Pipeline
      <4>1. P[j] = Pipeline[j]
        BY <1>1, <2>3, <2>5, <3>2
      <4> QED
        BY <3>1, <3>2, <4>1 DEF AofConserved
    <3>3. CASE j = Len(Pipeline) + 1
      <4>1. P[j].seq = sent + 1
        BY <1>1, <2>1, <2>2, <2>3, <3>3
      <4>2. P[i].seq \in 1 .. sent
        BY <2>6, <3>1
      <4> QED
        BY <1>0, <4>1, <4>2
    <3> QED
      BY <1>1, <2>5, <3>2, <3>3
  <2>8. sent + 1 \notin dropped
    BY <1>0 DEF AofConserved
  <2>9. Seqs(P) \cap dropped = {} /\ Seqs(P) \cup dropped = 1 .. sent + 1
    <3>1. 1 .. sent + 1 = (1 .. sent) \cup {sent + 1}
      BY <1>0
    <3> QED
      BY <2>4, <2>8, <3>1 DEF AofConserved
  <2>10. Pipeline' = P
    BY <1>3 DEF P, e
  <2> QED
    BY <1>3, <2>7, <2>9, <2>10 DEF AofConserved
<1>4. Ordered(aof \o batch \o queue)
  BY DEF AofConserved, Ordered, Pipeline
<1>5. /\ Seqs(aof) \cap Seqs(batch) = {} /\ Seqs(aof) \cap Seqs(queue) = {} /\ Seqs(batch) \cap Seqs(queue) = {}
      /\ Seqs(Pipeline) = Seqs(aof) \cup Seqs(batch) \cup Seqs(queue)
      /\ Seqs(aof \o queue) = Seqs(aof) \cup Seqs(queue)
  BY <1>0, <1>4, PartsDisjoint DEF Pipeline
<1>6. ASSUME NEW t, Thinned(t, Pipeline) PROVE \A i, j \in DOMAIN t : i < j => t[i].seq < t[j].seq
  BY <1>6 DEF AofConserved, Thinned
<1>7. Thinned(aof \o queue, Pipeline) /\ Thinned(aof, Pipeline)
  BY <1>0, ThinnedParts DEF Pipeline
<1>8. CASE /\ Pipeline' = aof \o queue /\ sent' = sent
           /\ dropped' = dropped \cup Seqs(batch)
  <2>1. \A i, j \in DOMAIN Pipeline' : i < j => Pipeline'[i].seq < Pipeline'[j].seq
    BY <1>6, <1>7, <1>8
  <2>2. Seqs(Pipeline') \cap dropped' = {} /\ Seqs(Pipeline') \cup dropped' = 1 .. sent
    BY <1>5, <1>8 DEF AofConserved
  <2> QED
    BY <1>8, <2>1, <2>2 DEF AofConserved
<1>9. CASE /\ Pipeline' = aof /\ sent' = sent
           /\ dropped' = dropped \cup Seqs(batch) \cup Seqs(queue)
  <2>1. \A i, j \in DOMAIN Pipeline' : i < j => Pipeline'[i].seq < Pipeline'[j].seq
    BY <1>6, <1>7, <1>9
  <2>2. Seqs(Pipeline') \cap dropped' = {} /\ Seqs(Pipeline') \cup dropped' = 1 .. sent
    BY <1>5, <1>9 DEF AofConserved
  <2> QED
    BY <1>9, <2>1, <2>2 DEF AofConserved
<1> QED
  BY <1>2, <1>3, <1>8, <1>9, PipelineStep

----------------------------------------------------------------------------
(* One connection's writes.                                                *)

\* What ProgramOrder needs to be inductive: it holds of the entries on their way
\* as well, and the write a connection has not logged yet is its latest.
ClientOrder ==
    /\ \A i, j \in DOMAIN Pipeline : i < j /\ Pipeline[i].by = Pipeline[j].by => Pipeline[i].n < Pipeline[j].n
    /\ \A i \in DOMAIN Pipeline : Pipeline[i].n <= writes
    /\ \A c \in Clients : pc[c] = "log" =>
          /\ entry[c].n <= writes
          /\ \A i \in DOMAIN Pipeline : Pipeline[i].by = c => Pipeline[i].n < entry[c].n

\* A saver never comes to hold a write.
LEMMA SaverGoto ==
    ASSUME NEW s \in Savers, StartSave(s) \/ Saver(s)
    PROVE  \E l \in Steps \ {"log"} : pc' = [pc EXCEPT ![s] = l]
  BY DEF StartSave, Saver, CopyKey, BeginSave, BeginFails, Upsert, DeleteStale, SnapshotFails,
         CommitSave, CommitFails, Finish, Goto, Steps

\* Where a connection's unlogged write comes from: it has it already, or it has
\* just applied it.
LEMMA EntryStep ==
    ASSUME Typed, [Next]_vars
    PROVE  /\ writes' \in {writes, writes + 1}
           /\ \A c \in Clients : pc'[c] = "log" =>
                 \/ pc[c] = "log" /\ entry'[c] = entry[c]
                 \/ /\ entry'[c].n = writes' /\ writes' = writes + 1
                    /\ Pipeline' = Pipeline
<1> USE ConstFacts
<1>0. pc \in [Savers -> Steps] /\ entry \in [Clients -> Pending \cup {None}]
  BY DEF Typed, TypeOK, OtherTypes
<1>1. CASE UNCHANGED vars
  BY <1>1 DEF vars, volatile, counters
<1>2. ASSUME NEW c \in Clients, NEW k \in Keys, NEW del \in BOOLEAN, NEW skip \in BOOLEAN,
             Apply(c, k, del, skip)
      PROVE  /\ writes' \in {writes, writes + 1}
             /\ \A d \in Clients : pc'[d] = "log" =>
                 \/ pc[d] = "log" /\ entry'[d] = entry[d]
                 \/ /\ entry'[d].n = writes' /\ writes' = writes + 1
                    /\ Pipeline' = Pipeline
  <2>1. writes' = writes + 1 /\ Pipeline' = Pipeline /\ pc[c] = "idle"
    BY <1>2 DEF Apply, durable, Pipeline
  <2>2. CASE pc' = [pc EXCEPT ![c] = "log"] /\ entry' = [entry EXCEPT ![c] = [by |-> c, key |-> k, n |-> writes']]
    <3>1. entry'[c].n = writes'
      BY <1>0, <2>2
    <3>2. \A d \in Clients \ {c} : pc'[d] = pc[d] /\ entry'[d] = entry[d]
      BY <1>0, <2>2
    <3> QED
      BY <2>1, <3>1, <3>2
  <2>3. CASE UNCHANGED <<pc, entry>>
    BY <2>1, <2>3
  <2> QED
    BY <1>2, <2>2, <2>3 DEF Apply, Goto
<1>3. ASSUME NEW c \in Clients, Send(c) \/ SendFails(c)
      PROVE  writes' = writes /\ \A d \in Clients : pc'[d] = "log" => pc[d] = "log" /\ entry'[d] = entry[d]
  BY <1>0, <1>3, ClientFrame
<1>4. ASSUME AofWorker
      PROVE  writes' = writes /\ \A d \in Clients : pc'[d] = "log" => pc[d] = "log" /\ entry'[d] = entry[d]
  BY <1>4, WorkerFrame
<1>5. ASSUME NEW s \in Savers, StartSave(s) \/ Saver(s)
      PROVE  writes' = writes /\ \A d \in Clients : pc'[d] = "log" => pc[d] = "log" /\ entry'[d] = entry[d]
  <2>1. PICK l \in Steps \ {"log"} : pc' = [pc EXCEPT ![s] = l]
    BY <1>5, SaverGoto
  <2>2. writes' = writes /\ entry' = entry
    BY <1>5, SaverFrame
  <2> QED
    BY <1>0, <2>1, <2>2
<1>6. ASSUME Halt PROVE writes' = writes /\ \A d \in Clients : pc'[d] = "idle"
  BY <1>6 DEF Halt
<1>7. ASSUME Restart PROVE writes' = writes /\ UNCHANGED <<pc, entry>>
  BY <1>7 DEF Restart, counters
<1> QED
  BY <1>1, <1>2, <1>3, <1>4, <1>5, <1>6, <1>7 DEF Next, Exit, Crash

LEMMA ClientOrderStep ==
    ASSUME Typed, ClientOrder, [Next]_vars
    PROVE  ClientOrder'
<1> DEFINE Apart(p) == \A i, j \in DOMAIN p : i < j /\ p[i].by = p[j].by => p[i].n < p[j].n
           Before(p, w) == \A i \in DOMAIN p : p[i].n <= w
           Last(p, e, c) == \A i \in DOMAIN p : p[i].by = c => p[i].n < e.n
<1>0. /\ queue \in Seq(LogEntries) /\ batch \in Seq(LogEntries) /\ aof \in Seq(LogEntries)
      /\ sent \in Nat /\ writes \in Nat
  BY DEF Typed, TypeOK, OtherTypes
<1>1. /\ Pipeline \in Seq(LogEntries) /\ DOMAIN Pipeline = 1 .. Len(Pipeline) /\ Len(Pipeline) \in Nat
  BY <1>0, ThreeParts, LenProperties DEF Pipeline
<1>2. \A i \in DOMAIN Pipeline : Pipeline[i].n \in Nat
  <2>1. \A i \in DOMAIN Pipeline : Pipeline[i] \in LogEntries
    BY <1>1, ElementOfSeq
  <2> QED
    BY <2>1 DEF LogEntries
<1>3. \A c \in Clients : pc[c] = "log" => entry[c] \in Pending /\ entry[c].n \in Nat /\ entry[c].by = c
  BY DEF Typed, Placed, Pending
<1>4. writes' \in {writes, writes + 1}
  BY EntryStep
<1>5. Apart(Pipeline) /\ Before(Pipeline, writes)
  BY DEF ClientOrder
<1>6. Before(Pipeline, writes')
  BY <1>0, <1>2, <1>4, <1>5
\* a sequence that has no new entry
<1>7. ASSUME NEW p, Thinned(p, Pipeline)
      PROVE  /\ Apart(p) /\ Before(p, writes')
             /\ \A c \in Clients : pc[c] = "log" => Last(p, entry[c], c)
  <2>1. Apart(p)
    BY <1>5, <1>7 DEF Thinned
  <2>2. Before(p, writes')
    BY <1>6, <1>7 DEF Thinned
  <2>3. \A c \in Clients : pc[c] = "log" => Last(p, entry[c], c)
    BY <1>7 DEF ClientOrder, Thinned
  <2> QED
    BY <2>1, <2>2, <2>3
<1>8. ASSUME Thinned(Pipeline', Pipeline)
      PROVE  ClientOrder'
  <2>1. /\ Apart(Pipeline') /\ Before(Pipeline', writes')
        /\ \A c \in Clients : pc[c] = "log" => Last(Pipeline', entry[c], c)
    BY <1>7, <1>8
  <2>2. ASSUME NEW c \in Clients, pc'[c] = "log"
        PROVE  entry'[c].n <= writes' /\ Last(Pipeline', entry'[c], c)
    <3>1. CASE pc[c] = "log" /\ entry'[c] = entry[c]
      <4>1. entry[c].n <= writes
        BY <3>1 DEF ClientOrder
      <4> QED
        BY <1>0, <1>3, <1>4, <2>1, <3>1, <4>1
    <3>2. CASE entry'[c].n = writes' /\ writes' = writes + 1 /\ Pipeline' = Pipeline
      BY <1>0, <1>2, <1>5, <3>2
    <3> QED
      BY <2>2, <3>1, <3>2, EntryStep
  <2> QED
    BY <2>1, <2>2 DEF ClientOrder
<1>9. Thinned(Pipeline, Pipeline) /\ Thinned(aof \o queue, Pipeline) /\ Thinned(aof, Pipeline)
  <2>1. Thinned(Pipeline, Pipeline)
    BY DEF Thinned
  <2> QED
    BY <1>0, <2>1, ThinnedParts DEF Pipeline
<1>10. ASSUME NEW c \in Clients, pc[c] = "log", pc' = [pc EXCEPT ![c] = "idle"], writes' = writes,
              entry' = [entry EXCEPT ![c] = None], sent' = sent + 1,
              Pipeline' = Pipeline \o <<Numbered(entry[c], sent')>>
       PROVE  ClientOrder'
  <2> DEFINE e == Numbered(entry[c], sent')
             P == Pipeline \o <<e>>
  <2>1. e \in LogEntries /\ e.by = c /\ e.n = entry[c].n /\ e.n \in Nat
    <3>1. entry[c] \in Pending /\ entry[c].n \in Nat /\ entry[c].by = c /\ sent' \in Nat
      BY <1>0, <1>3, <1>10
    <3> QED
      BY <3>1, NumberedType
  <2> HIDE DEF e
  <2>2. <<e>> \in Seq(LogEntries) /\ Len(<<e>>) = 1 /\ <<e>>[1] = e
    BY <2>1
  <2>3. /\ P \in Seq(LogEntries) /\ Len(P) = Len(Pipeline) + 1
        /\ \A i \in 1 .. Len(Pipeline) + 1 : P[i] = IF i <= Len(Pipeline) THEN Pipeline[i] ELSE <<e>>[i - Len(Pipeline)]
    BY <1>1, <2>2, ConcatProperties
  <2>4. DOMAIN P = 1 .. Len(Pipeline) + 1
    BY <2>3, LenProperties
  <2>5. \A i \in DOMAIN P : \/ i \in DOMAIN Pipeline /\ P[i] = Pipeline[i]
                            \/ i = Len(Pipeline) + 1 /\ P[i] = e
    BY <1>1, <2>2, <2>3, <2>4
  <2> HIDE DEF P
  <2>6. Last(Pipeline, e, c) /\ e.n <= writes
    BY <1>10, <2>1 DEF ClientOrder
  <2>7. Apart(P)
    <3> SUFFICES ASSUME NEW i \in DOMAIN P, NEW j \in DOMAIN P, i < j, P[i].by = P[j].by
                 PROVE  P[i].n < P[j].n
      OBVIOUS
    <3>1. i \in DOMAIN Pipeline /\ P[i] = Pipeline[i]
      BY <1>1, <2>4, <2>5
    <3>2. CASE P[j] = e
      BY <2>1, <2>6, <3>1, <3>2
    <3>3. CASE j \in DOMAIN Pipeline /\ P[j] = Pipeline[j]
      BY <1>5, <3>1, <3>3
    <3> QED
      BY <2>5, <3>2, <3>3
  <2>8. Before(P, writes)
    BY <1>5, <2>5, <2>6
  <2>9. ASSUME NEW d \in Clients, pc'[d] = "log"
        PROVE  entry'[d].n <= writes /\ Last(P, entry'[d], d)
    <3>1. d # c /\ pc[d] = "log" /\ entry'[d] = entry[d]
      BY <1>10, <2>9, ConstFacts DEF Typed, TypeOK, OtherTypes
    <3>2. entry[d].n <= writes /\ Last(Pipeline, entry[d], d)
      BY <3>1 DEF ClientOrder
    <3> QED
      BY <2>1, <2>5, <3>1, <3>2
  <2>10. Pipeline' = P
    BY <1>10 DEF P, e
  <2> QED
    BY <1>10, <2>7, <2>8, <2>9, <2>10 DEF ClientOrder
<1> QED
  BY <1>8, <1>9, <1>10, PipelineStep

----------------------------------------------------------------------------
(* The snapshots.                                                          *)

\* What OneWriter and SnapshotWhole need to be inductive: how much of a saver's
\* copy is in the tables its transaction sees.
SnapshotInv ==
    /\ OneWriter
    /\ \A s \in Savers : pc[s] = "stale" => \A k \in Live(s) : work[k] = image[s][k]
    /\ \A s \in Savers : pc[s] = "commit" => work = image[s]
    /\ kv = saved

Writing == {"upsert", "stale", "commit"}

\* A table has a row for the keys it has something positive for.
LEMMA RowsOf ==
    ASSUME NEW t \in Store
    PROVE  /\ DOMAIN Rows(t) = {k \in Keys : t[k] > 0}
           /\ \A k \in DOMAIN Rows(t) : k \in Keys /\ t[k] > 0 /\ Rows(t)[k] = t[k]
  BY DEF Rows, Store

\* What a table holds for the keys without a row does not matter.
LEMMA SameRows ==
    ASSUME NEW t \in Store, NEW u \in Store,
           \A k \in Keys : t[k] = u[k] \/ (~(t[k] > 0) /\ ~(u[k] > 0))
    PROVE  Rows(t) = Rows(u)
  BY DEF Rows, Store

\* A transaction ends or fails with the saver that began it.
LEMMA SnapshotEnds ==
    ASSUME Typed, SnapshotInv, NEW s \in Savers, pc[s] \in Writing,
           txn' = None, lock' = (IF lock = "save" THEN None ELSE lock),
           \E l \in {"idle", "exit"} : pc' = [pc EXCEPT ![s] = l],
           worker' = worker, kv' = saved'
    PROVE  SnapshotInv'
<1> USE ConstFacts, PersistenceAssumption DEF Writing
<1>1. \A u \in Savers : pc'[u] \notin Writing
  <2>1. \A u \in Savers : u # s => pc[u] \notin Writing
    BY DEF SnapshotInv, OneWriter
  <2> QED
    BY <2>1 DEF Typed, TypeOK
<1>2. OneWriter'
  BY <1>1 DEF SnapshotInv, OneWriter
<1> QED
  BY <1>1, <1>2 DEF SnapshotInv

\* A step that moves no saver into or within a transaction.
LEMMA SnapshotFrame ==
    ASSUME Typed, SnapshotInv, UNCHANGED <<txn, work, kv, saved>>,
           \A u \in Savers : /\ pc'[u] \in Writing => pc'[u] = pc[u]
                             /\ pc'[u] \in Writing => image'[u] = image[u],
           \/ UNCHANGED <<lock, worker>>
           \/ lock = "aof" /\ lock' = None /\ worker' # "commit"
           \/ lock' = lock /\ worker' # "commit"
           \/ lock # "save" /\ lock' = "aof"
    PROVE  SnapshotInv'
<1> USE ConstFacts, PersistenceAssumption DEF Writing
<1>1. OneWriter'
  BY DEF SnapshotInv, OneWriter
<1>2. \A u \in Savers : pc'[u] \in {"stale", "commit"} => Live(u)' = Live(u)
  BY DEF Live
<1> QED
  BY <1>1, <1>2 DEF SnapshotInv

LEMMA SnapshotSaver ==
    ASSUME Typed, SnapshotInv, NEW s \in Savers, StartSave(s) \/ Saver(s)
    PROVE  SnapshotInv'
<1> USE ConstFacts, PersistenceAssumption
<1>0. /\ pc \in [Savers -> Steps] /\ image \in [Savers -> Store] /\ image[s] \in Store
      /\ kv \in Store /\ work \in Store /\ UNCHANGED worker
  BY SaverFrame DEF Typed, TypeOK
<1>1. ASSUME Finish(s)
      PROVE  /\ \E l \in {"idle", "exit"} : pc' = [pc EXCEPT ![s] = l]
             /\ \A u \in Savers : /\ pc'[u] \in Writing => pc'[u] = pc[u]
                                  /\ pc'[u] \in Writing => image'[u] = image[u]
  BY <1>0, <1>1 DEF Finish, Goto, Writing
<1>2. CASE StartSave(s) \/ CopyKey(s)
  <2>1. /\ \E l \in {"copy", "begin"} : pc' = [pc EXCEPT ![s] = l]
        /\ \A u \in Savers \ {s} : image'[u] = image[u]
        /\ UNCHANGED <<txn, work, lock, kv, saved>>
    BY <1>0, <1>2 DEF StartSave, CopyKey, Goto, durable, history
  <2>2. \A u \in Savers : /\ pc'[u] \in Writing => pc'[u] = pc[u]
                          /\ pc'[u] \in Writing => image'[u] = image[u]
    BY <1>0, <2>1 DEF Writing
  <2> QED
    BY <1>0, <2>1, <2>2, SnapshotFrame
<1>3. CASE BeginFails(s)
  <2>1. Finish(s) /\ UNCHANGED <<txn, work, lock, kv, saved>>
    BY <1>3 DEF BeginFails, durable, history
  <2> QED
    BY <1>0, <1>1, <2>1, SnapshotFrame
<1>4. CASE BeginSave(s)
  <2>1. /\ txn = None /\ txn' = s /\ work' = kv /\ pc' = [pc EXCEPT ![s] = "upsert"]
        /\ UNCHANGED <<image, lock, kv, saved>>
    BY <1>4 DEF BeginSave, Goto, durable, history
  <2>2. \A u \in Savers : pc[u] \notin Writing
    BY <2>1 DEF SnapshotInv, OneWriter, Writing
  <2>3. \A u \in Savers : pc'[u] \in Writing => u = s /\ pc'[u] = "upsert"
    BY <1>0, <2>1, <2>2
  <2>4. OneWriter'
    BY <1>0, <2>1, <2>3 DEF SnapshotInv, OneWriter, Writing
  <2> QED
    BY <2>1, <2>3, <2>4 DEF SnapshotInv, Writing
<1>5. ASSUME pc[s] \in Writing
      PROVE  txn = s /\ \A u \in Savers \ {s} : pc[u] \notin Writing
  BY <1>5 DEF SnapshotInv, OneWriter, Writing
<1>6. CASE Upsert(s)
  <2>1. /\ pc[s] = "upsert" /\ pc' = [pc EXCEPT ![s] = "stale"] /\ UNCHANGED <<image, txn, kv, saved>>
        /\ work' = [k \in Keys |-> IF k \in Live(s) THEN image[s][k] ELSE work[k]]
        /\ IF Live(s) = {} THEN UNCHANGED lock ELSE lock # "aof" /\ lock' = "save"
    BY <1>6 DEF Upsert, TakeLock, Goto, durable, history
  <2>2. txn = s /\ \A u \in Savers : pc'[u] \in Writing => u = s /\ pc'[u] = "stale"
    BY <1>0, <1>5, <2>1 DEF Writing
  <2>3. Live(s)' = Live(s) /\ Live(s) \subseteq Keys
    BY <1>0, <2>1, RowsOf DEF Live
  <2>4. \A k \in Live(s) : work'[k] = image[s][k]
    BY <2>1, <2>3
  <2>5. Live(s) = {} => work' = work
    BY <1>0, <2>1 DEF Store
  <2>6. OneWriter'
    BY <1>0, <2>1, <2>2, <2>5 DEF SnapshotInv, OneWriter, Writing
  <2> QED
    BY <2>1, <2>2, <2>3, <2>4, <2>6 DEF SnapshotInv, Writing
<1>7. CASE DeleteStale(s)
  <2>1. /\ pc[s] = "stale" /\ pc' = [pc EXCEPT ![s] = "commit"] /\ UNCHANGED <<image, txn, kv, saved>>
        /\ work' = [k \in Keys |-> IF k \in Live(s) THEN work[k] ELSE image[s][k]]
        /\ IF Stale(s) = {} THEN UNCHANGED lock ELSE lock # "aof" /\ lock' = "save"
    BY <1>7 DEF DeleteStale, TakeLock, Goto, durable, history
  <2>2. txn = s /\ \A u \in Savers : pc'[u] \in Writing => u = s /\ pc'[u] = "commit"
    BY <1>0, <1>5, <2>1 DEF Writing
  <2>3. work' = image[s]
    <3>1. \A k \in Live(s) : work[k] = image[s][k]
      BY <2>1 DEF SnapshotInv
    <3> QED
      BY <1>0, <2>1, <3>1 DEF Store
  <2>4. Stale(s) = {} => Rows(work') = Rows(work)
    <3> SUFFICES ASSUME Stale(s) = {} PROVE Rows(work') = Rows(work)
      OBVIOUS
    <3>1. DOMAIN Rows(work) = {k \in Keys : work[k] > 0} /\ Live(s) = {k \in Keys : image[s][k] > 0}
      BY <1>0, RowsOf DEF Live
    <3>2. \A k \in Keys : k \notin Live(s) => ~(work[k] > 0) /\ ~(image[s][k] > 0)
      BY <3>1 DEF Stale
    <3>3. \A k \in Keys : k \in Live(s) => work'[k] = work[k]
      BY <2>1
    <3> QED
      BY <1>0, <2>3, <3>2, <3>3, SameRows
  <2>5. OneWriter'
    BY <1>0, <2>1, <2>2, <2>4 DEF SnapshotInv, OneWriter, Writing
  <2> QED
    BY <2>1, <2>2, <2>3, <2>5 DEF SnapshotInv, Writing
<1>8. CASE SnapshotFails(s)
  <2>1. /\ pc[s] \in Writing /\ txn' = None /\ lock' = (IF lock = "save" THEN None ELSE lock) /\ Finish(s)
        /\ kv' = kv /\ saved' = saved
    BY <1>8 DEF SnapshotFails, durable, history, Writing
  <2>2. kv' = saved'
    BY <2>1 DEF SnapshotInv
  <2> QED
    BY <1>0, <1>1, <2>1, <2>2, SnapshotEnds
<1>9. CASE CommitSave(s)
  <2>1. /\ pc[s] = "commit" /\ txn' = None /\ lock' = (IF lock = "save" THEN None ELSE lock) /\ Finish(s)
        /\ kv' = work /\ saved' = image[s]
    BY <1>9 DEF CommitSave
  <2>2. kv' = saved' /\ pc[s] \in Writing
    BY <2>1 DEF SnapshotInv, Writing
  <2> QED
    BY <1>0, <1>1, <2>1, <2>2, SnapshotEnds
<1>10. CASE CommitFails(s)
  <2>1. /\ pc[s] \in Writing /\ Finish(s) /\ kv' = kv /\ saved' = saved
    BY <1>10 DEF CommitFails, durable, history, Writing
  <2>2. CASE UNCHANGED <<txn, lock, work>>
    BY <1>0, <1>1, <2>1, <2>2, SnapshotFrame
  <2>3. CASE txn' = None /\ lock' = (IF lock = "save" THEN None ELSE lock)
    <3>1. kv' = saved'
      BY <2>1 DEF SnapshotInv
    <3> QED
      BY <1>0, <1>1, <2>1, <2>3, <3>1, SnapshotEnds
  <2> QED
    BY <1>10, <2>2, <2>3 DEF CommitFails
<1> QED
  BY <1>2, <1>3, <1>4, <1>6, <1>7, <1>8, <1>9, <1>10 DEF Saver

LEMMA SnapshotStep ==
    ASSUME Typed, SnapshotInv, [Next]_vars
    PROVE  SnapshotInv'
<1> USE ConstFacts, PersistenceAssumption
<1>0. pc \in [Savers -> Steps] /\ image \in [Savers -> Store]
  BY DEF Typed, TypeOK
<1>1. CASE UNCHANGED vars
  BY <1>1, SnapshotFrame DEF vars, volatile, durable, history
<1>2. ASSUME NEW c \in Clients, NEW k \in Keys, NEW del \in BOOLEAN, NEW skip \in BOOLEAN,
             Apply(c, k, del, skip)
      PROVE  SnapshotInv'
  <2>1. UNCHANGED <<txn, work, lock, worker, kv, saved, image>> /\ pc' \in {pc, [pc EXCEPT ![c] = "log"]}
    BY <1>2 DEF Apply, Goto, durable, history
  <2>2. \A u \in Savers : pc'[u] \in Writing => pc'[u] = pc[u]
    BY <1>0, <2>1 DEF Writing
  <2> QED
    BY <2>1, <2>2, SnapshotFrame
<1>3. ASSUME NEW c \in Clients, Send(c) \/ SendFails(c)
      PROVE  SnapshotInv'
  <2>1. UNCHANGED <<txn, work, lock, worker, kv, saved, image>> /\ pc' = [pc EXCEPT ![c] = "idle"]
    BY <1>3, ClientFrame
  <2>2. \A u \in Savers : pc'[u] \in Writing => pc'[u] = pc[u]
    BY <1>0, <2>1 DEF Writing
  <2> QED
    BY <2>1, <2>2, SnapshotFrame
<1>4. ASSUME AofWorker PROVE SnapshotInv'
  <2>1. UNCHANGED <<txn, work, kv, saved, image, pc>>
    BY <1>4, WorkerFrame
  <2>2. \/ lock = "aof" /\ lock' = None /\ worker' # "commit"
        \/ lock' = lock /\ worker' # "commit"
        \/ lock # "save" /\ lock' = "aof"
    <3>1. worker = "commit" => lock = "aof"
      BY DEF SnapshotInv, OneWriter
    <3> QED
      BY <1>4, <3>1 DEF AofWorker, Receive, CloseBatch, InsertBatch, CommitBatch, FlushFails
  <2> QED
    BY <2>1, <2>2, SnapshotFrame
<1>5. ASSUME Halt PROVE SnapshotInv'
  <2>1. /\ pc' = [s \in Savers |-> "idle"] /\ lock' = None /\ txn' = None /\ worker' = "dead"
        /\ kv' = kv /\ saved' = saved
    BY <1>5 DEF Halt, durable
  <2> QED
    BY <2>1 DEF SnapshotInv, OneWriter
<1>6. ASSUME Restart PROVE SnapshotInv'
  <2>1. UNCHANGED <<txn, work, lock, kv, saved, image, pc>> /\ worker' # "commit"
    BY <1>6 DEF Restart, Started, durable, history
  <2> QED
    BY <2>1, SnapshotFrame
<1> QED
  BY <1>1, <1>2, <1>3, <1>4, <1>5, <1>6, SnapshotSaver DEF Next, Exit, Crash

----------------------------------------------------------------------------
(* No step back.                                                           *)

Saving == {"copy", "begin", "upsert", "stale", "commit"}

\* Whether a saver has copied key k.
Copied(s, k) == pc[s] # "copy" \/ k < at[s]

\* What NoStepBack needs to be inductive: a key only ever moves forward in the
\* store, no copy is ahead of the store, and the copy a saver is making is not
\* behind the tables unless they were replaced meanwhile.
Forward ==
    /\ \A k \in Keys : Abs(mem[k]) <= writes /\ Abs(kv[k]) <= writes
    /\ \A s \in Savers, k \in Keys : Abs(image[s][k]) <= Abs(mem[k])
    /\ ~up => \A k \in Keys : Abs(mem[k]) = 0
    /\ up /\ loaded => \A k \in Keys : Abs(kv[k]) <= Abs(mem[k])
    /\ \A s \in Savers : base[s] <= commits
    /\ \A s \in Savers : pc[s] \in Saving /\ base[s] = commits /\ loaded =>
          \A k \in Keys : Copied(s, k) => Abs(kv[k]) <= Abs(image[s][k])

LEMMA AbsNat ==
    ASSUME NEW i \in Int
    PROVE  Abs(i) \in Nat
  BY DEF Abs

\* The types Forward's comparisons are between.
LEMMA ForwardTypes ==
    ASSUME Typed
    PROVE  /\ \A k \in Keys : Abs(mem[k]) \in Nat /\ Abs(kv[k]) \in Nat
           /\ \A s \in Savers, k \in Keys : Abs(image[s][k]) \in Nat
           /\ writes \in Nat /\ commits \in Nat /\ \A s \in Savers : base[s] \in Nat
  BY AbsNat DEF Typed, TypeOK, OtherTypes, Store

\* The store moves forward only: Forward survives a step that leaves the savers
\* and the tables alone.
LEMMA ForwardStore ==
    ASSUME Typed, Typed', Forward, UNCHANGED <<kv, image, base, commits, at, loaded>>,
           writes <= writes', up' = up, up \/ mem' = mem,
           \A k \in Keys : Abs(mem[k]) <= Abs(mem'[k]) /\ Abs(mem'[k]) <= writes',
           \A s \in Savers : pc'[s] \in Saving => pc'[s] = pc[s]
    PROVE  Forward'
<1>1. /\ \A k \in Keys : Abs(mem[k]) \in Nat /\ Abs(kv[k]) \in Nat
      /\ \A s \in Savers, k \in Keys : Abs(image[s][k]) \in Nat
      /\ writes \in Nat
  BY ForwardTypes
<1>2. /\ \A k \in Keys : Abs(mem'[k]) \in Nat
      /\ writes' \in Nat
  BY AbsNat DEF Typed, TypeOK, OtherTypes, Store
<1> USE DEF Forward
<1>3. \A k \in Keys : Abs(mem'[k]) <= writes' /\ Abs(kv'[k]) <= writes'
  BY <1>1, <1>2
<1>4. \A s \in Savers, k \in Keys : Abs(image'[s][k]) <= Abs(mem'[k])
  BY <1>1, <1>2
<1>5. up' /\ loaded' => \A k \in Keys : Abs(kv'[k]) <= Abs(mem'[k])
  BY <1>1, <1>2
<1>6. \A s \in Savers : pc'[s] \in Saving /\ base'[s] = commits' /\ loaded' =>
          \A k \in Keys : Copied(s, k)' => Abs(kv'[k]) <= Abs(image'[s][k])
  BY DEF Copied
<1> QED
  BY <1>3, <1>4, <1>5, <1>6

\* Forward survives a saver's step that leaves the tables alone and copies nothing.
LEMMA ForwardSaver ==
    ASSUME Typed, Forward, NEW s \in Savers, UNCHANGED <<up, mem, kv, writes, base, commits, loaded>>,
           \A u \in Savers \ {s} : UNCHANGED <<pc[u], at[u], image[u]>>,
           image'[s] \in {image[s], Blank},
           pc'[s] \in Saving => /\ pc[s] \in Saving \ {"copy"} /\ pc'[s] # "copy"
                                /\ image'[s] = image[s]
    PROVE  Forward'
<1>1. /\ \A k \in Keys : Abs(mem[k]) \in Nat /\ Abs(kv[k]) \in Nat
  BY ForwardTypes
<1>2. \A k \in Keys : Abs(Blank[k]) = 0
  BY DEF Abs, Blank
<1> USE DEF Forward
<1>3. \A u \in Savers, k \in Keys : Abs(image'[u][k]) <= Abs(mem'[k])
  BY <1>1, <1>2
<1>4. ASSUME NEW u \in Savers, pc'[u] \in Saving, base'[u] = commits', loaded', NEW k \in Keys, Copied(u, k)'
      PROVE  Abs(kv'[k]) <= Abs(image'[u][k])
  <2>1. CASE u = s
    BY <1>4, <2>1 DEF Copied
  <2>2. CASE u # s
    BY <1>4, <2>2 DEF Copied
  <2> QED
    BY <2>1, <2>2
<1> QED
  BY <1>3, <1>4

LEMMA ForwardApply ==
    ASSUME Typed, Typed', Forward, NEW c \in Clients, NEW k \in Keys, NEW del \in BOOLEAN, NEW skip \in BOOLEAN,
           Apply(c, k, del, skip)
    PROVE  Forward'
<1> USE ConstFacts
<1>1. /\ \A j \in Keys : Abs(mem[j]) \in Nat /\ Abs(mem[j]) <= writes
      /\ writes \in Nat /\ mem \in Store /\ pc \in [Savers -> Steps]
  BY ForwardTypes DEF Forward, Typed, TypeOK
<1>2. /\ up /\ UNCHANGED <<up, kv, image, base, commits, at, loaded>> /\ writes' = writes + 1
      /\ mem' = [mem EXCEPT ![k] = IF del THEN -writes' ELSE writes']
      /\ pc' \in {pc, [pc EXCEPT ![c] = "log"]}
  BY DEF Apply, Goto, durable, history
<1>3. Abs(mem'[k]) = writes'
  BY <1>1, <1>2 DEF Abs, Store
<1>4. \A j \in Keys \ {k} : mem'[j] = mem[j]
  BY <1>1, <1>2 DEF Store
<1>5. \A j \in Keys : Abs(mem[j]) <= Abs(mem'[j]) /\ Abs(mem'[j]) <= writes'
  BY <1>1, <1>2, <1>3, <1>4
<1>6. \A s \in Savers : pc'[s] \in Saving => pc'[s] = pc[s]
  BY <1>1, <1>2 DEF Saving
<1> QED
  BY <1>1, <1>2, <1>5, <1>6, ForwardStore

LEMMA ForwardCopy ==
    ASSUME Typed, Forward, NEW s \in Savers, CopyKey(s)
    PROVE  Forward'
<1> USE ConstFacts
<1>0. /\ pc \in [Savers -> Steps] /\ image \in [Savers -> Store] /\ at \in [Savers -> 1 .. NumKeys + 1]
      /\ at[s] \in Keys /\ NumKeys \in Int /\ up /\ pc[s] = "copy" /\ Keys \subseteq Int
  BY PersistenceAssumption DEF CopyKey, Typed, TypeOK, Placed
<1>1. /\ UNCHANGED <<up, mem, kv, writes, base, commits, loaded>>
      /\ image' = [image EXCEPT ![s][at[s]] = mem[at[s]]]
      /\ at' = [at EXCEPT ![s] = at[s] + 1]
      /\ pc' = [pc EXCEPT ![s] = IF at[s] = NumKeys THEN "begin" ELSE "copy"]
  BY DEF CopyKey, Goto, durable, counters, history
<1>2. \A u \in Savers \ {s} : UNCHANGED <<pc[u], at[u], image[u]>>
  BY <1>0, <1>1
<1>3. /\ image'[s][at[s]] = mem[at[s]]
      /\ \A k \in Keys \ {at[s]} : image'[s][k] = image[s][k]
      /\ at'[s] = at[s] + 1
      /\ pc'[s] = IF at[s] = NumKeys THEN "begin" ELSE "copy"
  BY <1>0, <1>1 DEF Store
<1>4. \A k \in Keys : Abs(mem[k]) \in Nat /\ Abs(kv[k]) \in Nat
  BY ForwardTypes
<1>5. \A k \in Keys : Copied(s, k)' => k = at[s] \/ Copied(s, k)
  BY <1>0, <1>3 DEF Copied, Keys
<1> USE DEF Forward
<1>6. \A u \in Savers, k \in Keys : Abs(image'[u][k]) <= Abs(mem'[k])
  <2> SUFFICES ASSUME NEW u \in Savers, NEW k \in Keys PROVE Abs(image'[u][k]) <= Abs(mem[k])
    BY <1>1
  <2>1. CASE u = s /\ k = at[s]
    <3>1. image'[u][k] = mem[k]
      BY <1>3, <2>1
    <3>2. Abs(mem[k]) \in Nat
      BY <1>4
    <3> QED
      BY <3>1, <3>2
  <2>2. CASE u = s /\ k # at[s]
    BY <1>3, <2>2
  <2>3. CASE u # s
    BY <1>2, <2>3
  <2> QED
    BY <2>1, <2>2, <2>3
<1>7. ASSUME NEW u \in Savers, pc'[u] \in Saving, base'[u] = commits', loaded', NEW k \in Keys, Copied(u, k)'
      PROVE  Abs(kv'[k]) <= Abs(image'[u][k])
  <2>1. base[u] = commits /\ loaded
    BY <1>1, <1>7
  <2>2. CASE u = s /\ k = at[s]
    BY <1>0, <1>1, <1>3, <2>1, <2>2
  <2>3. CASE u = s /\ k # at[s]
    BY <1>0, <1>1, <1>3, <1>5, <1>7, <2>1, <2>3 DEF Saving
  <2>4. CASE u # s
    <3>1. pc[u] \in Saving /\ Copied(u, k) /\ image'[u] = image[u]
      BY <1>2, <1>7, <2>4 DEF Copied
    <3> QED
      BY <1>1, <2>1, <3>1
  <2> QED
    BY <2>2, <2>3, <2>4
<1> QED
  BY <1>1, <1>6, <1>7

\* A copy is committed: the tables take its keys, and every copy under way is one
\* of before.
LEMMA ForwardCommit ==
    ASSUME Typed, SnapshotInv, Forward, NEW s \in Savers, CommitSave(s)
    PROVE  Forward'
<1> USE ConstFacts
<1>0. /\ pc \in [Savers -> Steps] /\ image \in [Savers -> Store]
      /\ pc[s] = "commit" /\ up
  BY DEF CommitSave, Typed, TypeOK
<1>1. /\ UNCHANGED <<up, mem, writes, base, loaded>> /\ kv' = work /\ commits' = commits + 1 /\ Finish(s)
  BY DEF CommitSave, counters
<1>2. work = image[s]
  BY <1>0 DEF SnapshotInv
<1>3. /\ \A k \in Keys : Abs(mem[k]) \in Nat /\ Abs(kv[k]) \in Nat
      /\ \A u \in Savers, k \in Keys : Abs(image[u][k]) \in Nat
      /\ writes \in Nat /\ commits \in Nat /\ \A u \in Savers : base[u] \in Nat
  BY ForwardTypes
<1>4. \A u \in Savers : image'[u] \in {image[u], Blank}
  BY <1>0, <1>1 DEF Finish
<1>5. \A k \in Keys : Abs(Blank[k]) = 0
  BY DEF Abs, Blank
<1> USE DEF Forward
<1>6. \A k \in Keys : Abs(kv'[k]) <= Abs(mem'[k]) /\ Abs(kv'[k]) <= writes'
  <2> SUFFICES ASSUME NEW k \in Keys PROVE Abs(kv'[k]) <= Abs(mem[k]) /\ Abs(kv'[k]) <= writes
    BY <1>1
  <2>1. kv'[k] = image[s][k]
    BY <1>1, <1>2
  <2>2. Abs(image[s][k]) <= Abs(mem[k]) /\ Abs(mem[k]) <= writes
    OBVIOUS
  <2>3. Abs(image[s][k]) \in Nat /\ Abs(mem[k]) \in Nat /\ writes \in Nat
    BY <1>3
  <2> QED
    BY <2>1, <2>2, <2>3
<1>7. \A u \in Savers, k \in Keys : Abs(image'[u][k]) <= Abs(mem'[k])
  BY <1>1, <1>3, <1>4, <1>5
<1>8. \A u \in Savers : base'[u] <= commits' /\ base'[u] # commits'
  BY <1>1, <1>3
<1> QED
  BY <1>0, <1>1, <1>6, <1>7, <1>8

LEMMA ForwardStep ==
    ASSUME Typed, Typed', SnapshotInv, Forward, [Next]_vars
    PROVE  Forward'
<1> USE ConstFacts
<1>0. /\ pc \in [Savers -> Steps] /\ image \in [Savers -> Store] /\ at \in [Savers -> 1 .. NumKeys + 1]
      /\ base \in [Savers -> Nat] /\ commits \in Nat
  BY DEF Typed, TypeOK, OtherTypes
<1>1. /\ \A k \in Keys : Abs(mem[k]) \in Nat /\ Abs(kv[k]) \in Nat
      /\ \A s \in Savers, k \in Keys : Abs(image[s][k]) \in Nat
      /\ writes \in Nat
  BY ForwardTypes
<1>2. ASSUME UNCHANGED <<up, mem, kv, image, base, commits, at, loaded, writes>>,
             \A s \in Savers : pc'[s] \in Saving => pc'[s] = pc[s]
      PROVE  Forward'
  <2>1. \A k \in Keys : Abs(mem[k]) <= Abs(mem'[k]) /\ Abs(mem'[k]) <= writes'
    BY <1>1, <1>2 DEF Forward
  <2> QED
    BY <1>1, <1>2, <2>1, ForwardStore
<1>3. CASE UNCHANGED vars
  BY <1>2, <1>3 DEF vars, volatile, durable, counters, history
<1>4. ASSUME NEW c \in Clients, Send(c) \/ SendFails(c) PROVE Forward'
  <2>1. UNCHANGED <<up, mem, kv, image, base, commits, at, loaded, writes>> /\ pc' = [pc EXCEPT ![c] = "idle"]
    BY <1>4, ClientFrame
  <2>2. \A s \in Savers : pc'[s] \in Saving => pc'[s] = pc[s]
    BY <1>0, <2>1 DEF Saving
  <2> QED
    BY <1>2, <2>1, <2>2
<1>5. ASSUME AofWorker PROVE Forward'
  <2>1. UNCHANGED <<up, mem, kv, image, base, commits, at, loaded, writes, pc>>
    BY <1>5, WorkerFrame
  <2> QED
    BY <1>2, <2>1
<1>6. ASSUME NEW s \in Savers, StartSave(s) PROVE Forward'
  <2>1. /\ UNCHANGED <<up, mem, kv, image, commits, at, loaded, writes>> /\ up /\ pc[s] = "idle"
        /\ base' = [base EXCEPT ![s] = commits] /\ pc' = [pc EXCEPT ![s] = "copy"]
    BY <1>6 DEF StartSave, Goto, durable
  <2>2. at[s] = 1 /\ pc'[s] = "copy" /\ base'[s] = commits /\ \A u \in Savers \ {s} : pc'[u] = pc[u] /\ base'[u] = base[u]
    BY <1>0, <2>1 DEF Typed, Placed
  <2>3. \A k \in Keys : ~Copied(s, k)'
    BY <2>1, <2>2 DEF Copied, Keys
  <2>4. \A u \in Savers \ {s} : \A k \in Keys : Copied(u, k)' => Copied(u, k)
    BY <2>1, <2>2 DEF Copied
  <2>5. \A u \in Savers : base'[u] <= commits'
    BY <1>0, <2>1, <2>2 DEF Forward
  <2>6. ASSUME NEW u \in Savers, pc'[u] \in Saving, base'[u] = commits', loaded', NEW k \in Keys, Copied(u, k)'
        PROVE  Abs(kv'[k]) <= Abs(image'[u][k])
    BY <2>1, <2>2, <2>3, <2>4, <2>6 DEF Forward
  <2> QED
    BY <2>1, <2>5, <2>6 DEF Forward
<1>7. ASSUME NEW s \in Savers, Saver(s), ~CopyKey(s), ~CommitSave(s) PROVE Forward'
  <2>1. UNCHANGED <<up, mem, kv, writes, base, commits, loaded>>
    BY <1>7 DEF Saver, BeginSave, BeginFails, Upsert, DeleteStale, SnapshotFails,
         CommitFails, Finish, durable, counters, history
  <2>2. CASE Finish(s)
    <3>1. /\ \A u \in Savers \ {s} : UNCHANGED <<pc[u], at[u], image[u]>>
          /\ image'[s] \in {image[s], Blank} /\ pc'[s] \notin Saving
      BY <1>0, <2>2 DEF Finish, Goto, Saving
    <3> QED
      BY <2>1, <3>1, ForwardSaver
  <2>3. CASE BeginSave(s) \/ Upsert(s) \/ DeleteStale(s)
    <3>1. /\ \E l \in Saving \ {"copy"} : pc' = [pc EXCEPT ![s] = l]
          /\ pc[s] \in Saving \ {"copy"} /\ UNCHANGED <<at, image>>
      BY <2>3 DEF BeginSave, Upsert, DeleteStale, Goto, Saving
    <3>2. /\ \A u \in Savers \ {s} : UNCHANGED <<pc[u], at[u], image[u]>>
          /\ pc'[s] \in Saving \ {"copy"} /\ image'[s] = image[s]
      BY <1>0, <3>1
    <3> QED
      BY <2>1, <3>1, <3>2, ForwardSaver
  <2> QED
    BY <1>7, <2>2, <2>3 DEF Saver, BeginFails, SnapshotFails, CommitFails
<1>8. \A k \in Keys : Abs(Blank[k]) = 0 /\ Abs(0) = 0
  BY DEF Abs, Blank
<1>9. ASSUME Halt PROVE Forward'
  <2>1. /\ mem' = Blank /\ image' = [s \in Savers |-> Blank] /\ up' = FALSE
        /\ pc' = [s \in Savers |-> "idle"] /\ UNCHANGED <<kv, base, commits, writes>>
    BY <1>9 DEF Halt, durable
  <2> QED
    BY <1>1, <1>8, <2>1 DEF Forward, Saving
<1>10. ASSUME Restart PROVE Forward'
  <2>1. PICK K : mem' = [k \in Keys |-> IF k \in K THEN kv[k] ELSE 0] /\ loaded' = (K = Keys)
    BY <1>10 DEF Restart
  <2>2. UNCHANGED <<pc, image, kv, base, commits, writes>> /\ ~up /\ up' = TRUE
    BY <1>10 DEF Restart, durable, counters, history
  <2>3. \A s \in Savers : pc'[s] \notin Saving
    BY <2>2 DEF Typed, Placed, Saving
  <2>4. \A k \in Keys : Abs(mem'[k]) \in Nat /\ Abs(mem'[k]) <= writes
    BY <1>1, <1>8, <2>1 DEF Forward
  <2>5. \A s \in Savers, k \in Keys : Abs(image[s][k]) <= 0
    BY <2>2 DEF Forward
  <2>6. \A s \in Savers, k \in Keys : Abs(image'[s][k]) <= Abs(mem'[k])
    BY <1>1, <2>2, <2>4, <2>5
  <2>7. loaded' => \A k \in Keys : Abs(kv'[k]) <= Abs(mem'[k])
    <3> SUFFICES ASSUME loaded', NEW k \in Keys PROVE Abs(kv'[k]) <= Abs(mem'[k])
      OBVIOUS
    <3>1. mem'[k] = kv[k] /\ kv'[k] = kv[k]
      BY <2>1, <2>2
    <3>2. Abs(kv[k]) \in Nat
      BY <1>1
    <3> QED
      BY <3>1, <3>2
  <2> QED
    BY <2>2, <2>3, <2>4, <2>6, <2>7 DEF Forward
<1> QED
  BY <1>3, <1>4, <1>5, <1>6, <1>7, <1>9, <1>10, ForwardApply, ForwardCopy, ForwardCommit
     DEF Next, Exit, Crash

----------------------------------------------------------------------------
(* The theorems.                                                           *)

\* Everything above, together.
PersistInv == Typed /\ AofConserved /\ ClientOrder /\ SnapshotInv /\ Forward

LEMMA PersistInit == Init => PersistInv
<1> SUFFICES ASSUME Init PROVE PersistInv
  OBVIOUS
<1> USE ConstFacts
<1>1. Typed
  BY InitTyped
<1>2. Pipeline = <<>> /\ sent = 0 /\ dropped = {}
  <2>1. aof = <<>> /\ batch = <<>> /\ queue = <<>> /\ sent = 0 /\ dropped = {}
    BY DEF Init
  <2>2. (<<>> \o <<>>) \o <<>> = <<>>
    OBVIOUS
  <2> QED
    BY <2>1, <2>2 DEF Pipeline
<1>3. DOMAIN Pipeline = {}
  BY <1>2
<1>4. AofConserved
  BY <1>2, <1>3 DEF AofConserved, Seqs
<1>5. \A s \in Savers : pc[s] = "idle"
  BY DEF Init
<1>6. ClientOrder
  BY <1>3, <1>5 DEF ClientOrder
<1>7. SnapshotInv
  BY <1>5, PersistenceAssumption DEF Init, Started, SnapshotInv, OneWriter
<1>8. Forward
  <2>1. \A k \in Keys : Abs(Blank[k]) = 0
    BY DEF Abs, Blank
  <2> QED
    BY <1>5, <2>1 DEF Init, Forward, Saving
<1> QED
  BY <1>1, <1>4, <1>6, <1>7, <1>8 DEF PersistInv

LEMMA PersistStep == PersistInv /\ [Next]_vars => PersistInv'
  BY TypedStep, AofConservedStep, ClientOrderStep, SnapshotStep, ForwardStep DEF PersistInv

LEMMA PersistAlways == Spec => []PersistInv
  BY PersistInit, PersistStep, PTL DEF Spec

\* Every variable keeps its type: in particular the channel never holds more than
\* AOF_QUEUE_CAPACITY entries, a batch never more than AOF_BATCH_MAX, and a saver
\* copies no key beyond the last.
THEOREM PersistenceTyped == Spec => []TypeOK
<1>1. PersistInv => TypeOK
  BY DEF PersistInv, Typed
<1> QED
  BY <1>1, PersistAlways, PTL

\* Whatever fails or stops, and however send, the worker and the process
\* interleave, the log is in the order of the sends, without repetition, and lacks
\* only whole batches that failed and what was on its way when the process ended.
THEOREM LogConserved == Spec => []AofConserved
<1>1. PersistInv => AofConserved
  BY DEF PersistInv
<1> QED
  BY <1>1, PersistAlways, PTL

\* A connection's writes are in the log in the order it made them, although each is
\* logged after its shard was unlocked.
THEOREM LogKeepsProgramOrder == Spec => []ProgramOrder
<1>1. PersistInv => ProgramOrder
  <2> SUFFICES ASSUME PersistInv PROVE ProgramOrder
    OBVIOUS
  <2>1. Thinned(aof, Pipeline)
    BY ThinnedParts DEF PersistInv, Typed, TypeOK, Pipeline
  <2> QED
    BY <2>1 DEF PersistInv, ClientOrder, ProgramOrder, Thinned
<1> QED
  BY <1>1, PersistAlways, PTL

\* Only the saver that began the shared connection's transaction writes in it, and
\* a connection with uncommitted changes is the database's only writer.
THEOREM OneWriterAtATime == Spec => []OneWriter
<1>1. PersistInv => OneWriter
  BY DEF PersistInv, SnapshotInv
<1> QED
  BY <1>1, PersistAlways, PTL

\* The snapshot tables are at all times the whole copy some saver made.
THEOREM SnapshotsWhole == Spec => []SnapshotWhole
<1>1. PersistInv => SnapshotWhole
  BY DEF PersistInv, SnapshotInv, SnapshotWhole
<1> QED
  BY <1>1, PersistAlways, PTL

\* No committed snapshot takes a key back, unless another was committed while it
\* was being made or the store had been loaded in part only.
THEOREM SnapshotsMoveForward == Spec => NoStepBack
<1> DEFINE Kept == \A s \in Savers : pc[s] = "commit" /\ commits' = commits + 1 /\ base[s] = commits /\ loaded
                     => \A k \in Keys : Abs(kv'[k]) >= Abs(kv[k])
<1>1. PersistInv /\ [Next]_vars => [Kept]_vars
  <2> SUFFICES ASSUME PersistInv, Next, NEW s \in Savers, pc[s] = "commit", commits' = commits + 1,
                      base[s] = commits, loaded, NEW k \in Keys
               PROVE  Abs(kv'[k]) >= Abs(kv[k])
    OBVIOUS
  <2>1. commits \in Nat /\ kv \in Store /\ image \in [Savers -> Store]
    BY DEF PersistInv, Typed, TypeOK, OtherTypes
  <2>2. PICK u \in Savers : CommitSave(u)
    <3>1. commits' # commits
      BY <2>1
    <3> QED
      BY <3>1 DEF Next, Apply, Send, SendFails, AofWorker, Receive, CloseBatch, InsertBatch, CommitBatch,
                  FlushFails, StartSave, Saver, CopyKey, BeginSave, BeginFails, Upsert, DeleteStale,
                  SnapshotFails, CommitFails, Exit, Crash, Halt, Restart, history
  <2>3. u = s
    <3>1. pc[u] = "commit"
      BY <2>2 DEF CommitSave
    <3> QED
      BY <3>1 DEF PersistInv, SnapshotInv, OneWriter
  <2>4. kv'[k] = image[s][k]
    BY <2>2, <2>3 DEF CommitSave, PersistInv, SnapshotInv
  <2>5. Abs(kv[k]) <= Abs(image[s][k])
    BY DEF PersistInv, Forward, Saving, Copied
  <2>6. Abs(kv[k]) \in Nat /\ Abs(image[s][k]) \in Nat
    BY <2>1, AbsNat DEF Store
  <2> QED
    BY <2>4, <2>5, <2>6
<1> QED
  BY <1>1, PersistAlways, PTL DEF Spec, NoStepBack
=============================================================================
