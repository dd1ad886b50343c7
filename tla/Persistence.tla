---------------------------- MODULE Persistence ----------------------------
(***************************************************************************)
(* MuonCache's persistence (src/src/muon_cache/persist.rs and its callers  *)
(* in server.rs and cmd_handlers.rs), built with libsql.                   *)
(*                                                                         *)
(* A write is applied to the store under its shard's lock and logged after *)
(* the lock is released: the entry goes into a bounded channel, from which *)
(* one worker thread takes batches and inserts each in a transaction of    *)
(* its own connection.  SAVE, BGSAVE and the shutdown handler copy the     *)
(* store shard by shard and write the copy in a transaction of the one     *)
(* connection they share.  Both connections open the same SQLite database, *)
(* which has one writer at a time: a statement that finds the other        *)
(* connection writing fails once its busy timeout (none by default) ends.  *)
(*                                                                         *)
(* A key stands for a shard's worth of entries.  Its content is the number *)
(* of the write that produced it, negative if that write deleted the key   *)
(* (a table then has no row) and 0 if there was none.                      *)
(***************************************************************************)
EXTENDS Integers, Sequences, FiniteSets

CONSTANTS Clients,      \* connections that write and SAVE
          Shut,         \* the task that runs graceful_shutdown
          NumKeys,      \* keys 1 .. NumKeys, in shard order
          QueueCap,     \* AOF_QUEUE_CAPACITY (4096 in the code)
          BatchMax,     \* AOF_BATCH_MAX (256 in the code)
          AofEnabled,   \* --aof
          DiskFaults,   \* whether statements may also fail by I/O error
          MaxWrites,    \* bound: writes applied
          MaxSaves,     \* bound: SAVEs started
          MaxStops,     \* bound: times the process stops
          None

Keys == 1 .. NumKeys
Savers == Clients \cup {Shut}

ASSUME PersistenceAssumption ==
    /\ NumKeys \in Nat \ {0} /\ QueueCap \in Nat \ {0} /\ BatchMax \in Nat \ {0}
    /\ AofEnabled \in BOOLEAN /\ DiskFaults \in BOOLEAN
    /\ MaxWrites \in Nat /\ MaxSaves \in Nat /\ MaxStops \in Nat
    /\ Shut \notin Clients /\ None \notin Savers /\ None \notin {"save", "aof"}

VARIABLES
    up,      \* whether the process runs
    mem,     \* the store: the write each key's content comes from
    pc,      \* where each client and the shutdown task is
    entry,   \* the write a client has applied and not yet logged
    image,   \* the copy of the store a saver makes
    at,      \* the key a saver copies next
    queue,   \* the AOF channel
    batch,   \* the worker's batch
    worker,  \* where the AOF worker is
    txn,     \* the saver whose transaction the shared connection has open
    work,    \* the snapshot tables as that transaction sees them
    lock,    \* which connection may write the database: "save", "aof" or None
    kv,      \* the snapshot tables as committed
    aof,     \* the aof_log table as committed
    writes, saves, stops,   \* counters for the bounds
    sent,    \* history: entries put into the channel so far
    dropped, \* history: entries that will never be in aof_log
    saved,   \* history: the copy that was committed last
    commits, \* history: snapshots committed so far
    base,    \* history: commits when a saver began to copy
    loaded   \* history: whether the last start read every row

volatile == <<mem, pc, entry, image, at, queue, batch, worker, txn, work, lock>>
durable == <<kv, aof>>
counters == <<writes, saves, stops>>
history == <<sent, dropped, saved, commits, base>>
vars == <<up, volatile, durable, counters, history, loaded>>

Store == [Keys -> Int]
Blank == [k \in Keys |-> 0]

\* The rows of a table: a deleted key has none.
Rows(table) == [k \in {j \in Keys : table[j] > 0} |-> table[k]]

\* The worker runs, unless there is none or it could not open the database.
Started == IF AofEnabled THEN {"recv", "dead"} ELSE {"dead"}

Init ==
    /\ up = TRUE
    /\ mem = Blank /\ kv = Blank /\ work = Blank
    /\ pc = [s \in Savers |-> "idle"]
    /\ entry = [c \in Clients |-> None]
    /\ image = [s \in Savers |-> Blank]
    /\ at = [s \in Savers |-> 1]
    /\ queue = <<>> /\ batch = <<>> /\ aof = <<>>
    /\ worker \in Started
    /\ txn = None /\ lock = None
    /\ writes = 0 /\ saves = 0 /\ stops = 0
    /\ sent = 0 /\ dropped = {} /\ saved = Blank
    /\ commits = 0 /\ base = [s \in Savers |-> 0] /\ loaded = TRUE

Goto(s, l) == pc' = [pc EXCEPT ![s] = l]

----------------------------------------------------------------------------
(* Writes and their log entries.                                           *)

\* A command changes a key with the shard locked; what a script writes is not
\* logged (skip_aof) ...
Apply(c, k, del, skip) ==
    /\ up /\ pc[c] = "idle" /\ writes < MaxWrites
    /\ writes' = writes + 1
    /\ mem' = [mem EXCEPT ![k] = IF del THEN -writes' ELSE writes']
    /\ IF AofEnabled /\ ~skip
       THEN /\ entry' = [entry EXCEPT ![c] = [by |-> c, key |-> k, n |-> writes']]
            /\ Goto(c, "log")
       ELSE UNCHANGED <<entry, pc>>
    /\ UNCHANGED <<up, image, at, queue, batch, worker, txn, work, lock, durable, saves, stops, history, loaded>>

\* An entry with its place in the order of sends (history).
Numbered(e, i) == [by |-> e.by, key |-> e.key, n |-> e.n, seq |-> i]

\* Mutant: an unbounded channel.
SendUnbounded(c) ==
    /\ up /\ pc[c] = "log" /\ worker # "dead"
    /\ sent' = sent + 1
    /\ queue' = Append(queue, Numbered(entry[c], sent'))
    /\ entry' = [entry EXCEPT ![c] = None]
    /\ Goto(c, "idle")
    /\ UNCHANGED <<up, mem, image, at, batch, worker, txn, work, lock, durable, counters, dropped, saved, commits, base, loaded>>

\* ... and is logged after the lock is gone: send blocks while the channel is
\* full.
Send(c) ==
    /\ up /\ pc[c] = "log" /\ worker # "dead" /\ Len(queue) < QueueCap
    /\ sent' = sent + 1
    /\ queue' = Append(queue, Numbered(entry[c], sent'))
    /\ entry' = [entry EXCEPT ![c] = None]
    /\ Goto(c, "idle")
    /\ UNCHANGED <<up, mem, image, at, batch, worker, txn, work, lock, durable, counters, dropped, saved, commits, base, loaded>>

\* The worker never started: the channel is closed and the error ignored.
SendFails(c) ==
    /\ up /\ pc[c] = "log" /\ worker = "dead"
    /\ entry' = [entry EXCEPT ![c] = None]
    /\ Goto(c, "idle")
    /\ UNCHANGED <<up, mem, image, at, queue, batch, worker, txn, work, lock, durable, counters, history, loaded>>

----------------------------------------------------------------------------
(* run_aof_worker and flush_aof_batch.                                     *)

\* Mutant: the batch is filled from its front.
ReceiveReversed ==
    /\ up /\ queue # <<>>
    /\ worker = "recv" \/ (worker = "fill" /\ Len(batch) < BatchMax)
    /\ batch' = <<Head(queue)>> \o batch
    /\ queue' = Tail(queue)
    /\ worker' = "fill"
    /\ UNCHANGED <<up, mem, pc, entry, image, at, txn, work, lock, durable, counters, history, loaded>>

\* recv for the first entry of a batch, recv_timeout for the others.
Receive ==
    /\ up /\ queue # <<>>
    /\ worker = "recv" \/ (worker = "fill" /\ Len(batch) < BatchMax)
    /\ batch' = Append(batch, Head(queue))
    /\ queue' = Tail(queue)
    /\ worker' = "fill"
    /\ UNCHANGED <<up, mem, pc, entry, image, at, txn, work, lock, durable, counters, history, loaded>>

\* Mutant: recv_timeout is retried until the batch is full.
CloseFullBatch ==
    /\ up /\ worker = "fill"
    /\ Len(batch) = BatchMax
    /\ worker' = "insert"
    /\ UNCHANGED <<up, mem, pc, entry, image, at, queue, batch, txn, work, lock, durable, counters, history, loaded>>

\* The batch is full, or recv_timeout has found nothing for 2 ms.
CloseBatch ==
    /\ up /\ worker = "fill"
    /\ Len(batch) = BatchMax \/ queue = <<>>
    /\ worker' = "insert"
    /\ UNCHANGED <<up, mem, pc, entry, image, at, queue, batch, txn, work, lock, durable, counters, history, loaded>>

\* BEGIN and the inserts: they need the database's write lock.
InsertBatch ==
    /\ up /\ worker = "insert" /\ lock # "save"
    /\ lock' = "aof"
    /\ worker' = "commit"
    /\ UNCHANGED <<up, mem, pc, entry, image, at, queue, batch, txn, work, durable, counters, history, loaded>>

\* Mutant: the batch is not drained.
CommitBatchKeeps ==
    /\ up /\ worker = "commit"
    /\ aof' = aof \o batch
    /\ lock' = None
    /\ worker' = "recv"
    /\ UNCHANGED <<up, mem, pc, entry, image, at, queue, batch, txn, work, kv, counters, history, loaded>>

CommitBatch ==
    /\ up /\ worker = "commit"
    /\ aof' = aof \o batch
    /\ batch' = <<>>
    /\ lock' = None
    /\ worker' = "recv"
    /\ UNCHANGED <<up, mem, pc, entry, image, at, queue, txn, work, kv, counters, history, loaded>>

Seqs(s) == {s[i].seq : i \in DOMAIN s}

\* A statement fails (the other connection is writing, or the disk fails): the
\* transaction is rolled back and the whole batch is gone.
FlushFails ==
    /\ up
    /\ \/ worker = "insert" /\ lock = "save"
       \/ worker \in {"insert", "commit"} /\ DiskFaults
    /\ dropped' = dropped \cup Seqs(batch)
    /\ batch' = <<>>
    /\ lock' = IF lock = "aof" THEN None ELSE lock
    /\ worker' = "recv"
    /\ UNCHANGED <<up, mem, pc, entry, image, at, queue, txn, work, durable, counters, sent, saved, commits, base, loaded>>

AofWorker == Receive \/ CloseBatch \/ InsertBatch \/ CommitBatch \/ FlushFails

----------------------------------------------------------------------------
(* SAVE, BGSAVE and the shutdown handler: snapshot_dbs_for_persistence,    *)
(* then LibsqlPersist::snapshot.                                           *)

StartSave(s) ==
    /\ up /\ pc[s] = "idle"
    /\ \/ s \in Clients /\ saves < MaxSaves /\ saves' = saves + 1
       \/ s = Shut /\ stops < MaxStops /\ UNCHANGED saves
    /\ base' = [base EXCEPT ![s] = commits]
    /\ Goto(s, "copy")
    /\ UNCHANGED <<up, mem, entry, image, at, queue, batch, worker, txn, work, lock, durable, writes, stops, sent, dropped, saved, commits, loaded>>

\* One shard is locked, purged and cloned at a time.
CopyKey(s) ==
    /\ up /\ pc[s] = "copy"
    /\ image' = [image EXCEPT ![s][at[s]] = mem[at[s]]]
    /\ at' = [at EXCEPT ![s] = @ + 1]
    /\ Goto(s, IF at[s] = NumKeys THEN "begin" ELSE "copy")
    /\ UNCHANGED <<up, mem, entry, queue, batch, worker, txn, work, lock, durable, counters, history, loaded>>

\* What follows a reply: a client goes on, the shutdown task calls exit(0).
Finish(s) == /\ Goto(s, IF s = Shut THEN "exit" ELSE "idle")
             /\ image' = [image EXCEPT ![s] = IF s = Shut THEN @ ELSE Blank]
             /\ at' = [at EXCEPT ![s] = 1]

\* Mutant: no error when the connection is in a transaction already.
BeginAnyway(s) ==
    /\ up /\ pc[s] = "begin"
    /\ txn' = s
    /\ work' = kv
    /\ Goto(s, "upsert")
    /\ UNCHANGED <<up, mem, entry, image, at, queue, batch, worker, lock, durable, counters, history, loaded>>

\* BEGIN on the shared connection.
BeginSave(s) ==
    /\ up /\ pc[s] = "begin" /\ txn = None
    /\ txn' = s
    /\ work' = kv
    /\ Goto(s, "upsert")
    /\ UNCHANGED <<up, mem, entry, image, at, queue, batch, worker, lock, durable, counters, history, loaded>>

\* Another saver's transaction is open, or the disk fails: an error, no ROLLBACK.
BeginFails(s) ==
    /\ up /\ pc[s] = "begin" /\ (txn # None \/ DiskFaults)
    /\ Finish(s)
    /\ UNCHANGED <<up, mem, entry, queue, batch, worker, txn, work, lock, durable, counters, history, loaded>>

\* The first statement that writes a row takes the database's write lock.
TakeLock(rows) == IF rows = {} THEN UNCHANGED lock ELSE lock # "aof" /\ lock' = "save"

Live(s) == DOMAIN Rows(image[s])
Stale(s) == DOMAIN Rows(work) \ Live(s)

\* Rows of the keys in the copy are inserted or replaced ...
Upsert(s) ==
    /\ up /\ pc[s] = "upsert"
    /\ TakeLock(Live(s))
    /\ work' = [k \in Keys |-> IF k \in Live(s) THEN image[s][k] ELSE work[k]]
    /\ Goto(s, "stale")
    /\ UNCHANGED <<up, mem, entry, image, at, queue, batch, worker, txn, durable, counters, history, loaded>>

\* Mutant: the rows of keys that are gone stay.
SkipStale(s) ==
    /\ up /\ pc[s] = "stale"
    /\ Goto(s, "commit")
    /\ UNCHANGED <<up, mem, entry, image, at, queue, batch, worker, txn, work, lock, durable, counters, history, loaded>>

\* ... and the rows of keys that are not in it deleted.
DeleteStale(s) ==
    /\ up /\ pc[s] = "stale"
    /\ TakeLock(Stale(s))
    /\ work' = [k \in Keys |-> IF k \in Live(s) THEN work[k] ELSE image[s][k]]
    /\ Goto(s, "commit")
    /\ UNCHANGED <<up, mem, entry, image, at, queue, batch, worker, txn, durable, counters, history, loaded>>

\* A statement of snapshot_inner fails (the AOF worker is writing, or has written
\* since the transaction's first read, or the disk fails): ROLLBACK.
SnapshotFails(s) ==
    /\ up
    /\ \/ pc[s] = "upsert" /\ Live(s) # {} /\ lock = "aof"
       \/ pc[s] = "stale" /\ Stale(s) # {} /\ lock # "save" /\ AofEnabled
       \/ pc[s] \in {"upsert", "stale"} /\ DiskFaults
    /\ txn' = None /\ work' = Blank
    /\ lock' = IF lock = "save" THEN None ELSE lock
    /\ Finish(s)
    /\ UNCHANGED <<up, mem, entry, queue, batch, worker, durable, counters, history, loaded>>

CommitSave(s) ==
    /\ up /\ pc[s] = "commit"
    /\ kv' = work
    /\ saved' = image[s]
    /\ txn' = None /\ work' = Blank
    /\ lock' = IF lock = "save" THEN None ELSE lock
    /\ commits' = commits + 1
    /\ Finish(s)
    /\ UNCHANGED <<up, mem, entry, queue, batch, worker, aof, counters, sent, dropped, base, loaded>>

\* COMMIT fails: the error is returned without a ROLLBACK.  SQLite has either
\* rolled the transaction back itself or left it open.
CommitFails(s) ==
    /\ up /\ pc[s] = "commit" /\ DiskFaults
    /\ \/ /\ txn' = None /\ work' = Blank
          /\ lock' = IF lock = "save" THEN None ELSE lock
       \/ UNCHANGED <<txn, lock, work>>
    /\ Finish(s)
    /\ UNCHANGED <<up, mem, entry, queue, batch, worker, durable, counters, history, loaded>>

Saver(s) ==
    \/ CopyKey(s) \/ BeginSave(s) \/ BeginFails(s)
    \/ Upsert(s) \/ DeleteStale(s) \/ SnapshotFails(s)
    \/ CommitSave(s) \/ CommitFails(s)

----------------------------------------------------------------------------
(* The end of the process, and its next start.                             *)

\* The process ends and takes the store, the channel and the open transactions
\* with it.
Halt ==
    /\ up /\ stops < MaxStops
    /\ up' = FALSE
    /\ stops' = stops + 1
    /\ dropped' = dropped \cup Seqs(batch) \cup Seqs(queue)
    /\ queue' = <<>> /\ batch' = <<>> /\ worker' = "dead"
    /\ txn' = None /\ lock' = None /\ work' = Blank
    /\ mem' = Blank
    /\ entry' = [c \in Clients |-> None]
    /\ pc' = [s \in Savers |-> "idle"]
    /\ image' = [s \in Savers |-> Blank] /\ at' = [s \in Savers |-> 1]
    /\ UNCHANGED <<durable, writes, saves, sent, saved, commits, base, loaded>>

\* Mutant: exit joins the AOF worker, whose channel never closes.
ExitAfterWorker == pc[Shut] = "exit" /\ worker = "dead" /\ Halt

\* std::process::exit(0) once graceful_shutdown has returned, whoever else is at
\* work; nothing waits for the AOF worker.
Exit == pc[Shut] = "exit" /\ Halt

\* A panic (the build aborts) or a kill.
Crash == pc[Shut] # "exit" /\ Halt

\* Mutant: the snapshot is not loaded.
RestartEmpty ==
    /\ ~up
    /\ up' = TRUE
    /\ worker' \in Started
    /\ mem' = Blank
    /\ loaded' = TRUE
    /\ UNCHANGED <<pc, entry, image, at, queue, batch, txn, work, lock, durable, counters, history>>

\* The next start reads the snapshot tables, and those only.  An error while
\* reading is ignored: the keys up to some row are loaded.
Restart ==
    /\ ~up
    /\ up' = TRUE
    /\ worker' \in Started
    /\ \E K \in IF DiskFaults THEN SUBSET Keys ELSE {Keys} :
          /\ mem' = [k \in Keys |-> IF k \in K THEN kv[k] ELSE 0]
          /\ loaded' = (K = Keys)
    /\ UNCHANGED <<pc, entry, image, at, queue, batch, txn, work, lock, durable, counters, history>>

Next ==
    \/ \E c \in Clients : \/ Send(c) \/ SendFails(c)
                         \/ \E k \in Keys, del, skip \in BOOLEAN : Apply(c, k, del, skip)
    \/ AofWorker
    \/ \E s \in Savers : StartSave(s) \/ Saver(s)
    \/ Exit \/ Crash \/ Restart

\* The worker thread and the tasks are scheduled; clients need not send anything.
Fairness == /\ WF_vars(AofWorker)
            /\ \A c \in Clients : WF_vars(Send(c) \/ SendFails(c))
            /\ \A s \in Savers : WF_vars(Saver(s))
            /\ WF_vars(Exit)

Spec == Init /\ [][Next]_vars /\ Fairness

----------------------------------------------------------------------------
(* Properties.                                                             *)

LogEntries == [by : Clients, key : Keys, n : Nat, seq : Nat]
Steps == {"idle", "log", "copy", "begin", "upsert", "stale", "commit", "exit"}

TypeOK ==
    /\ up \in BOOLEAN
    /\ mem \in Store /\ kv \in Store /\ work \in Store
    /\ pc \in [Savers -> Steps]
    /\ image \in [Savers -> Store]
    /\ at \in [Savers -> 1 .. NumKeys + 1]
    /\ queue \in Seq(LogEntries) /\ batch \in Seq(LogEntries) /\ aof \in Seq(LogEntries)
    /\ Len(queue) <= QueueCap /\ Len(batch) <= BatchMax
    /\ worker \in {"recv", "fill", "insert", "commit", "dead"}
    /\ txn \in Savers \cup {None} /\ lock \in {"save", "aof", None}

\* Everything ever put into the channel, by where it is now.
Pipeline == aof \o batch \o queue

\* The log is written in the order of the sends, each entry once, and every
\* entry is on its way, logged, or in a batch that failed or died as a whole.
AofConserved ==
    /\ \A i, j \in DOMAIN Pipeline : i < j => Pipeline[i].seq < Pipeline[j].seq
    /\ Seqs(Pipeline) \cap dropped = {}
    /\ Seqs(Pipeline) \cup dropped = 1 .. sent

\* The writes of one connection are logged in the order it made them.
ProgramOrder ==
    \A i, j \in DOMAIN aof : i < j /\ aof[i].by = aof[j].by => aof[i].n < aof[j].n

\* The writes to one key are logged in the order they were applied: "commands
\* logged in order" (tickets/archive/T-000057.md).
KeyOrder ==
    \A i, j \in DOMAIN aof : i < j /\ aof[i].key = aof[j].key => aof[i].n < aof[j].n

\* Whatever fails or stops in between, the snapshot tables are the copy of the
\* whole store that the last successful SAVE made, with every key it had and no
\* other: never a part of it and never a mixture of two.
SnapshotWhole == Rows(kv) = Rows(saved)

\* The shared connection's transaction is written by the saver that began it and
\* by no other, and whichever connection has changed something has the database
\* to itself.
OneWriter ==
    /\ \A s, u \in Savers : {pc[s], pc[u]} \subseteq {"upsert", "stale", "commit"} => s = u
    /\ \A s \in Savers : pc[s] \in {"upsert", "stale", "commit"} => txn = s
    /\ lock = "save" => txn # None
    /\ txn # None /\ Rows(work) # Rows(kv) => lock = "save"
    /\ worker = "commit" => lock = "aof"

Abs(n) == IF n < 0 THEN -n ELSE n

\* A snapshot never takes a key back to an earlier write than the tables have,
\* unless another one was committed while this one was being made, or the store
\* had been loaded in part only.
NoStepBack ==
    [][\A s \in Savers : pc[s] = "commit" /\ commits' = commits + 1 /\ base[s] = commits /\ loaded
          => \A k \in Keys : Abs(kv'[k]) >= Abs(kv[k])]_vars

\* On shutdown the store is snapshotted to the persistence store (todo.md): when
\* the process exits the tables hold what the shutdown task copied.
ShutdownSaves == pc[Shut] = "exit" => Rows(kv) = Rows(image[Shut])

\* The channel drains and nobody waits for it forever, even while a SAVE keeps
\* the database busy.
LogDrains ==
    /\ \A c \in Clients : pc[c] = "log" ~> pc[c] # "log"
    /\ queue \o batch # <<>> ~> queue \o batch = <<>>

\* Every SAVE is answered, and a shutdown that was asked for comes to its end.
SavesEnd == \A s \in Savers : pc[s] \notin {"idle", "log"} ~> pc[s] = "idle"
=============================================================================
