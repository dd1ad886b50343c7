----------------------------- MODULE ShardLocks -----------------------------
(***************************************************************************)
(* The locking layer of MuonCache's `Db` (src/src/muon_cache/store.rs).    *)
(* A database is split into shards, each behind its own mutex.  Worker     *)
(* threads run commands: SMOVE locks the shards of both keys, the lower    *)
(* index first; everything else (a command on one key, SUNION and SINTER   *)
(* over several, DBSIZE, KEYS, FLUSHDB and the snapshot over all shards)   *)
(* holds one shard at a time and goes from one to the next.                *)
(*                                                                         *)
(* The data is reduced to sets whose members are only ever moved.  A mutex *)
(* is either free or owned; which waiting thread gets it next is open, as  *)
(* it is for std::sync::Mutex.                                             *)
(***************************************************************************)
EXTENDS Integers, Sequences

CONSTANTS Threads,      \* worker threads of the runtime
          NumShards,    \* NUM_SHARDS (64 in the code)
          Keys,
          ShardOf,      \* shard_index: the shard of every key
          WrongKeys,    \* keys that hold something other than a set
          Members,      \* what the sets contain
          MaxCommands,  \* bound: commands one thread runs
          None

Shards == 0 .. NumShards - 1

ASSUME ShardLocksAssumption ==
    /\ NumShards \in Nat \ {0}
    /\ ShardOf \in [Keys -> Shards]
    /\ WrongKeys \subseteq Keys
    /\ Keys # {} /\ Members # {}
    /\ None \notin Threads
    /\ MaxCommands \in Nat

VARIABLES owner,   \* the thread that holds each shard's mutex, or None
          sets,    \* the members of each key's set
          pc,      \* where each thread is
          move,    \* the SMOVE a thread runs
          plan,    \* the shards a reading thread has yet to visit
          lost,    \* members an SMOVE took out and could not put anywhere
          budget   \* commands each thread may still start

vars == <<owner, sets, pc, move, plan, lost, budget>>

Moves == [src : Keys, dst : Keys, m : Members]
NoMove == CHOOSE mv \in Moves : TRUE   \* what a thread outside SMOVE has

\* Sets partition the members at the start; keys of other types have none.
Init ==
    /\ owner = [s \in Shards |-> None]
    /\ sets \in [Keys -> SUBSET Members]
    /\ \A m \in Members : \E k \in Keys : \A j \in Keys : m \in sets[j] <=> j = k
    /\ \A k \in WrongKeys : sets[k] = {}
    /\ pc = [t \in Threads |-> "idle"]
    /\ move = [t \in Threads |-> NoMove]
    /\ plan = [t \in Threads |-> <<>>]
    /\ lost = {}
    /\ budget = [t \in Threads |-> MaxCommands]

Goto(t, l) == pc' = [pc EXCEPT ![t] = l]
Lock(t, s) == owner[s] = None /\ owner' = [owner EXCEPT ![s] = t]
Unlock(s) == owner' = [owner EXCEPT ![s] = None]

Start(t, l) == /\ pc[t] = "idle"
               /\ budget[t] > 0
               /\ budget' = [budget EXCEPT ![t] = @ - 1]
               /\ Goto(t, l)

----------------------------------------------------------------------------
(* SMOVE.                                                                  *)

Si(t) == ShardOf[move[t].src]
Di(t) == ShardOf[move[t].dst]
\* Mutant: the source's shard is locked first, wherever it is.
SourceFirst(t) == <<Si(t), Di(t)>>
LockOrder(t) == IF Si(t) < Di(t) THEN <<Si(t), Di(t)>> ELSE <<Di(t), Si(t)>>
First(t) == LockOrder(t)[1]
Second(t) == LockOrder(t)[2]

BeginMove(t, mv) ==
    /\ Start(t, "first")
    /\ move' = [move EXCEPT ![t] = mv]
    /\ UNCHANGED <<owner, sets, plan, lost>>

\* Mutant: one lock is taken to be enough.
LockOnlyFirst(t) ==
    /\ pc[t] = "first"
    /\ Lock(t, First(t))
    /\ Goto(t, "remove")
    /\ UNCHANGED <<sets, move, plan, lost, budget>>

LockFirst(t) ==
    /\ pc[t] = "first"
    /\ Lock(t, First(t))
    /\ Goto(t, IF Si(t) = Di(t) THEN "remove" ELSE "second")
    /\ UNCHANGED <<sets, move, plan, lost, budget>>

LockSecond(t) ==
    /\ pc[t] = "second"
    /\ Lock(t, Second(t))
    /\ Goto(t, "remove")
    /\ UNCHANGED <<sets, move, plan, lost, budget>>

\* The source is no set, or has no such member: the command ends here.
NothingToMove(t) ==
    /\ pc[t] = "remove"
    /\ move[t].src \in WrongKeys \/ move[t].m \notin sets[move[t].src]
    /\ Goto(t, "unlock")
    /\ UNCHANGED <<owner, sets, move, plan, lost, budget>>

RemoveFromSource(t) ==
    /\ pc[t] = "remove"
    /\ move[t].src \notin WrongKeys /\ move[t].m \in sets[move[t].src]
    /\ sets' = [sets EXCEPT ![move[t].src] = @ \ {move[t].m}]
    /\ Goto(t, "insert")
    /\ UNCHANGED <<owner, move, plan, lost, budget>>

\* Mutant: a destination that does not exist yet is not created.
InsertOnlyIntoExisting(t) ==
    /\ pc[t] = "insert"
    /\ sets' = [sets EXCEPT ![move[t].dst] = IF @ = {} THEN @ ELSE @ \cup {move[t].m}]
    /\ Goto(t, "unlock")
    /\ UNCHANGED <<owner, move, plan, lost, budget>>

\* The destination's type is looked at only now; if it is not a set the
\* command fails with the member already gone.
InsertIntoDest(t) ==
    /\ pc[t] = "insert"
    /\ \/ /\ move[t].dst \notin WrongKeys
          /\ sets' = [sets EXCEPT ![move[t].dst] = @ \cup {move[t].m}]
          /\ UNCHANGED lost
       \/ /\ move[t].dst \in WrongKeys
          /\ lost' = lost \cup {move[t].m}
          /\ UNCHANGED sets
    /\ Goto(t, "unlock")
    /\ UNCHANGED <<owner, move, plan, budget>>

\* Mutant: only the second guard is dropped.
UnlockOnlySecond(t) ==
    /\ pc[t] = "unlock"
    /\ Unlock(Second(t))
    /\ Goto(t, "idle")
    /\ move' = [move EXCEPT ![t] = NoMove]
    /\ UNCHANGED <<sets, plan, lost, budget>>

\* The guards are dropped in reverse order: the second shard's first.
UnlockSecond(t) ==
    /\ pc[t] = "unlock"
    /\ Unlock(Second(t))
    /\ Goto(t, IF Si(t) = Di(t) THEN "idle" ELSE "unlockFirst")
    /\ move' = [move EXCEPT ![t] = IF Si(t) = Di(t) THEN NoMove ELSE @]
    /\ UNCHANGED <<sets, plan, lost, budget>>

UnlockFirst(t) ==
    /\ pc[t] = "unlockFirst"
    /\ Unlock(First(t))
    /\ Goto(t, "idle")
    /\ move' = [move EXCEPT ![t] = NoMove]
    /\ UNCHANGED <<sets, plan, lost, budget>>

----------------------------------------------------------------------------
(* Commands that hold one shard at a time.                                 *)

AllShards == [i \in 1 .. NumShards |-> i - 1]

\* A command that visits the shards p, one after the other.
BeginRead(t, p) ==
    /\ Start(t, "visit")
    /\ plan' = [plan EXCEPT ![t] = p]
    /\ UNCHANGED <<owner, sets, move, lost>>

LockVisited(t) ==
    /\ pc[t] = "visit"
    /\ Lock(t, Head(plan[t]))
    /\ Goto(t, "read")
    /\ UNCHANGED <<sets, move, plan, lost, budget>>

\* Mutant: the loop over the shards runs once more.
LeaveVisitedLate(t) ==
    /\ pc[t] = "read"
    /\ Unlock(Head(plan[t]))
    /\ plan' = [plan EXCEPT ![t] = Tail(@)]
    /\ Goto(t, IF plan[t] = <<>> THEN "idle" ELSE "visit")
    /\ UNCHANGED <<sets, move, lost, budget>>

\* The entries are read, or one of them written, while the shard is held.
LeaveVisited(t) ==
    /\ pc[t] = "read"
    /\ Unlock(Head(plan[t]))
    /\ plan' = [plan EXCEPT ![t] = Tail(@)]
    /\ Goto(t, IF Len(plan[t]) = 1 THEN "idle" ELSE "visit")
    /\ UNCHANGED <<sets, move, lost, budget>>

----------------------------------------------------------------------------

Step(t) ==
    \/ LockFirst(t) \/ LockSecond(t)
    \/ NothingToMove(t) \/ RemoveFromSource(t) \/ InsertIntoDest(t)
    \/ UnlockSecond(t) \/ UnlockFirst(t)
    \/ LockVisited(t) \/ LeaveVisited(t)

Begin(t) == \/ \E mv \in Moves : BeginMove(t, mv)
            \/ \E k \in Keys : BeginRead(t, <<ShardOf[k]>>)                  \* one key
            \/ \E k, j \in Keys : BeginRead(t, <<ShardOf[k], ShardOf[j]>>)   \* SUNION k j
            \/ BeginRead(t, AllShards)                                        \* DBSIZE

Next == \E t \in Threads : Step(t) \/ Begin(t)

\* A thread that can take its next step takes it; clients need not send commands.
Fairness == \A t \in Threads : WF_vars(Step(t))

Spec == Init /\ [][Next]_vars /\ Fairness

----------------------------------------------------------------------------
(* Properties.                                                             *)

Labels == {"idle", "first", "second", "remove", "insert", "unlock", "unlockFirst",
           "visit", "read"}

TypeOK ==
    /\ owner \in [Shards -> Threads \cup {None}]
    /\ sets \in [Keys -> SUBSET Members]
    /\ pc \in [Threads -> Labels]
    /\ move \in [Threads -> Moves]
    /\ plan \in [Threads -> Seq(Shards)]
    /\ \A t \in Threads : pc[t] \in {"visit", "read"} => plan[t] # <<>>
    /\ lost \subseteq Members
    /\ budget \in [Threads -> Nat]

\* Whether a thread's guards cover shard s, by where it is in the code.
Holds(t, s) ==
    \/ pc[t] \in {"remove", "insert", "unlock"} /\ s \in {First(t), Second(t)}
    \/ pc[t] \in {"second", "unlockFirst"} /\ s = First(t)
    \/ pc[t] = "read" /\ s = Head(plan[t])

\* A mutex is owned by exactly the thread whose code is between lock() and the
\* drop of the guard: none is leaked, none is dropped early.
LocksMatch == \A t \in Threads, s \in Shards : owner[s] = t <=> Holds(t, s)

\* Whether a thread is about to call lock() on shard s.
Waits(t, s) ==
    \/ pc[t] = "first" /\ s = First(t)
    \/ pc[t] = "second" /\ s = Second(t)
    \/ pc[t] = "visit" /\ s = Head(plan[t])

\* "Locks are acquired in shard index order to prevent deadlocks" (store.rs):
\* whoever waits for a shard whose holder waits too waits for a lower one than
\* the holder does, so no chain of waiting threads closes into a cycle.
WaitsClimb ==
    \A t, u \in Threads : \A s, r \in Shards :
       Waits(t, s) /\ owner[s] = u /\ Waits(u, r) => s < r

\* A member that commands only move is in exactly one place: one set, or the
\* hands of one SMOVE between its two halves, or lost to an SMOVE onto a key
\* of another type.
InHand(m) == {t \in Threads : pc[t] = "insert" /\ move[t].m = m}
MemberOnce ==
    \A m \in Members :
       LET inSets == {k \in Keys : m \in sets[k]}
       IN  /\ \A k, j \in inSets : k = j
           /\ \A t, u \in InHand(m) : t = u
           /\ inSets # {} => InHand(m) = {}
           /\ m \in lost => inSets = {} /\ InHand(m) = {}
           /\ m \in lost \/ inSets # {} \/ InHand(m) # {}

\* No command reads a shard that an SMOVE has half changed: it is a reader's
\* turn only when the member is in the source or in the destination.
ReadersSeeWholeMoves ==
    \A t, u \in Threads :
       pc[t] = "read" /\ pc[u] = "insert" => Head(plan[t]) \notin {Si(u), Di(u)}

\* Only an SMOVE between two shards is ever between its two locks.
TwoShards == \A t \in Threads : pc[t] \in {"second", "unlockFirst"} => Si(t) # Di(t)

\* What is inductive, and implies the properties above.
Inv == TypeOK /\ TwoShards /\ LocksMatch /\ MemberOnce

\* Every command a client starts ends.  (Each thread runs finitely many, so a
\* mutex that is not fair cannot pass a waiting thread over forever.)
EveryCommandEnds == \A t \in Threads : pc[t] # "idle" ~> pc[t] = "idle"

=============================================================================
