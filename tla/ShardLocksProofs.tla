-------------------------- MODULE ShardLocksProofs --------------------------
(***************************************************************************)
(* For every number of threads, shards, keys and commands: the mutexes     *)
(* match the code positions, waiting threads never form a cycle, a member  *)
(* is never duplicated or dropped by SMOVE except onto a key of another    *)
(* type, and no command reads a shard in the middle of a move.             *)
(***************************************************************************)
EXTENDS ShardLocks, SequenceTheorems, TLAPS

\* Shard indices are numbers and every key has one.
LEMMA ShardFacts ==
    /\ Shards \subseteq Int
    /\ \A k \in Keys : ShardOf[k] \in Shards
  BY ShardLocksAssumption DEF Shards

\* A move exists, so that a thread outside SMOVE has one too.
LEMMA NoMoveType == NoMove \in Moves
<1>1. PICK k \in Keys, x \in Members : TRUE
  BY ShardLocksAssumption
<1>2. [src |-> k, dst |-> k, m |-> x] \in Moves
  BY <1>1 DEF Moves
<1> QED
  BY <1>2 DEF NoMove

\* The two locks of an SMOVE are those of its two keys, the lower first.
LEMMA OrderFacts ==
    ASSUME TypeOK, NEW t \in Threads
    PROVE  /\ Si(t) \in Shards /\ Di(t) \in Shards
           /\ First(t) \in Shards /\ Second(t) \in Shards
           /\ {First(t), Second(t)} = {Si(t), Di(t)}
           /\ First(t) <= Second(t)
           /\ (First(t) = Second(t)) <=> (Si(t) = Di(t))
<1>1. move[t] \in Moves
  BY DEF TypeOK
<1>2. Si(t) \in Shards /\ Di(t) \in Shards
  BY <1>1, ShardFacts DEF Si, Di, Moves
<1>3. Si(t) \in Int /\ Di(t) \in Int
  BY <1>2, ShardFacts
<1>4. CASE Si(t) < Di(t)
  BY <1>2, <1>3, <1>4 DEF First, Second, LockOrder
<1>5. CASE ~(Si(t) < Di(t))
  BY <1>2, <1>3, <1>5 DEF First, Second, LockOrder
<1> QED
  BY <1>4, <1>5

\* What is left of a visit after its first shard.
LEMMA RestOfPlan ==
    ASSUME NEW S, NEW p \in Seq(S), p # <<>>
    PROVE  /\ Head(p) \in S
           /\ Tail(p) \in Seq(S)
           /\ Len(p) # 1 => Tail(p) # <<>>
<1>1. Head(p) \in S /\ Tail(p) \in Seq(S) /\ Len(Tail(p)) = Len(p) - 1
  BY HeadTailProperties
<1>2. Len(p) \in Nat
  BY LenProperties
<1>3. \A q : q = <<>> => Len(q) = 0
  OBVIOUS
<1>4. \A a \in Nat : \A b : b = a - 1 /\ b = 0 => a = 1
  OBVIOUS
<1>5. ASSUME Tail(p) = <<>> PROVE Len(p) = 1
  <2>1. Len(Tail(p)) = 0
    BY <1>3, <1>5, Zenon
  <2> QED
    BY <1>1, <1>2, <1>4, <2>1, Zenon
<1> QED
  BY <1>1, <1>5, Zenon

\* Where a reading command goes is a non-empty sequence of shards.
IsPlan(p) == p \in Seq(Shards) /\ p # <<>>
LEMMA PlanFacts ==
    /\ \A k \in Keys : IsPlan(<<ShardOf[k]>>)
    /\ \A k, j \in Keys : IsPlan(<<ShardOf[k], ShardOf[j]>>)
    /\ IsPlan(AllShards)
<1>1. AllShards \in [1 .. NumShards -> Shards]
  BY ShardLocksAssumption DEF Shards, AllShards
<1>2. AllShards \in Seq(Shards) /\ Len(AllShards) = NumShards
  BY <1>1, ShardLocksAssumption DEF AllShards
<1>3. IsPlan(AllShards)
  BY <1>2, ShardLocksAssumption DEF IsPlan
<1> QED
  BY <1>3, ShardFacts DEF IsPlan

----------------------------------------------------------------------------
(* The invariant holds initially.                                          *)

\* Nothing is locked, every thread is idle and every member is in one set.
LEMMA InitInv == Init => Inv
<1> SUFFICES ASSUME Init PROVE Inv
  OBVIOUS
<1>1. TypeOK
  BY NoMoveType, ShardLocksAssumption DEF Init, TypeOK, Labels
<1>2. TwoShards
  BY DEF Init, TwoShards
<1>3. LocksMatch
  BY ShardLocksAssumption DEF Init, LocksMatch, Holds
<1>4. MemberOnce
  BY DEF Init, MemberOnce, InHand
<1> QED
  BY <1>1, <1>2, <1>3, <1>4 DEF Inv

----------------------------------------------------------------------------
(* Every step preserves it.                                                *)

\* Taking and dropping a mutex, and moving on, keep the types.
LEMMA TypeStep == TypeOK /\ [Next]_vars => TypeOK'
<1> SUFFICES ASSUME TypeOK, [Next]_vars PROVE TypeOK'
  OBVIOUS
<1> USE NoMoveType, OrderFacts, ShardLocksAssumption DEF TypeOK, Labels
<1>1. CASE UNCHANGED vars
  BY <1>1 DEF vars
<1>2. CASE Next
  <2>1. PICK t \in Threads : Step(t) \/ Begin(t)
    BY <1>2 DEF Next
  <2>2. ASSUME NEW mv \in Moves, BeginMove(t, mv) PROVE TypeOK'
    BY <2>2 DEF BeginMove, Start, Goto
  <2>3. ASSUME NEW p, IsPlan(p), BeginRead(t, p) PROVE TypeOK'
    BY <2>3 DEF BeginRead, Start, Goto, IsPlan
  <2>4. CASE LockFirst(t)
    BY <2>4 DEF LockFirst, Lock, Goto
  <2>5. CASE LockSecond(t)
    BY <2>5 DEF LockSecond, Lock, Goto
  <2>6. CASE NothingToMove(t)
    BY <2>6 DEF NothingToMove, Goto
  <2>7. CASE RemoveFromSource(t)
    BY <2>7 DEF RemoveFromSource, Goto, Moves
  <2>8. CASE InsertIntoDest(t)
    <3>1. move[t] \in Moves
      OBVIOUS
    <3>2. move[t].m \in Members
      BY <3>1 DEF Moves
    <3> DEFINE grown == [sets EXCEPT ![move[t].dst] = @ \cup {move[t].m}]
    <3>3. grown \in [Keys -> SUBSET Members]
      BY <3>2
    <3>4. sets' \in {sets, grown} /\ lost' \in {lost, lost \cup {move[t].m}}
      BY <2>8 DEF InsertIntoDest
    <3> QED
      BY <2>8, <3>2, <3>3, <3>4 DEF InsertIntoDest, Goto
  <2>9. CASE UnlockSecond(t)
    BY <2>9 DEF UnlockSecond, Unlock, Goto
  <2>10. CASE UnlockFirst(t)
    BY <2>10 DEF UnlockFirst, Unlock, Goto
  <2>11. CASE LockVisited(t)
    BY <2>11 DEF LockVisited, Lock, Goto
  <2>12. CASE LeaveVisited(t)
    <3>1. plan[t] \in Seq(Shards) /\ plan[t] # <<>>
      BY <2>12 DEF LeaveVisited
    <3>2. /\ Tail(plan[t]) \in Seq(Shards)
          /\ Len(plan[t]) # 1 => Tail(plan[t]) # <<>>
          /\ Head(plan[t]) \in Shards
      BY <3>1, RestOfPlan
    <3> QED
      BY <2>12, <3>2 DEF LeaveVisited, Unlock, Goto
  <2> QED
    BY <2>1, <2>2, <2>3, <2>4, <2>5, <2>6, <2>7, <2>8, <2>9, <2>10, <2>11, <2>12, PlanFacts DEF Step, Begin
<1> QED
  BY <1>1, <1>2

\* What a thread holds and waits for depends on its own state only.
LEMMA HoldsLocal ==
    ASSUME NEW u \in Threads, NEW s \in Shards,
           pc'[u] = pc[u], move'[u] = move[u], plan'[u] = plan[u]
    PROVE  /\ Holds(u, s)' <=> Holds(u, s)
           /\ Si(u)' = Si(u) /\ Di(u)' = Di(u)
           /\ First(u)' = First(u) /\ Second(u)' = Second(u)
  BY DEF Holds, First, Second, LockOrder, Si, Di

\* A step of thread t that changes the owner of at most one shard s, from or to
\* t, leaves every other thread with the shards it holds.
LEMMA LocksStep ==
    ASSUME TypeOK, LocksMatch, NEW t \in Threads,
           \A u \in Threads \ {t} : pc'[u] = pc[u] /\ move'[u] = move[u] /\ plan'[u] = plan[u],
           \A s \in Shards : \/ owner'[s] = owner[s]
                             \/ owner[s] = None /\ owner'[s] = t
                             \/ owner[s] = t /\ owner'[s] = None,
           \A s \in Shards : owner'[s] = t <=> Holds(t, s)'
    PROVE  LocksMatch'
<1> SUFFICES ASSUME NEW u \in Threads, NEW s \in Shards
             PROVE  owner'[s] = u <=> Holds(u, s)'
  BY DEF LocksMatch
<1>1. CASE u = t
  BY <1>1
<1>2. CASE u # t
  <2>1. Holds(u, s)' <=> Holds(u, s)
    BY <1>2, HoldsLocal
  <2>2. owner[s] = u <=> Holds(u, s)
    BY DEF LocksMatch
  <2>3. owner'[s] = u <=> owner[s] = u
    BY <1>2, ShardLocksAssumption
  <2> QED
    BY <2>1, <2>2, <2>3
<1> QED
  BY <1>1, <1>2

\* Every action takes or drops exactly the mutex its code position says.
LEMMA LocksMatchStep == TypeOK /\ TwoShards /\ LocksMatch /\ [Next]_vars => TwoShards' /\ LocksMatch'
<1> SUFFICES ASSUME TypeOK, TwoShards, LocksMatch, [Next]_vars PROVE TwoShards' /\ LocksMatch'
  OBVIOUS
<1>1. CASE UNCHANGED vars
  BY <1>1 DEF vars, TwoShards, LocksMatch, Holds, First, Second, LockOrder, Si, Di
<1>2. ASSUME NEW t \in Threads, Step(t) \/ Begin(t)
      PROVE  TwoShards' /\ LocksMatch'
  <2>1. /\ \A u \in Threads \ {t} : pc'[u] = pc[u] /\ move'[u] = move[u] /\ plan'[u] = plan[u]
        /\ pc' = [pc EXCEPT ![t] = pc'[t]]
    BY <1>2 DEF TypeOK, Step, Begin, BeginMove, BeginRead, Start, LockFirst, LockSecond, NothingToMove,
       RemoveFromSource, InsertIntoDest, UnlockSecond, UnlockFirst, LockVisited, LeaveVisited, Goto
  <2>2. \A s \in Shards : owner[s] = t <=> Holds(t, s)
    BY DEF LocksMatch
  <2>3. /\ First(t) \in Shards /\ Second(t) \in Shards
        /\ (First(t) = Second(t)) <=> (Si(t) = Di(t))
    BY OrderFacts
  <2>4. ASSUME move'[t] = move[t]
        PROVE  /\ Si(t)' = Si(t) /\ Di(t)' = Di(t)
               /\ First(t)' = First(t) /\ Second(t)' = Second(t)
    BY <2>4 DEF First, Second, LockOrder, Si, Di
  <2>5. SUFFICES /\ pc'[t] \in {"second", "unlockFirst"} => Si(t)' # Di(t)'
                 /\ \A s \in Shards : \/ owner'[s] = owner[s]
                                      \/ owner[s] = None /\ owner'[s] = t
                                      \/ owner[s] = t /\ owner'[s] = None
                 /\ \A s \in Shards : owner'[s] = t <=> Holds(t, s)'
    <3>1. LocksMatch'
      BY <2>1, <2>5, LocksStep
    <3>2. ASSUME NEW u \in Threads, pc'[u] \in {"second", "unlockFirst"} PROVE Si(u)' # Di(u)'
      <4>1. CASE u = t
        BY <2>5, <3>2, <4>1
      <4>2. CASE u # t
        BY <2>1, <3>2, <4>2 DEF TwoShards, Si, Di
      <4> QED
        BY <4>1, <4>2
    <3> QED
      BY <3>1, <3>2 DEF TwoShards
  <2> USE DEF Goto, Lock, Unlock
  <2>6. CASE \E mv \in Moves : BeginMove(t, mv)
    BY <2>2, <2>6 DEF BeginMove, Start, Holds, TypeOK
  <2>7. CASE \E p : BeginRead(t, p)
    BY <2>2, <2>7 DEF BeginRead, Start, Holds, TypeOK
  <2>8. CASE LockFirst(t)
    BY <2>2, <2>3, <2>4, <2>8 DEF LockFirst, Holds, TypeOK
  <2>9. CASE LockSecond(t)
    BY <2>2, <2>3, <2>4, <2>9 DEF LockSecond, Holds, TypeOK
  <2>10. CASE NothingToMove(t)
    BY <2>2, <2>4, <2>10 DEF NothingToMove, Holds, TypeOK
  <2>11. CASE RemoveFromSource(t)
    BY <2>2, <2>4, <2>11 DEF RemoveFromSource, Holds, TypeOK
  <2>12. CASE InsertIntoDest(t)
    BY <2>2, <2>4, <2>12 DEF InsertIntoDest, Holds, TypeOK
  <2>13. CASE UnlockSecond(t)
    <3>1. CASE Si(t) = Di(t)
      BY <2>2, <2>3, <2>13, <3>1, ShardLocksAssumption DEF UnlockSecond, Holds, TypeOK
    <3>2. CASE Si(t) # Di(t)
      BY <2>2, <2>3, <2>4, <2>13, <3>2, ShardLocksAssumption DEF UnlockSecond, Holds, TypeOK
    <3> QED
      BY <3>1, <3>2
  <2>14. CASE UnlockFirst(t)
    BY <2>2, <2>3, <2>14, ShardLocksAssumption DEF UnlockFirst, Holds, TypeOK
  <2>15. CASE LockVisited(t)
    BY <2>2, <2>15 DEF LockVisited, Holds, TypeOK
  <2>16. CASE LeaveVisited(t)
    BY <2>2, <2>16, ShardLocksAssumption DEF LeaveVisited, Holds, TypeOK
  <2> QED
    BY <1>2, <2>6, <2>7, <2>8, <2>9, <2>10, <2>11, <2>12, <2>13, <2>14, <2>15, <2>16 DEF Step, Begin
<1> QED
  BY <1>1, <1>2 DEF Next

\* A step that changes neither the sets nor the SMOVEs between their two halves
\* leaves every member where it is.
LEMMA MemberStay ==
    ASSUME MemberOnce, sets' = sets, lost' = lost,
           \A m \in Members : InHand(m)' = InHand(m)
    PROVE  MemberOnce'
  BY DEF MemberOnce

\* SMOVE takes a member out of the one set that has it and puts it into one.
LEMMA MemberOnceStep == TypeOK /\ MemberOnce /\ [Next]_vars => MemberOnce'
<1> SUFFICES ASSUME TypeOK, MemberOnce, [Next]_vars PROVE MemberOnce'
  OBVIOUS
<1>1. CASE UNCHANGED vars
  BY <1>1 DEF vars, MemberOnce, InHand
<1>2. ASSUME NEW t \in Threads, Step(t) \/ Begin(t) PROVE MemberOnce'
  <2> USE DEF Goto
  <2>1. ASSUME sets' = sets, lost' = lost, pc[t] # "insert", pc'[t] # "insert",
               \A u \in Threads \ {t} : pc'[u] = pc[u] /\ move'[u] = move[u]
        PROVE  MemberOnce'
    <3>1. \A m \in Members : InHand(m)' = InHand(m)
      BY <2>1 DEF InHand
    <3> QED
      BY <2>1, <3>1, MemberStay
  <2>2. CASE RemoveFromSource(t)
    <3> SUFFICES ASSUME NEW m \in Members
                 PROVE  /\ \A k, j \in Keys : m \in sets'[k] /\ m \in sets'[j] => k = j
                        /\ \A u, v \in InHand(m)' : u = v
                        /\ \A k \in Keys : m \in sets'[k] => InHand(m)' = {}
                        /\ m \in lost' => (\A k \in Keys : m \notin sets'[k]) /\ InHand(m)' = {}
                        /\ m \in lost' \/ (\E k \in Keys : m \in sets'[k]) \/ InHand(m)' # {}
      BY DEF MemberOnce
    <3>1. /\ \A k, j \in Keys : m \in sets[k] /\ m \in sets[j] => k = j
          /\ \A u, v \in InHand(m) : u = v
          /\ \A k \in Keys : m \in sets[k] => InHand(m) = {}
          /\ m \in lost => (\A k \in Keys : m \notin sets[k]) /\ InHand(m) = {}
          /\ m \in lost \/ (\E k \in Keys : m \in sets[k]) \/ InHand(m) # {}
      BY DEF MemberOnce
    <3>2. /\ move[t].src \in Keys /\ move[t].m \in sets[move[t].src]
          /\ pc' = [pc EXCEPT ![t] = "insert"] /\ pc[t] = "remove" /\ move' = move /\ lost' = lost
          /\ sets' = [sets EXCEPT ![move[t].src] = @ \ {move[t].m}]
      BY <2>2 DEF RemoveFromSource, TypeOK, Moves
    <3>3. CASE m = move[t].m
      <4>1. InHand(m)' = {t}
        BY <3>1, <3>2, <3>3 DEF InHand, TypeOK
      <4>2. \A k \in Keys : m \notin sets'[k]
        BY <3>1, <3>2, <3>3 DEF TypeOK
      <4> QED
        BY <3>1, <3>2, <3>3, <4>1, <4>2
    <3>4. CASE m # move[t].m
      <4>1. InHand(m)' = InHand(m)
        BY <3>2, <3>4 DEF InHand, TypeOK
      <4>2. \A k \in Keys : m \in sets'[k] <=> m \in sets[k]
        BY <3>2, <3>4 DEF TypeOK
      <4> QED
        BY <3>1, <3>2, <4>1, <4>2
    <3> QED
      BY <3>3, <3>4
  <2>3. CASE InsertIntoDest(t)
    <3> SUFFICES ASSUME NEW m \in Members
                 PROVE  /\ \A k, j \in Keys : m \in sets'[k] /\ m \in sets'[j] => k = j
                        /\ \A u, v \in InHand(m)' : u = v
                        /\ \A k \in Keys : m \in sets'[k] => InHand(m)' = {}
                        /\ m \in lost' => (\A k \in Keys : m \notin sets'[k]) /\ InHand(m)' = {}
                        /\ m \in lost' \/ (\E k \in Keys : m \in sets'[k]) \/ InHand(m)' # {}
      BY DEF MemberOnce
    <3>1. /\ \A k, j \in Keys : m \in sets[k] /\ m \in sets[j] => k = j
          /\ \A u, v \in InHand(m) : u = v
          /\ \A k \in Keys : m \in sets[k] => InHand(m) = {}
          /\ m \in lost => (\A k \in Keys : m \notin sets[k]) /\ InHand(m) = {}
          /\ m \in lost \/ (\E k \in Keys : m \in sets[k]) \/ InHand(m) # {}
      BY DEF MemberOnce
    <3>2. /\ move[t].dst \in Keys
          /\ pc' = [pc EXCEPT ![t] = "unlock"] /\ pc[t] = "insert" /\ move' = move
          /\ \/ lost' = lost /\ sets' = [sets EXCEPT ![move[t].dst] = @ \cup {move[t].m}]
             \/ sets' = sets /\ lost' = lost \cup {move[t].m}
      BY <2>3 DEF InsertIntoDest, TypeOK, Moves
    <3>3. CASE m = move[t].m
      <4>1. InHand(m) = {t}
        BY <3>1, <3>2, <3>3 DEF InHand
      <4>2. InHand(m)' = {}
        BY <4>1, <3>2, <3>3 DEF InHand, TypeOK
      <4>3. (\A k \in Keys : m \notin sets[k]) /\ m \notin lost
        BY <3>1, <4>1
      <4> QED
        BY <3>2, <3>3, <4>2, <4>3 DEF TypeOK
    <3>4. CASE m # move[t].m
      <4>1. InHand(m)' = InHand(m)
        BY <3>2, <3>4 DEF InHand, TypeOK
      <4>2. /\ \A k \in Keys : m \in sets'[k] <=> m \in sets[k]
            /\ m \in lost' <=> m \in lost
        BY <3>2, <3>4 DEF TypeOK
      <4> QED
        BY <3>1, <4>1, <4>2
    <3> QED
      BY <3>3, <3>4
  <2>4. CASE Begin(t)
    BY <2>1, <2>4 DEF Begin, BeginMove, BeginRead, Start, TypeOK
  <2>5. CASE LockFirst(t) \/ LockSecond(t) \/ NothingToMove(t)
    BY <2>1, <2>5 DEF LockFirst, LockSecond, NothingToMove, TypeOK
  <2>6. CASE UnlockSecond(t) \/ UnlockFirst(t)
    BY <2>1, <2>6 DEF UnlockSecond, UnlockFirst, TypeOK
  <2>7. CASE LockVisited(t) \/ LeaveVisited(t)
    BY <2>1, <2>7 DEF LockVisited, LeaveVisited, TypeOK
  <2> QED
    BY <1>2, <2>2, <2>3, <2>4, <2>5, <2>6, <2>7 DEF Step
<1> QED
  BY <1>1, <1>2 DEF Next

----------------------------------------------------------------------------
(* The theorems.                                                           *)

\* The mutexes of store.rs are held exactly where the code says, and a member
\* that commands only move is in one place, in every reachable state.
THEOREM Invariance == Spec => []Inv
<1>1. Inv /\ [Next]_vars => Inv'
  BY TypeStep, LocksMatchStep, MemberOnceStep DEF Inv
<1> QED
  BY InitInv, <1>1, PTL DEF Spec

\* Types are preserved by every command of the store.
THEOREM TypeCorrect == Spec => []TypeOK
<1>1. Inv => TypeOK
  BY DEF Inv
<1> QED
  BY Invariance, <1>1, PTL

\* No mutex is leaked, taken twice or dropped early.
THEOREM MutualExclusion == Spec => []LocksMatch
<1>1. Inv => LocksMatch
  BY DEF Inv
<1> QED
  BY Invariance, <1>1, PTL

\* Db::set_move's ascending lock order: threads that wait for one another wait
\* for ever higher shards, so that they cannot wait in a circle.
THEOREM NoCircularWait == Spec => []WaitsClimb
<1>1. Inv => WaitsClimb
  <2> SUFFICES ASSUME Inv, NEW t \in Threads, NEW u \in Threads, NEW s \in Shards, NEW r \in Shards,
                      Waits(t, s), owner[s] = u, Waits(u, r)
               PROVE  s < r
    BY DEF WaitsClimb
  <2>1. Holds(u, s)
    BY DEF Inv, LocksMatch
  <2>2. pc[u] = "second" /\ s = First(u) /\ r = Second(u) /\ Si(u) # Di(u)
    BY <2>1 DEF Holds, Waits, Inv, TwoShards
  <2>3. First(u) <= Second(u) /\ First(u) # Second(u)
    BY <2>2, OrderFacts DEF Inv
  <2> QED
    BY <2>2, <2>3, ShardFacts
<1> QED
  BY Invariance, <1>1, PTL

\* SMOVE neither duplicates nor drops a member, whatever runs at the same time,
\* except when its destination holds something other than a set.
THEOREM MembersConserved == Spec => []MemberOnce
<1>1. Inv => MemberOnce
  BY DEF Inv
<1> QED
  BY Invariance, <1>1, PTL

\* The two locks of SMOVE keep every other command away from both of its shards
\* until the member has arrived.
THEOREM MovesAreWhole == Spec => []ReadersSeeWholeMoves
<1>1. Inv => ReadersSeeWholeMoves
  <2> SUFFICES ASSUME Inv, NEW t \in Threads, NEW u \in Threads,
                      pc[t] = "read", pc[u] = "insert", Head(plan[t]) \in {Si(u), Di(u)}
               PROVE  FALSE
    BY DEF ReadersSeeWholeMoves
  <2> DEFINE s == Head(plan[t])
  <2>1. s \in Shards /\ s \in {First(u), Second(u)}
    BY OrderFacts DEF Inv
  <2>2. owner[s] = t /\ owner[s] = u
    BY <2>1 DEF Inv, LocksMatch, Holds
  <2> QED
    BY <2>2
<1> QED
  BY Invariance, <1>1, PTL
=============================================================================
