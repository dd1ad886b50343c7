---------------------------- MODULE ScanProofs ----------------------------
(***************************************************************************)
(* The proof that a walk of the keys with SCAN misses at most one key per  *)
(* key deleted meanwhile, whatever the keys, the COUNT and the number of   *)
(* insertions and deletions.  Missed is what the walk has passed over so   *)
(* far: an insertion shifts positions to the right, out of Missed, and a   *)
(* deletion shifts at most the key behind the cursor into it.              *)
(***************************************************************************)
EXTENDS Scan, FiniteSetTheorems, TLAPS

\* What was there from the beginning and has not been given to the client.
Pending == begun \ (seen \union ToSet(deleted))
\* ... of it, what lies to the left of the cursor.
Missed == {j \in Pending : Rank(keys, j) <= cursor}

Typed ==
    /\ keys \subseteq 1..MaxKey /\ begun \subseteq 1..MaxKey
    /\ cursor \in Nat /\ count \in Nat \ {0} /\ deleted \in Seq(1..MaxKey)
    /\ walk \in {"on", "over"}

ScanInv ==
    /\ Typed
    /\ begun \ ToSet(deleted) \subseteq keys
    /\ walk = "on" => Cardinality(Missed) <= Len(deleted)
    /\ ScanMissesOnlyByDeletes

----------------------------------------------------------------------------
(* Ranks.                                                                  *)

LEMMA KeysFinite ==
    ASSUME NEW ks \in SUBSET (1..MaxKey)
    PROVE  IsFiniteSet(ks) /\ Cardinality(ks) \in Nat
<1>1. IsFiniteSet(1..MaxKey)
  BY FS_Interval, ScanAssumption
<1> QED
  BY <1>1, FS_Subset, FS_CardinalityType

LEMMA RankType ==
    ASSUME NEW ks \in SUBSET (1..MaxKey), NEW k
    PROVE  Rank(ks, k) \in Nat /\ Rank(ks, k) <= Cardinality(ks)
<1> DEFINE S == {j \in ks : j <= k}
<1>1. IsFiniteSet(ks)
  BY KeysFinite
<1>2. S \in SUBSET ks
  OBVIOUS
<1> HIDE DEF S
<1>3. IsFiniteSet(S) /\ Cardinality(S) <= Cardinality(ks)
  BY <1>1, <1>2, FS_Subset
<1>4. Cardinality(S) \in Nat
  BY <1>3, FS_CardinalityType
<1> QED
  BY <1>3, <1>4 DEF Rank, S

\* Two keys of the list do not have the same position.
LEMMA RankOrder ==
    ASSUME NEW ks \in SUBSET (1..MaxKey), NEW j \in ks, NEW k \in ks, j < k
    PROVE  Rank(ks, j) < Rank(ks, k)
<1> DEFINE S == {i \in ks : i <= j}
           T == {i \in ks : i <= k}
<1>0. k \in Int /\ j \in Int /\ \A i \in ks : i \in Int
  BY ScanAssumption
<1>1. T \in SUBSET (1..MaxKey) /\ S \in SUBSET T /\ k \in T /\ k \notin S
  <2>1. T \in SUBSET (1..MaxKey)
    OBVIOUS
  <2>2. \A i \in ks : i <= j => i <= k
    BY <1>0
  <2>3. k <= k /\ ~(k <= j)
    BY <1>0
  <2> QED
    BY <2>1, <2>2, <2>3
<1> HIDE DEF S, T
<1>2. IsFiniteSet(T) /\ Cardinality(T) \in Nat
  BY <1>1, KeysFinite
<1>3. S \in SUBSET (1..MaxKey)
  BY <1>1
<1>4. Cardinality(S) \in Nat
  BY <1>3, KeysFinite
<1>5. Cardinality(S) <= Cardinality(T) /\ (Cardinality(T) = Cardinality(S) => T = S)
  BY <1>1, <1>2, FS_Subset
<1>6. Cardinality(S) < Cardinality(T)
  BY <1>1, <1>2, <1>4, <1>5
<1> QED
  BY <1>6 DEF Rank, S, T

LEMMA RankInjective ==
    ASSUME NEW ks \in SUBSET (1..MaxKey), NEW j \in ks, NEW k \in ks,
           Rank(ks, j) = Rank(ks, k)
    PROVE  j = k
<1>1. j \in Int /\ k \in Int /\ Rank(ks, j) \in Nat /\ Rank(ks, k) \in Nat
  BY RankType, ScanAssumption
<1>2. ~(j < k)
  BY <1>1, RankOrder
<1>3. ~(k < j)
  BY <1>1, RankOrder
<1> QED
  BY <1>1, <1>2, <1>3

\* An insertion moves a key only to the right.
LEMMA RankInsert ==
    ASSUME NEW ks \in SUBSET (1..MaxKey), NEW k \in 1..MaxKey, NEW j
    PROVE  Rank(ks, j) <= Rank(ks \union {k}, j)
<1> DEFINE S == {i \in ks : i <= j}
           T == {i \in ks \union {k} : i <= j}
<1>1. T \in SUBSET (1..MaxKey) /\ S \in SUBSET T
  OBVIOUS
<1> HIDE DEF S, T
<1>2. IsFiniteSet(T)
  BY <1>1, KeysFinite
<1>3. Cardinality(S) <= Cardinality(T)
  BY <1>1, <1>2, FS_Subset
<1> QED
  BY <1>3 DEF Rank, S, T

\* A deletion moves it to the left by one position at most.
LEMMA RankDelete ==
    ASSUME NEW ks \in SUBSET (1..MaxKey), NEW k, NEW j
    PROVE  Rank(ks, j) <= Rank(ks \ {k}, j) + 1
<1> DEFINE S == {i \in ks : i <= j}
<1>1. S \in SUBSET (1..MaxKey) /\ {i \in ks \ {k} : i <= j} = S \ {k}
  OBVIOUS
<1> HIDE DEF S
<1>2. IsFiniteSet(S) /\ Cardinality(S) \in Nat
  BY <1>1, KeysFinite
<1>3. Cardinality(S \ {k}) = IF k \in S THEN Cardinality(S) - 1 ELSE Cardinality(S)
  BY <1>2, FS_RemoveElement
<1>4. Cardinality(S) <= Cardinality(S \ {k}) + 1
  BY <1>2, <1>3
<1> QED
  BY <1>1, <1>4 DEF Rank, S

----------------------------------------------------------------------------
(* The list.                                                               *)

LEMMA SortedParts ==
    ASSUME keys \in SUBSET (1..MaxKey)
    PROVE  /\ Len(SortedKeys) = Cardinality(keys) /\ DOMAIN SortedKeys = 1..Cardinality(keys)
           /\ \A k \in keys : SortedKeys[Rank(keys, k)] = k /\ Rank(keys, k) \in 1..Cardinality(keys)
<1> DEFINE n == Cardinality(keys)
<1>1. n \in Nat
  BY KeysFinite
<1>2. SortedKeys = [i \in 1..n |-> KeyAt(keys, i)]
  BY DEF SortedKeys, Sorted
<1>3. ASSUME NEW k \in keys
      PROVE  KeyAt(keys, Rank(keys, k)) = k /\ Rank(keys, k) \in 1..n
  <2> DEFINE i == Rank(keys, k)
  <2>1. i \in Nat /\ i <= n
    BY RankType
  <2>2. i # 0
    <3> DEFINE S == {j \in keys : j <= k}
    <3>0. k \in Int
      BY ScanAssumption
    <3>1. S \in SUBSET (1..MaxKey) /\ k \in S
      <4>1. S \in SUBSET (1..MaxKey)
        OBVIOUS
      <4>2. k <= k
        BY <3>0
      <4> QED
        BY <4>1, <4>2
    <3> HIDE DEF S
    <3>2. IsFiniteSet(S)
      BY <3>1, KeysFinite
    <3>3. Cardinality(S) # 0
      BY <3>1, <3>2, FS_EmptySet
    <3> QED
      BY <3>3 DEF Rank, S
  <2>3. KeyAt(keys, i) \in keys /\ Rank(keys, KeyAt(keys, i)) = i
    BY DEF KeyAt
  <2> HIDE DEF i
  <2>4. KeyAt(keys, i) = k
    BY <2>3, RankInjective DEF i
  <2> QED
    BY <1>1, <2>1, <2>2, <2>4 DEF i
<1> HIDE DEF n
<1>4. Len(SortedKeys) = n /\ DOMAIN SortedKeys = 1..n
  BY <1>1, <1>2
<1>5. \A k \in keys : SortedKeys[Rank(keys, k)] = k /\ Rank(keys, k) \in 1..n
  BY <1>2, <1>3
<1> QED
  BY <1>4, <1>5 DEF n

LEMMA BatchParts ==
    ASSUME NEW X, NEW list \in Seq(X), NEW from \in Nat, NEW end \in Nat, end <= Len(list),
           NEW i \in (from + 1)..end
    PROVE  list[i] \in ToSet(Batch(list, from, end))
<1> DEFINE m == i - from
           b == SubSeq(list, from + 1, end)
<1>1. m \in 1..(end - from) /\ m + (from + 1) - 1 = i
  OBVIOUS
<1>2. DOMAIN b = 1..(end - from) /\ b[m] = list[i]
  BY <1>1
<1> QED
  BY <1>1, <1>2 DEF Batch, ToSet


----------------------------------------------------------------------------
(* The steps.                                                              *)

LEMMA PendingFinite ==
    ASSUME Typed
    PROVE  /\ Pending \in SUBSET (1..MaxKey) /\ IsFiniteSet(Pending)
           /\ Missed \in SUBSET (1..MaxKey) /\ IsFiniteSet(Missed)
           /\ Cardinality(Missed) \in Nat
<1>1. Pending \in SUBSET (1..MaxKey) /\ Missed \in SUBSET (1..MaxKey)
  BY DEF Pending, Missed, Typed
<1> QED
  BY <1>1, KeysFinite

\* What is not in the batch of a call is to the left of it or to its right.
LEMMA CallSees ==
    ASSUME Typed, NEW from \in Nat, NEW end \in Nat, end <= Cardinality(keys),
           NEW k \in keys, from < Rank(keys, k), Rank(keys, k) <= end
    PROVE  k \in ToSet(Batch(SortedKeys, from, end))
<1> DEFINE X == {SortedKeys[i] : i \in 1..Cardinality(keys)}
<1>1. keys \in SUBSET (1..MaxKey)
  BY DEF Typed
<1>2. /\ Len(SortedKeys) = Cardinality(keys) /\ Cardinality(keys) \in Nat
      /\ SortedKeys[Rank(keys, k)] = k /\ Rank(keys, k) \in 1..Cardinality(keys)
  BY <1>1, SortedParts, KeysFinite
<1>3. SortedKeys \in Seq(X)
  <2>1. SortedKeys = [i \in 1..Cardinality(keys) |-> KeyAt(keys, i)]
    BY <1>1 DEF SortedKeys, Sorted
  <2>2. SortedKeys \in [1..Cardinality(keys) -> X]
    BY <2>1
  <2> HIDE DEF X
  <2> QED
    BY <1>2, <2>2
<1> HIDE DEF X
<1>4. Rank(keys, k) \in (from + 1)..end
  BY <1>2
<1> QED
  BY <1>2, <1>3, <1>4, BatchParts

LEMMA CallKept ==
    ASSUME ScanInv, ScanCall
    PROVE  ScanInv'
<1> DEFINE list == SortedKeys
           n    == Cardinality(keys)
           from == Clamp(cursor, n)
           end  == Clamp(from + count, n)
           next == NextCursor(end, n)
<1>1. Typed /\ keys \in SUBSET (1..MaxKey) /\ n \in Nat /\ cursor \in Nat /\ count \in Nat \ {0}
  BY KeysFinite DEF ScanInv, Typed
<1>2. Len(list) = n
  BY <1>1, SortedParts
<1>3. /\ seen' = seen \union ToSet(Batch(list, from, end))
      /\ cursor' = next /\ walk' = IF next = 0 THEN "over" ELSE "on"
      /\ UNCHANGED <<keys, count, begun, deleted>> /\ walk = "on"
  BY <1>2 DEF ScanCall
<1> HIDE DEF list, n
<1>4. from \in Nat /\ from <= cursor /\ from <= n /\ end \in Nat /\ end <= n /\ (end < n => end = from + count)
  BY <1>1 DEF Clamp
<1>5. /\ next \in Nat
      /\ next = 0 => end = n
      /\ next # 0 => next = end
  BY <1>1, <1>4 DEF NextCursor
<1> HIDE DEF from, end, next
<1>6. Typed'
  BY <1>1, <1>3, <1>5 DEF Typed
<1>7. \A k \in keys : from < Rank(keys, k) /\ Rank(keys, k) <= end => k \in seen'
  BY <1>1, <1>3, <1>4, CallSees DEF list, n
<1>8. \A k \in Pending' : k \in Pending /\ k \in keys /\ k \notin seen'
  BY <1>3 DEF Pending, ScanInv
<1>9. \A k \in keys : Rank(keys, k) \in Nat /\ Rank(keys, k) <= n
  BY <1>1, RankType DEF n
<1>10. \A k \in Pending' : Rank(keys, k) <= end => k \in Missed
  <2> SUFFICES ASSUME NEW k \in Pending', Rank(keys, k) <= end PROVE k \in Missed
    OBVIOUS
  <2>1. ~(from < Rank(keys, k))
    BY <1>7, <1>8
  <2>2. Rank(keys, k) <= cursor
    <3> DEFINE r == Rank(keys, k)
    <3>1. r \in Nat
      BY <1>8, <1>9
    <3>2. ~(from < r)
      BY <2>1
    <3> HIDE DEF r
    <3>3. r <= cursor
      BY <1>1, <1>4, <3>1, <3>2
    <3> QED
      BY <3>3 DEF r
  <2> QED
    BY <1>8, <2>2 DEF Missed
<1>11. Cardinality(Missed) <= Len(deleted) /\ IsFiniteSet(Missed) /\ Cardinality(Missed) \in Nat
  BY <1>1, <1>3, PendingFinite DEF ScanInv
<1>12. ASSUME NEW S \in SUBSET Missed PROVE Cardinality(S) <= Len(deleted')
  <2>1. Cardinality(S) <= Cardinality(Missed) /\ IsFiniteSet(S)
    BY <1>11, FS_Subset
  <2>2. Cardinality(S) \in Nat /\ Len(deleted) \in Nat
    BY <1>1, <2>1, FS_CardinalityType DEF Typed
  <2> QED
    BY <1>3, <1>11, <2>1, <2>2
<1>13. CASE next = 0
  <2>1. Pending' \in SUBSET Missed
    BY <1>5, <1>8, <1>9, <1>10, <1>13
  <2>2. Cardinality(Pending') <= Len(deleted')
    BY <1>12, <2>1
  <2>3. ScanMissesOnlyByDeletes' /\ walk' = "over"
    BY <1>3, <1>13, <2>2 DEF ScanMissesOnlyByDeletes, Pending
  <2> QED
    BY <1>3, <1>6, <2>3 DEF ScanInv
<1>14. CASE next # 0
  <2>1. Missed' \in SUBSET Missed
    BY <1>3, <1>5, <1>10, <1>14 DEF Missed
  <2>2. Cardinality(Missed') <= Len(deleted')
    BY <1>12, <2>1
  <2>3. walk' = "on"
    BY <1>3, <1>14
  <2> QED
    BY <1>3, <1>6, <2>2, <2>3 DEF ScanInv, ScanMissesOnlyByDeletes
<1> QED
  BY <1>13, <1>14

LEMMA InsertKept ==
    ASSUME ScanInv, InsertKey
    PROVE  ScanInv'
<1> PICK k \in (1..MaxKey) \ keys : keys' = keys \union {k}
  BY DEF InsertKey
<1>1. UNCHANGED <<cursor, count, walk, begun, deleted, seen>> /\ walk = "on"
  BY DEF InsertKey
<1>2. Typed' /\ keys \in SUBSET (1..MaxKey) /\ keys' \in SUBSET (1..MaxKey)
  BY <1>1 DEF ScanInv, Typed
<1>3. Missed' \in SUBSET Missed
  <2> SUFFICES ASSUME NEW j \in Missed' PROVE j \in Missed
    OBVIOUS
  <2>1. j \in Pending /\ Rank(keys', j) <= cursor /\ cursor \in Nat
    BY <1>1 DEF Missed, Pending, ScanInv, Typed
  <2>2. Rank(keys, j) <= Rank(keys', j)
    BY <1>2, RankInsert
  <2>3. Rank(keys, j) \in Nat /\ Rank(keys', j) \in Nat
    BY <1>2, RankType
  <2> QED
    BY <2>1, <2>2, <2>3 DEF Missed
<1>4. Cardinality(Missed') <= Cardinality(Missed) /\ IsFiniteSet(Missed')
  BY <1>3, PendingFinite, FS_Subset DEF ScanInv
<1>5. Cardinality(Missed') \in Nat /\ Cardinality(Missed) \in Nat /\ Len(deleted) \in Nat
  BY <1>4, PendingFinite, FS_CardinalityType DEF ScanInv, Typed
<1>6. Cardinality(Missed') <= Len(deleted')
  BY <1>1, <1>4, <1>5 DEF ScanInv
<1> QED
  BY <1>1, <1>2, <1>6 DEF ScanInv, ScanMissesOnlyByDeletes


LEMMA DeleteKept ==
    ASSUME ScanInv, DeleteKey
    PROVE  ScanInv'
<1> PICK k \in keys : keys' = keys \ {k} /\ deleted' = Append(deleted, k)
  BY DEF DeleteKey
<1>1. UNCHANGED <<cursor, count, walk, begun, seen>> /\ walk = "on"
  BY DEF DeleteKey
<1>2. /\ Typed /\ keys \in SUBSET (1..MaxKey) /\ keys' \in SUBSET (1..MaxKey)
      /\ deleted \in Seq(1..MaxKey) /\ k \in 1..MaxKey /\ cursor \in Nat
  BY DEF ScanInv, Typed
<1>3. Len(deleted') = Len(deleted) + 1 /\ Len(deleted) \in Nat /\ deleted' \in Seq(1..MaxKey)
  BY <1>2
<1>4. ToSet(deleted') = ToSet(deleted) \union {k}
  BY <1>2 DEF ToSet
<1>5. Typed'
  BY <1>1, <1>2, <1>3 DEF Typed
<1>6. (begun \ ToSet(deleted) \subseteq keys)'
  BY <1>1, <1>4 DEF ScanInv
<1>7. \A j \in Missed' : j \in Pending /\ j \in keys
  BY <1>1, <1>4 DEF Missed, Pending, ScanInv
<1>8. ASSUME NEW j \in Missed', j \notin Missed PROVE Rank(keys, j) = cursor + 1
  <2>1. Rank(keys', j) <= cursor
    BY <1>1 DEF Missed
  <2>2. ~(Rank(keys, j) <= cursor)
    BY <1>7, <1>8 DEF Missed
  <2>3. Rank(keys, j) <= Rank(keys', j) + 1
    BY <1>2, RankDelete
  <2>4. Rank(keys, j) \in Nat /\ Rank(keys', j) \in Nat
    BY <1>2, RankType
  <2> QED
    BY <1>2, <2>1, <2>2, <2>3, <2>4
<1>9. IsFiniteSet(Missed) /\ Cardinality(Missed) \in Nat /\ Cardinality(Missed) <= Len(deleted)
  BY <1>1, <1>2, PendingFinite DEF ScanInv
<1>10. Cardinality(Missed') <= Cardinality(Missed) + 1 /\ IsFiniteSet(Missed')
  <2>1. CASE Missed' \subseteq Missed
    <3>1. Cardinality(Missed') <= Cardinality(Missed) /\ IsFiniteSet(Missed')
      BY <1>9, <2>1, FS_Subset
    <3>2. Cardinality(Missed') \in Nat
      BY <3>1, FS_CardinalityType
    <3> QED
      BY <1>9, <3>1, <3>2
  <2>2. CASE ~(Missed' \subseteq Missed)
    <3> PICK x \in Missed' : x \notin Missed
      BY <2>2
    <3>1. \A j \in Missed' : j \in Missed \/ j = x
      <4> SUFFICES ASSUME NEW j \in Missed', j \notin Missed PROVE j = x
        OBVIOUS
      <4>1. j \in keys /\ x \in keys /\ Rank(keys, j) = Rank(keys, x)
        BY <1>7, <1>8
      <4> QED
        BY <1>2, <4>1, RankInjective
    <3> DEFINE S == Missed \union {x}
    <3>2. Missed' \in SUBSET S
      BY <3>1
    <3>3. IsFiniteSet(S) /\ Cardinality(S) = Cardinality(Missed) + 1
      BY <1>9, FS_AddElement
    <3> HIDE DEF S
    <3> QED
      BY <3>2, <3>3, FS_Subset
  <2> QED
    BY <2>1, <2>2
<1>11. Cardinality(Missed') \in Nat
  BY <1>10, FS_CardinalityType
<1>12. Cardinality(Missed') <= Len(deleted')
  BY <1>3, <1>9, <1>10, <1>11
<1> QED
  BY <1>1, <1>5, <1>6, <1>12 DEF ScanInv, ScanMissesOnlyByDeletes

\* SCAN: a client that walks the keys to the end misses, of the keys that were
\* there from beginning to end, at most as many as were deleted meanwhile,
\* however many keys there are, whatever COUNT is and whatever is inserted.
THEOREM ScanBound == ScanSpec => []ScanMissesOnlyByDeletes
<1>1. ScanInit => ScanInv
  <2> SUFFICES ASSUME ScanInit PROVE ScanInv
    OBVIOUS
  <2>1. Typed
    BY ScanAssumption DEF ScanInit, Typed
  <2>2. \A j \in keys : Rank(keys, j) \in 1..Cardinality(keys)
    BY <2>1, SortedParts DEF Typed
  <2>3. Missed = {}
    <3>1. \A j \in keys : ~(Rank(keys, j) <= 0)
      BY <2>2
    <3> QED
      BY <3>1 DEF Missed, Pending, ScanInit
  <2>4. Cardinality(Missed) <= Len(deleted)
    BY <2>3, FS_EmptySet DEF ScanInit
  <2> QED
    BY <2>1, <2>4 DEF ScanInv, ScanInit, ScanMissesOnlyByDeletes
<1>2. ScanInv /\ [ScanNext]_scan => ScanInv'
  <2> SUFFICES ASSUME ScanInv, [ScanNext]_scan PROVE ScanInv'
    OBVIOUS
  <2>1. CASE ScanCall
    BY <2>1, CallKept
  <2>2. CASE InsertKey
    BY <2>2, InsertKept
  <2>3. CASE DeleteKey
    BY <2>3, DeleteKept
  <2>4. CASE UNCHANGED scan
    BY <2>4 DEF scan, ScanInv, Typed, Missed, Pending, ScanMissesOnlyByDeletes
  <2> QED
    BY <2>1, <2>2, <2>3, <2>4 DEF ScanNext
<1>3. ScanInv => ScanMissesOnlyByDeletes
  BY DEF ScanInv
<1> QED
  BY <1>1, <1>2, <1>3, PTL DEF ScanSpec
=============================================================================
