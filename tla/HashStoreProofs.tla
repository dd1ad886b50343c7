-------------------------- MODULE HashStoreProofs --------------------------
(***************************************************************************)
(* For every set of fields, every set of values and every threshold, a     *)
(* HashStore keeps its fields distinct and implements FieldMap.            *)
(***************************************************************************)
EXTENDS HashStore, FiniteSetTheorems, TLAPS

----------------------------------------------------------------------------
(* Vectors of pairs with distinct fields.                                  *)

\* The parts of a pair.
LEMMA PairParts ==
    ASSUME NEW x, NEW v
    PROVE  /\ Pair(x, v).field = x
           /\ Pair(x, v).val = v
           /\ x \in Fields /\ v \in Vals => Pair(x, v) \in PairType
BY DEF PairType, Pair

\* The parts of a pair in the vector.
LEMMA PairTypeParts ==
    ASSUME NEW s \in Seq(PairType), NEW i \in DOMAIN s
    PROVE  s[i] \in PairType /\ s[i].field \in Fields /\ s[i].val \in Vals
<1>1. s[i] \in PairType
  OBVIOUS
<1>. QED  BY <1>1 DEF PairType

\* `find` returns the only position that holds the field.
LEMMA PosUnique ==
    ASSUME NEW s \in Seq(PairType), Distinct(s),
           NEW x, NEW i \in DOMAIN s, s[i].field = x
    PROVE  Pos(s, x) = i /\ Holds(s, x) /\ Lookup(s, x) = s[i].val
<1>1. i \in Nat /\ \A j \in 1 .. i - 1 : j \in DOMAIN s /\ j # i
  OBVIOUS
<1>2. \A j \in 1 .. i - 1 : s[j].field # x
  BY <1>1 DEF Distinct
<1>3. Pos(s, x) \in DOMAIN s /\ s[Pos(s, x)].field = x
  BY <1>2 DEF Pos
<1>4. Pos(s, x) = i
  BY <1>3 DEF Distinct
<1>. QED  BY <1>4 DEF Holds, Lookup

\* A field the vector holds is found, with a value.
LEMMA PosHolds ==
    ASSUME NEW s \in Seq(PairType), Distinct(s), NEW x, Holds(s, x)
    PROVE  /\ Pos(s, x) \in DOMAIN s
           /\ s[Pos(s, x)].field = x
           /\ Lookup(s, x) = s[Pos(s, x)].val
           /\ Lookup(s, x) \in Vals
<1>1. PICK i \in DOMAIN s : s[i].field = x
  BY DEF Holds
<1>2. Pos(s, x) = i /\ Lookup(s, x) = s[i].val
  BY <1>1, PosUnique
<1>. QED  BY <1>1, <1>2, PairTypeParts

\* A lookup gives a value exactly for the fields the vector holds.
LEMMA LookupType ==
    ASSUME NEW s \in Seq(PairType), Distinct(s), NEW x
    PROVE  /\ Lookup(s, x) \in Vals \cup {None}
           /\ Holds(s, x) <=> Lookup(s, x) # None
BY PosHolds, HashStoreAssumption DEF Lookup

\* A lookup that only some positions can answer is decided by those positions.
LEMMA LookupFrom ==
    ASSUME NEW s \in Seq(PairType), Distinct(s), NEW t \in Seq(PairType), Distinct(t), NEW y,
           \A i \in DOMAIN s : s[i].field = y => \E j \in DOMAIN t : t[j] = s[i],
           \A j \in DOMAIN t : t[j].field = y => \E i \in DOMAIN s : t[j] = s[i]
    PROVE  Lookup(s, y) = Lookup(t, y)
<1>1. CASE Holds(s, y)
  <2>1. PICK i \in DOMAIN s : s[i].field = y
    BY <1>1 DEF Holds
  <2>2. PICK j \in DOMAIN t : t[j] = s[i]
    BY <2>1
  <2>3. Lookup(s, y) = s[i].val /\ Lookup(t, y) = t[j].val
    BY <2>1, <2>2, PosUnique
  <2>. QED  BY <2>2, <2>3
<1>2. CASE ~Holds(s, y)
  <2>1. ~Holds(t, y)
    BY <1>2 DEF Holds
  <2>. QED  BY <1>2, <2>1 DEF Lookup
<1>. QED  BY <1>1, <1>2

----------------------------------------------------------------------------
(* What each operation does to the vector.                                 *)

\* Assigning through get_mut changes what one field is mapped to.
LEMMA OverwriteVector ==
    ASSUME NEW s \in Seq(PairType), Distinct(s), NEW x \in Fields, NEW v \in Vals, Holds(s, x),
           NEW t, t = Overwritten(s, Pos(s, x), v)
    PROVE  /\ t \in Seq(PairType) /\ Len(t) = Len(s) /\ Distinct(t)
           /\ \A y \in Fields : Lookup(t, y) = IF y = x THEN v ELSE Lookup(s, y)
<1>1. Pos(s, x) \in DOMAIN s /\ s[Pos(s, x)].field = x
  BY PosHolds
<1>2. /\ t \in Seq(PairType) /\ Len(t) = Len(s) /\ DOMAIN t = DOMAIN s
      /\ \A i \in DOMAIN s : t[i] = IF i = Pos(s, x) THEN Pair(s[i].field, v) ELSE s[i]
  <2>1. Pair(s[Pos(s, x)].field, v) \in PairType
    BY <1>1, PairParts
  <2>. QED  BY <2>1, <1>1 DEF Overwritten
<1>3. \A i \in DOMAIN s : t[i].field = s[i].field
  BY <1>2, PairParts
<1>4. Distinct(t)
  BY <1>2, <1>3 DEF Distinct
<1>5. Lookup(t, x) = v
  <2>1. t[Pos(s, x)].val = v
    BY <1>1, <1>2, PairParts
  <2>. QED  BY <2>1, <1>1, <1>2, <1>3, <1>4, PosUnique
<1>6. ASSUME NEW y \in Fields, y # x PROVE Lookup(t, y) = Lookup(s, y)
  <2>1. \A i \in DOMAIN s : s[i].field = y => t[i] = s[i]
    BY <1>1, <1>2, <1>6
  <2>. QED  BY <2>1, <1>2, <1>3, <1>4, LookupFrom
<1>. QED  BY <1>2, <1>4, <1>5, <1>6

\* Pushing a pair adds one field that was not held.
LEMMA AppendVector ==
    ASSUME NEW s \in Seq(PairType), Distinct(s), NEW x \in Fields, NEW v \in Vals, ~Holds(s, x),
           NEW t, t = Pushed(s, x, v)
    PROVE  /\ t \in Seq(PairType) /\ Len(t) = Len(s) + 1 /\ Distinct(t)
           /\ \A y \in Fields : Lookup(t, y) = IF y = x THEN v ELSE Lookup(s, y)
<1>1. /\ t \in Seq(PairType) /\ Len(t) = Len(s) + 1
      /\ \A i \in DOMAIN s : i \in DOMAIN t /\ t[i] = s[i]
      /\ Len(t) \in DOMAIN t
      /\ t[Len(t)] = Pair(x, v)
      /\ \A i \in DOMAIN t : i \in DOMAIN s \/ i = Len(t)
  BY PairParts DEF Pushed
<1>2. Pair(x, v).field = x /\ Pair(x, v).val = v
  BY PairParts
<1>3. \A i \in DOMAIN s : s[i].field # x
  BY DEF Holds
<1>4. Distinct(t)
  BY <1>1, <1>2, <1>3 DEF Distinct
<1>5. Lookup(t, x) = v
  <2>1. t[Len(t)].field = x /\ t[Len(t)].val = v
    BY <1>1, <1>2
  <2>2. \A i \in DOMAIN t : t[i].field = x => Lookup(t, x) = t[i].val
    BY <1>1, <1>4, PosUnique
  <2>. QED  BY <2>1, <2>2, <1>1
<1>6. ASSUME NEW y \in Fields, y # x PROVE Lookup(t, y) = Lookup(s, y)
  <2>1. \A j \in DOMAIN t : t[j].field = y => j \in DOMAIN s /\ t[j] = s[j]
    BY <1>1, <1>2, <1>6
  <2>2. \A j \in DOMAIN t : t[j].field = y => \E i \in DOMAIN s : t[j] = s[i]
    BY <2>1
  <2>3. \A i \in DOMAIN s : s[i].field = y => \E j \in DOMAIN t : t[j] = s[i]
    BY <1>1
  <2>. QED  BY <2>2, <2>3, <1>1, <1>4, LookupFrom
<1>. QED  BY <1>1, <1>4, <1>5, <1>6

\* swap_remove takes one field away and keeps the others with their values.
LEMMA SwapRemoveVector ==
    ASSUME NEW s \in Seq(PairType), Distinct(s), NEW x \in Fields, Holds(s, x),
           NEW t, t = SwapRemove(s, Pos(s, x))
    PROVE  /\ t \in Seq(PairType) /\ Len(t) = Len(s) - 1 /\ Distinct(t)
           /\ \A y \in Fields : Lookup(t, y) = IF y = x THEN None ELSE Lookup(s, y)
<1>. DEFINE p == Pos(s, x)
            n == Len(s)
<1>1. p \in 1 .. n /\ s[p].field = x /\ n \in Nat
  BY PosHolds
<1>2. \A j \in 1 .. n - 1 : (IF j = p THEN s[n] ELSE s[j]) \in PairType
  BY <1>1
<1>3. /\ t \in Seq(PairType) /\ Len(t) = n - 1 /\ DOMAIN t = 1 .. n - 1
      /\ \A j \in 1 .. n - 1 : t[j] = IF j = p THEN s[n] ELSE s[j]
  BY <1>1, <1>2 DEF SwapRemove
<1>. HIDE DEF p, n
<1>4. \A j \in DOMAIN t : (IF j = p THEN n ELSE j) \in DOMAIN s /\ t[j] = s[IF j = p THEN n ELSE j]
  BY <1>1, <1>3 DEF n
<1>5. Distinct(t)
  <2>1. SUFFICES ASSUME NEW i \in DOMAIN t, NEW j \in DOMAIN t, t[i].field = t[j].field
                 PROVE  i = j
    BY DEF Distinct
  <2>2. (IF i = p THEN n ELSE i) = (IF j = p THEN n ELSE j)
    BY <2>1, <1>4 DEF Distinct
  <2>. QED  BY <2>2, <1>1, <1>3
<1>6. \A j \in DOMAIN t : t[j].field # x
  <2>1. SUFFICES ASSUME NEW j \in DOMAIN t, t[j].field = x PROVE FALSE
    OBVIOUS
  <2>2. (IF j = p THEN n ELSE j) = p
    BY <2>1, <1>1, <1>4 DEF Distinct, n
  <2>. QED  BY <2>2, <1>1, <1>3
<1>7. Lookup(t, x) = None
  BY <1>6 DEF Lookup, Holds
<1>8. ASSUME NEW y \in Fields, y # x PROVE Lookup(t, y) = Lookup(s, y)
  <2>1. \A j \in DOMAIN t : \E i \in DOMAIN s : t[j] = s[i]
    BY <1>4
  <2>2. ASSUME NEW i \in DOMAIN s, s[i].field = y PROVE \E j \in DOMAIN t : t[j] = s[i]
    <3>1. i # p /\ i \in 1 .. n
      BY <2>2, <1>8, <1>1 DEF n
    <3>2. CASE i # n
      BY <3>1, <3>2, <1>3, <1>1
    <3>3. CASE i = n
      <4>1. p \in DOMAIN t /\ t[p] = s[n]
        BY <3>1, <3>3, <1>3, <1>1
      <4>. QED  BY <4>1, <3>3
    <3>. QED  BY <3>2, <3>3
  <2>. QED  BY <2>1, <2>2, <1>3, <1>5, LookupFrom
<1>. QED  BY <1>3, <1>5, <1>7, <1>8 DEF n
----------------------------------------------------------------------------
(* The vector's length is the number of fields it holds.                   *)

\* The vector's length is the number of fields it holds.
LEMMA SupportSize ==
    ASSUME NEW s \in Seq(PairType), Distinct(s)
    PROVE  Len(s) = Cardinality({x \in Fields : Lookup(s, x) # None})
<1>. DEFINE S == {x \in Fields : Lookup(s, x) # None}
            f == [i \in 1 .. Len(s) |-> s[i].field]
<1>1. Len(s) \in Nat /\ DOMAIN s = 1 .. Len(s)
  OBVIOUS
<1>2. ASSUME NEW i \in 1 .. Len(s) PROVE f[i] \in S
  <2>1. s[i].field \in Fields /\ s[i].val \in Vals
    BY <1>1, PairTypeParts
  <2>2. Lookup(s, s[i].field) = s[i].val
    BY <1>1, PosUnique
  <2>. QED  BY <2>1, <2>2, HashStoreAssumption
<1>3. ASSUME NEW i \in 1 .. Len(s), NEW j \in 1 .. Len(s), f[i] = f[j] PROVE i = j
  BY <1>1, <1>3 DEF Distinct
<1>4. ASSUME NEW x \in S PROVE \E i \in 1 .. Len(s) : f[i] = x
  <2>1. Holds(s, x)
    BY DEF Lookup
  <2>2. PICK i \in DOMAIN s : s[i].field = x
    BY <2>1 DEF Holds
  <2>. QED  BY <2>2, <1>1
<1>5. f \in Bijection(1 .. Len(s), S)
  BY <1>2, <1>3, <1>4 DEF Bijection, Injection, Surjection, IsInjective
<1>. QED
  <2>1. ExistsBijection(1 .. Len(s), S)
    BY <1>5 DEF ExistsBijection
  <2>. HIDE DEF S, f
  <2>2. IsFiniteSet(1 .. Len(s)) /\ Cardinality(1 .. Len(s)) = Len(s)
    BY <1>1, FS_Interval
  <2>. QED  BY <2>1, <2>2, FS_Bijection DEF S

----------------------------------------------------------------------------

\* A hash starts as one pair or as a map that was loaded.
LEMMA InitInv == Init => Inv
<1>1. ASSUME NEW x \in Fields, NEW v \in Vals, WithSingle(x, v) PROVE Inv
  <2>1. pairs \in Seq(PairType) /\ Len(pairs) = 1 /\ DOMAIN pairs = {1}
    <3>1. Pair(x, v) \in PairType
      BY PairParts
    <3>. QED  BY <1>1, <3>1 DEF WithSingle
  <2>. QED  BY <1>1, <2>1, HashStoreAssumption
            DEF WithSingle, Inv, TypeOK, Distinct, DistinctFields, OneVariant, NoFields
<1>2. ASSUME Loaded PROVE Inv
  BY <1>2, HashStoreAssumption DEF Loaded, Inv, TypeOK, Distinct, DistinctFields, OneVariant
<1>. QED  BY <1>1, <1>2 DEF Init

\* What an insertion and a removal do to the contents, whatever the variant.
LEMMA InsertStep ==
    ASSUME Inv, NEW x \in Fields, NEW v \in Vals, Insert(x, v)
    PROVE  Inv' /\ Contents' = [Contents EXCEPT ![x] = v] /\ ret' = Value(Contents[x])
<1>. USE DEF Inv, TypeOK, DistinctFields, OneVariant, NoFields
<1>1. CASE InsertMap(x, v)
  BY <1>1 DEF InsertMap, Contents
<1>2. ASSUME kind = "linear", ret' = Value(Lookup(pairs, x)), Holds(pairs, x),
             pairs' = Overwritten(pairs, Pos(pairs, x), v), UNCHANGED <<kind, map>>
      PROVE  Inv' /\ Contents' = [Contents EXCEPT ![x] = v] /\ ret' = Value(Contents[x])
  <2>1. /\ pairs' \in Seq(PairType) /\ Len(pairs') = Len(pairs) /\ Distinct(pairs')
        /\ \A y \in Fields : Lookup(pairs', y) = IF y = x THEN v ELSE Lookup(pairs, y)
    BY <1>2, OverwriteVector
  <2>. QED  BY <1>2, <2>1 DEF Contents
<1>3. ASSUME kind = "linear", ret' = Value(Lookup(pairs, x)), ~Holds(pairs, x), Len(pairs) < Threshold,
             pairs' = Pushed(pairs, x, v), UNCHANGED <<kind, map>>
      PROVE  Inv' /\ Contents' = [Contents EXCEPT ![x] = v] /\ ret' = Value(Contents[x])
  <2>1. /\ pairs' \in Seq(PairType) /\ Len(pairs') = Len(pairs) + 1 /\ Distinct(pairs')
        /\ \A y \in Fields : Lookup(pairs', y) = IF y = x THEN v ELSE Lookup(pairs, y)
    BY <1>3, AppendVector
  <2>2. Len(pairs') <= Threshold
    BY <1>3, <2>1, HashStoreAssumption
  <2>. QED  BY <1>3, <2>1, <2>2 DEF Contents
<1>4. ASSUME kind = "linear", ret' = Value(Lookup(pairs, x)), ~Holds(pairs, x),
             kind' = "map", pairs' = <<>>,
             map' = [y \in Fields |-> IF y = x THEN v ELSE Lookup(pairs, y)]
      PROVE  Inv' /\ Contents' = [Contents EXCEPT ![x] = v] /\ ret' = Value(Contents[x])
  <2>1. \A y \in Fields : Lookup(pairs, y) \in Vals \cup {None}
    BY LookupType
  <2>2. map' \in [Fields -> Vals \cup {None}]
    BY <1>4, <2>1
  <2>3. Inv'
    BY <1>4, <2>2, HashStoreAssumption DEF Distinct
  <2>4. Contents' = [Contents EXCEPT ![x] = v] /\ ret' = Value(Contents[x])
    BY <1>4 DEF Contents
  <2>. QED  BY <2>3, <2>4
<1>. QED  BY <1>1, <1>2, <1>3, <1>4 DEF Insert, InsertLinear

\* A removal takes the field out of the contents and returns what it held.
LEMMA RemoveStep ==
    ASSUME Inv, NEW x \in Fields, Remove(x)
    PROVE  Inv' /\ Contents' = [Contents EXCEPT ![x] = None] /\ ret' = Value(Contents[x])
<1>. USE DEF Inv, TypeOK, DistinctFields, OneVariant, NoFields
<1>1. CASE RemoveMap(x)
  BY <1>1 DEF RemoveMap, Contents
<1>2. CASE RemoveLinear(x) /\ Holds(pairs, x)
  <2>1. /\ pairs' \in Seq(PairType) /\ Len(pairs') = Len(pairs) - 1 /\ Distinct(pairs')
        /\ \A y \in Fields : Lookup(pairs', y) = IF y = x THEN None ELSE Lookup(pairs, y)
    BY <1>2, SwapRemoveVector DEF RemoveLinear
  <2>2. Len(pairs') <= Threshold
    BY <2>1, HashStoreAssumption
  <2>. QED  BY <1>2, <2>1, <2>2 DEF Contents, RemoveLinear
<1>3. CASE RemoveLinear(x) /\ ~Holds(pairs, x)
  BY <1>3 DEF Contents, RemoveLinear, Lookup
<1>. QED  BY <1>1, <1>2, <1>3 DEF Remove

\* An assignment through get_mut changes a field that is there.
LEMMA OverwriteStep ==
    ASSUME Inv, NEW x \in Fields, NEW v \in Vals, Overwrite(x, v)
    PROVE  Inv' /\ Contents' = [Contents EXCEPT ![x] = v] /\ Contents[x] # None /\ ret' = Found(TRUE)
<1>. USE DEF Inv, TypeOK, DistinctFields, OneVariant, NoFields
<1>1. CASE kind = "linear"
  <2>1. Holds(pairs, x) /\ pairs' = Overwritten(pairs, Pos(pairs, x), v) /\ UNCHANGED <<kind, map>>
    BY <1>1 DEF Overwrite
  <2>2. /\ pairs' \in Seq(PairType) /\ Len(pairs') = Len(pairs) /\ Distinct(pairs')
        /\ \A y \in Fields : Lookup(pairs', y) = IF y = x THEN v ELSE Lookup(pairs, y)
    BY <2>1, OverwriteVector
  <2>3. Lookup(pairs, x) # None
    BY <2>1, LookupType
  <2>. QED  BY <1>1, <2>1, <2>2, <2>3 DEF Contents, Overwrite
<1>2. CASE kind = "map"
  BY <1>2 DEF Overwrite, Contents
<1>. QED  BY <1>1, <1>2

\* The read operations change nothing and answer from the contents.
LEMMA ReadStep ==
    ASSUME Inv
    PROVE  /\ \A x \in Fields : Get(x) => ret' = Value(Contents[x])
           /\ \A x \in Fields : ContainsKey(x) => ret' = Found(Contents[x] # None)
           /\ Size => ret' = Length(Cardinality({x \in Fields : Contents[x] # None}))
           /\ Iterate => ret' = Items({<<x, Contents[x]>> : x \in {y \in Fields : Contents[y] # None}})
<1>. USE DEF Inv, TypeOK, DistinctFields
<1>1. \A x \in Fields : Contents[x] = IF kind = "linear" THEN Lookup(pairs, x) ELSE map[x]
  BY DEF Contents
<1>2. ASSUME NEW x \in Fields, Get(x) PROVE ret' = Value(Contents[x])
  BY <1>1, <1>2 DEF Get
<1>3. ASSUME NEW x \in Fields, ContainsKey(x) PROVE ret' = Found(Contents[x] # None)
  <2>1. CASE kind = "linear"
    <3>1. Holds(pairs, x) <=> Contents[x] # None
      BY <1>1, <2>1, LookupType
    <3>2. Holds(pairs, x) \in BOOLEAN
      BY DEF Holds
    <3>3. Holds(pairs, x) = (Contents[x] # None)
      BY <3>1, <3>2
    <3>. QED  BY <3>3, <2>1, <1>3 DEF ContainsKey
  <2>2. CASE kind = "map"
    BY <1>1, <1>3, <2>2 DEF ContainsKey
  <2>. QED  BY <2>1, <2>2
<1>4. ASSUME Size PROVE ret' = Length(Cardinality({x \in Fields : Contents[x] # None}))
  <2>1. CASE kind = "linear"
    <3>1. {x \in Fields : Contents[x] # None} = {x \in Fields : Lookup(pairs, x) # None}
      BY <1>1, <2>1
    <3>. QED  BY <3>1, <2>1, <1>4, SupportSize DEF Size
  <2>2. CASE kind = "map"
    <3>1. {x \in Fields : Contents[x] # None} = MapSupport
      BY <1>1, <2>2 DEF MapSupport
    <3>. QED  BY <3>1, <2>2, <1>4 DEF Size
  <2>. QED  BY <2>1, <2>2
<1>5. ASSUME Iterate
      PROVE  ret' = Items({<<x, Contents[x]>> : x \in {y \in Fields : Contents[y] # None}})
  <2>1. CASE kind = "linear"
    <3>1. ASSUME NEW i \in DOMAIN pairs
          PROVE  /\ pairs[i].field \in {y \in Fields : Contents[y] # None}
                 /\ Contents[pairs[i].field] = pairs[i].val
      <4>1. pairs[i].field \in Fields /\ pairs[i].val \in Vals
        BY PairTypeParts
      <4>2. Lookup(pairs, pairs[i].field) = pairs[i].val
        BY PosUnique
      <4>. QED  BY <4>1, <4>2, <1>1, <2>1, HashStoreAssumption
    <3>2. ASSUME NEW x \in Fields, Contents[x] # None
          PROVE  \E i \in DOMAIN pairs : pairs[i].field = x /\ pairs[i].val = Contents[x]
      <4>1. Holds(pairs, x)
        BY <1>1, <2>1, <3>2, LookupType
      <4>2. PICK i \in DOMAIN pairs : pairs[i].field = x
        BY <4>1 DEF Holds
      <4>. QED  BY <4>2, <3>1
    <3>3. {<<pairs[i].field, pairs[i].val>> : i \in DOMAIN pairs}
          = {<<x, Contents[x]>> : x \in {y \in Fields : Contents[y] # None}}
      BY <3>1, <3>2
    <3>. QED  BY <3>3, <2>1, <1>5 DEF Iterate
  <2>2. CASE kind = "map"
    BY <1>1, <2>2, <1>5 DEF Iterate, MapSupport
  <2>. QED  BY <2>1, <2>2
<1>. QED  BY <1>2, <1>3, <1>4, <1>5

\* Every operation keeps the invariant.
LEMMA NextInv == Inv /\ [Next]_vars => Inv'
<1>. SUFFICES ASSUME Inv, [Next]_vars PROVE Inv'
  OBVIOUS
<1>1. ASSUME NEW x \in Fields, NEW v \in Vals, Insert(x, v) PROVE Inv'
  BY <1>1, InsertStep
<1>2. ASSUME NEW x \in Fields, NEW v \in Vals, Overwrite(x, v) PROVE Inv'
  BY <1>2, OverwriteStep
<1>3. ASSUME NEW x \in Fields, Remove(x) PROVE Inv'
  BY <1>3, RemoveStep
<1>4. ASSUME UNCHANGED <<kind, pairs, map>> PROVE Inv'
  BY <1>4 DEF Inv, TypeOK, DistinctFields, Distinct, OneVariant, NoFields
<1>. QED  BY <1>1, <1>2, <1>3, <1>4 DEF Next, Get, ContainsKey, Size, Iterate, vars

\* A HashStore is well typed, uses one variant at a time and never holds a
\* field twice, for every threshold.
THEOREM Invariance == Spec => []Inv
<1>. QED  BY InitInv, NextInv, PTL DEF Spec

----------------------------------------------------------------------------

\* What a caller sees at the start is some map.
LEMMA InitPromise == Init => Promise!Init
<1>. SUFFICES ASSUME Init, Inv PROVE Promise!Init
  BY InitInv
<1>1. \A x \in Fields : Lookup(pairs, x) \in Vals \cup {None}
  BY LookupType DEF Inv, TypeOK, DistinctFields
<1>2. Contents \in [Fields -> Vals \cup {None}]
  BY <1>1 DEF Contents, Inv, TypeOK
<1>. QED  BY <1>2 DEF Init, Promise!Init, Promise!Value, Value

\* Every step is a step of the map, or leaves it and the answer alone.
LEMMA NextPromise == Inv /\ [Next]_vars => [Promise!Next]_<<Contents, ret>>
<1>. SUFFICES ASSUME Inv, [Next]_vars PROVE [Promise!Next]_<<Contents, ret>>
  OBVIOUS
<1>. USE DEF Promise!Value, Promise!Found, Promise!Length, Promise!Items, Promise!Support,
             Value, Found, Length, Items
<1>1. ASSUME NEW x \in Fields, NEW v \in Vals, Insert(x, v) PROVE Promise!Next
  <2>1. Promise!Insert(x, v)
    BY <1>1, InsertStep DEF Promise!Insert
  <2>. QED  BY <2>1 DEF Promise!Next
<1>2. ASSUME NEW x \in Fields, NEW v \in Vals, Overwrite(x, v) PROVE Promise!Next
  <2>1. Promise!Overwrite(x, v)
    BY <1>2, OverwriteStep DEF Promise!Overwrite
  <2>. QED  BY <2>1 DEF Promise!Next
<1>3. ASSUME NEW x \in Fields, Remove(x) PROVE Promise!Next
  <2>1. Promise!Remove(x)
    BY <1>3, RemoveStep DEF Promise!Remove
  <2>. QED  BY <2>1 DEF Promise!Next
<1>4. ASSUME UNCHANGED <<kind, pairs, map>> PROVE Contents' = Contents
  BY <1>4 DEF Contents, Lookup, Holds, Pos
<1>5. ASSUME NEW x \in Fields, Get(x) PROVE Promise!Next
  <2>1. Promise!Get(x)
    BY <1>4, <1>5, ReadStep DEF Get, Promise!Get
  <2>. QED  BY <2>1 DEF Promise!Next
<1>6. ASSUME NEW x \in Fields, ContainsKey(x) PROVE Promise!Next
  <2>1. Promise!ContainsKey(x)
    BY <1>4, <1>6, ReadStep DEF ContainsKey, Promise!ContainsKey
  <2>. QED  BY <2>1 DEF Promise!Next
<1>7. ASSUME Size PROVE Promise!Next
  <2>1. Promise!Size
    <3>1. \A S : Promise!Cardinality(S) = Cardinality(S)
      BY DEF Promise!Cardinality, Cardinality
    <3>. QED  BY <3>1, <1>4, <1>7, ReadStep DEF Size, Promise!Size
  <2>. QED  BY <2>1 DEF Promise!Next
<1>8. ASSUME Iterate PROVE Promise!Next
  <2>1. Promise!Iterate
    BY <1>4, <1>8, ReadStep DEF Iterate, Promise!Iterate
  <2>. QED  BY <2>1 DEF Promise!Next
<1>9. ASSUME UNCHANGED vars PROVE UNCHANGED <<Contents, ret>>
  BY <1>4, <1>9 DEF vars
<1>. QED  BY <1>1, <1>2, <1>3, <1>5, <1>6, <1>7, <1>8, <1>9 DEF Next

\* The vector, the map and the promotion between them answer every operation
\* as a plain map does, for every threshold and every set of fields.
THEOREM Refinement == Spec => ImplementsFieldMap
<1>. QED  BY InitPromise, NextPromise, Invariance, PTL DEF Spec, ImplementsFieldMap, Promise!Spec
=============================================================================
