------------------------------ MODULE HashStore ------------------------------
(***************************************************************************)
(* HashStore (src/src/muon_cache/store.rs): a hash's fields live in a      *)
(* vector of pairs while there are few of them and move for good to a hash *)
(* map when one more than HASH_LINEAR_THRESHOLD is inserted.  Shown to     *)
(* implement a plain map, FieldMap.                                        *)
(***************************************************************************)
EXTENDS Integers, Sequences, FiniteSets

CONSTANTS Fields, Vals, None,
          Threshold     \* HASH_LINEAR_THRESHOLD (8 in the code)

ASSUME HashStoreAssumption ==
    /\ None \notin Vals
    /\ IsFiniteSet(Fields)
    /\ Threshold \in Nat \ {0}

VARIABLES kind,    \* which variant of the enum: "linear" or "map"
          pairs,   \* Linear(v): the vector
          map,     \* Map(m): field to value, None where absent
          ret      \* what the last operation returned

vars == <<kind, pairs, map, ret>>

Value(v) == [value |-> v]
Found(b) == [found |-> b]
Length(n) == [length |-> n]
Items(s) == [items |-> s]

PairType == [field : Fields, val : Vals]
Pair(x, v) == [field |-> x, val |-> v]
NoFields == [x \in Fields |-> None]

\* with_single: the hash a command creates.
WithSingle(x, v) == kind = "linear" /\ pairs = <<Pair(x, v)>> /\ map = NoFields

\* load_hash: a hash read back from the snapshot is a Map, however small.
Loaded == kind = "map" /\ pairs = <<>> /\ map \in [Fields -> Vals \cup {None}]

Init == /\ (\E x \in Fields, v \in Vals : WithSingle(x, v)) \/ Loaded
        /\ ret = Value(None)

----------------------------------------------------------------------------
(* The linear variant.                                                     *)

Holds(s, x) == \E i \in DOMAIN s : s[i].field = x
\* The first position that holds x, as `find` and `position` return it.
Pos(s, x) == CHOOSE i \in DOMAIN s :
                s[i].field = x /\ \A j \in 1 .. i - 1 : s[j].field # x
Lookup(s, x) == IF Holds(s, x) THEN s[Pos(s, x)].val ELSE None

Pushed(s, x, v) == Append(s, Pair(x, v))
Overwritten(s, i, v) == [s EXCEPT ![i] = Pair(s[i].field, v)]
\* Mutant: the last pair is popped whichever was found.
PopLast(s, i) == SubSeq(s, 1, Len(s) - 1)
\* Vec::swap_remove: the last pair takes the place of the removed one.
SwapRemove(s, i) == [j \in 1 .. Len(s) - 1 |-> IF j = i THEN s[Len(s)] ELSE s[j]]

\* Mutant: the field is not looked for before it is pushed.
PushAlways(x, v) ==
    /\ kind = "linear"
    /\ ret' = Value(Lookup(pairs, x))
    /\ Len(pairs) < Threshold
    /\ pairs' = Pushed(pairs, x, v)
    /\ UNCHANGED <<kind, map>>

InsertLinear(x, v) ==
    /\ kind = "linear"
    /\ ret' = Value(Lookup(pairs, x))
    /\ \/ /\ Holds(pairs, x)
          /\ pairs' = Overwritten(pairs, Pos(pairs, x), v)
          /\ UNCHANGED <<kind, map>>
       \/ /\ ~Holds(pairs, x) /\ Len(pairs) < Threshold
          /\ pairs' = Pushed(pairs, x, v)
          /\ UNCHANGED <<kind, map>>
       \/ /\ ~Holds(pairs, x) /\ Len(pairs) >= Threshold
          /\ kind' = "map"
          /\ pairs' = <<>>
          /\ map' = [y \in Fields |-> IF y = x THEN v ELSE Lookup(pairs, y)]

RemoveLinear(x) ==
    /\ kind = "linear"
    /\ ret' = Value(Lookup(pairs, x))
    /\ pairs' = IF Holds(pairs, x) THEN SwapRemove(pairs, Pos(pairs, x)) ELSE pairs
    /\ UNCHANGED <<kind, map>>

----------------------------------------------------------------------------
(* The map variant, and the operations that dispatch on the variant.       *)

InsertMap(x, v) ==
    /\ kind = "map"
    /\ ret' = Value(map[x])
    /\ map' = [map EXCEPT ![x] = v]
    /\ UNCHANGED <<kind, pairs>>

RemoveMap(x) ==
    /\ kind = "map"
    /\ ret' = Value(map[x])
    /\ map' = [map EXCEPT ![x] = None]
    /\ UNCHANGED <<kind, pairs>>

Insert(x, v) == InsertLinear(x, v) \/ InsertMap(x, v)
Remove(x) == RemoveLinear(x) \/ RemoveMap(x)

\* get_mut followed by an assignment, as hash_set_ref does for a known field
Overwrite(x, v) ==
    /\ \/ /\ kind = "linear" /\ Holds(pairs, x)
          /\ pairs' = Overwritten(pairs, Pos(pairs, x), v)
          /\ UNCHANGED map
       \/ /\ kind = "map" /\ map[x] # None
          /\ map' = [map EXCEPT ![x] = v]
          /\ UNCHANGED pairs
    /\ ret' = Found(TRUE)
    /\ UNCHANGED kind

Get(x) == /\ ret' = Value(IF kind = "linear" THEN Lookup(pairs, x) ELSE map[x])
          /\ UNCHANGED <<kind, pairs, map>>

ContainsKey(x) == /\ ret' = Found(IF kind = "linear" THEN Holds(pairs, x) ELSE map[x] # None)
                  /\ UNCHANGED <<kind, pairs, map>>

MapSupport == {x \in Fields : map[x] # None}

Size == /\ ret' = Length(IF kind = "linear" THEN Len(pairs) ELSE Cardinality(MapSupport))
        /\ UNCHANGED <<kind, pairs, map>>

Iterate ==
    /\ ret' = Items(IF kind = "linear" THEN {<<pairs[i].field, pairs[i].val>> : i \in DOMAIN pairs}
                    ELSE {<<x, map[x]>> : x \in MapSupport})
    /\ UNCHANGED <<kind, pairs, map>>

Next ==
    \/ \E x \in Fields : \/ \E v \in Vals : Insert(x, v) \/ Overwrite(x, v)
                         \/ Remove(x) \/ Get(x) \/ ContainsKey(x)
    \/ Size \/ Iterate

Spec == Init /\ [][Next]_vars

----------------------------------------------------------------------------

TypeOK == /\ kind \in {"linear", "map"}
          /\ pairs \in Seq(PairType)
          /\ map \in [Fields -> Vals \cup {None}]

\* No field is in the vector twice, so `find` and `position` see all there is
\* (insert looks for the field before it pushes, swap_remove only moves a pair).
Distinct(s) == \A i, j \in DOMAIN s : s[i].field = s[j].field => i = j
DistinctFields == Distinct(pairs)

\* Only one variant is ever in use, and the vector never outgrows the threshold.
OneVariant == /\ kind = "map" => pairs = <<>>
              /\ kind = "linear" => map = NoFields
              /\ Len(pairs) <= Threshold

\* What is inductive: a field is held once, in one variant.
Inv == TypeOK /\ DistinctFields /\ OneVariant

\* The map a caller sees.
Contents == [x \in Fields |-> IF kind = "linear" THEN Lookup(pairs, x) ELSE map[x]]

Promise == INSTANCE FieldMap WITH m <- Contents

\* The vector, the map and the promotion between them answer every operation
\* as one map does.
ImplementsFieldMap == Promise!Spec
=============================================================================
