------------------------------ MODULE FieldMap ------------------------------
(***************************************************************************)
(* What a hash promises its callers (the uses of HashStore in store.rs):   *)
(* a finite map from fields to values.  Every operation answers through    *)
(* `ret`.                                                                  *)
(***************************************************************************)
EXTENDS Integers, FiniteSets

CONSTANTS Fields,   \* finite
          Vals,
          None      \* not a value: the field is absent

VARIABLES m, ret

Support(f) == {x \in Fields : f[x] # None}

\* Answers: a value or None, a Boolean, a length, the pairs of an iteration.
Value(v) == [value |-> v]
Found(b) == [found |-> b]
Length(n) == [length |-> n]
Items(s) == [items |-> s]

Init == m \in [Fields -> Vals \cup {None}] /\ ret = Value(None)

Insert(x, v) == m' = [m EXCEPT ![x] = v] /\ ret' = Value(m[x])
Overwrite(x, v) == m[x] # None /\ m' = [m EXCEPT ![x] = v] /\ ret' = Found(TRUE)
Remove(x) == m' = [m EXCEPT ![x] = None] /\ ret' = Value(m[x])
Get(x) == m' = m /\ ret' = Value(m[x])
ContainsKey(x) == m' = m /\ ret' = Found(m[x] # None)
Size == m' = m /\ ret' = Length(Cardinality(Support(m)))
Iterate == m' = m /\ ret' = Items({<<x, m[x]>> : x \in Support(m)})

Next ==
    \/ \E x \in Fields : \/ \E v \in Vals : Insert(x, v) \/ Overwrite(x, v)
                         \/ Remove(x) \/ Get(x) \/ ContainsKey(x)
    \/ Size \/ Iterate

Spec == Init /\ [][Next]_<<m, ret>>
=============================================================================
