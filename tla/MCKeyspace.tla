----------------------------- MODULE MCKeyspace -----------------------------
(* Finite instances of LazyExpiry; the scopes choose the families.        *)
EXTENDS LazyExpiry

MCStrings == {Numeral(2), Text(1)}
MCText == {Text(1)}
CONSTANTS k1, k2

\* One key and every family of commands; two keys and the one family whose
\* commands (SMOVE) reach two.
Scope(ks, fs, ss) == [keys |-> ks, families |-> fs, strings |-> ss]
AllFamilies == Scope({k1}, {"string", "list", "hash", "set", "zset", "stream"}, MCStrings)
TwoSets     == Scope({k1, k2}, {"set"}, MCText)
MCScopes    == {AllFamilies, TwoSets}
OnlyStrings == {Scope({k1}, {"string"}, MCStrings)}
OnlyLists   == {Scope({k1}, {"list"}, MCStrings)}

MCDeltas == {1, -3, MinInt}
MCIndices == {-4, -2, 0, 1, 3}

(* What the commands and the properties read of a state: `last` and `reply` *)
(* are only read of the state a step leads to.                             *)
MCView == <<db, now, scope, Running>>

=============================================================================
