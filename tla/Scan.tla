-------------------------------- MODULE Scan --------------------------------
(***************************************************************************)
(* SCAN (cmd_handlers.rs): the cursor is an index into the sorted list of  *)
(* the keys of the moment.  One client walks through the keys, call by     *)
(* call, while others insert and delete keys between the calls.  Keys are  *)
(* numbers, in the order the server sorts them.  The list is collected     *)
(* shard by shard; what others do to one shard commutes with what they do  *)
(* to another, so a call is one step.                                      *)
(***************************************************************************)
EXTENDS Integers, Sequences, FiniteSets, SequencesExt

CONSTANTS MaxKey,       \* keys are 1 .. MaxKey
          MaxDeletes,   \* bound: deletions during a walk
          Counts        \* COUNT arguments

\* COUNT 0 is accepted by the code and answered with the cursor 0 and no keys:
\* a client that sends it cannot tell that its walk is over.
ASSUME ScanAssumption ==
    MaxKey \in Nat /\ MaxDeletes \in Nat /\ Counts \subseteq Nat \ {0}

VARIABLES keys,     \* the keys in the database
          cursor,   \* what the client sends next
          count,    \* its COUNT
          walk,     \* "on" or "over"
          begun,    \* history: the keys when the walk began
          deleted,  \* history: the keys deleted during the walk, in order
          seen      \* history: the keys the client has been given

scan == <<keys, cursor, count, walk, begun, deleted, seen>>

\* The position of key k in the sorted list of the keys ks.
Rank(ks, k) == Cardinality({j \in ks : j <= k})
KeyAt(ks, i) == CHOOSE k \in ks : Rank(ks, k) = i
Sorted == [ks \in SUBSET (1..MaxKey) |-> [i \in 1..Cardinality(ks) |-> KeyAt(ks, i)]]
SortedKeys == Sorted[keys]

Clamp(n, top) == IF n > top THEN top ELSE n

\* Mutant: the list is over only behind its end.
NextCursorLate(end, len) == IF end > len THEN 0 ELSE end
NextCursor(end, len) == IF end >= len THEN 0 ELSE end
\* Mutant: the last position of a batch is left out.
BatchShort(list, from, end) == SubSeq(list, from + 1, end - 1)
Batch(list, from, end) == SubSeq(list, from + 1, end)

ScanCall ==
    LET list == SortedKeys
        from == Clamp(cursor, Len(list))
        end  == Clamp(from + count, Len(list))
        next == NextCursor(end, Len(list)) IN
    /\ walk = "on"
    /\ seen' = seen \union ToSet(Batch(list, from, end))
    /\ cursor' = next
    /\ walk' = IF next = 0 THEN "over" ELSE "on"
    /\ UNCHANGED <<keys, count, begun, deleted>>

InsertKey == /\ walk = "on"
             /\ \E k \in (1..MaxKey) \ keys : keys' = keys \union {k}
             /\ UNCHANGED <<cursor, count, walk, begun, deleted, seen>>

DeleteKey == /\ walk = "on" /\ Len(deleted) < MaxDeletes
             /\ \E k \in keys : keys' = keys \ {k} /\ deleted' = Append(deleted, k)
             /\ UNCHANGED <<cursor, count, walk, begun, seen>>

ScanInit == /\ keys \in SUBSET (1..MaxKey) /\ begun = keys
            /\ count \in Counts /\ cursor = 0 /\ walk = "on"
            /\ deleted = <<>> /\ seen = {}
NoScan == /\ keys = {} /\ begun = {} /\ count = 1 /\ cursor = 0 /\ walk = "over"
          /\ deleted = <<>> /\ seen = {}

ScanNext == ScanCall \/ InsertKey \/ DeleteKey

ScanSpec == ScanInit /\ [][ScanNext]_scan

-----------------------------------------------------------------------------
\* A walk gives every key that was there from beginning to end, unless keys were
\* deleted meanwhile: insertions shift positions only backwards, so that a key
\* may come twice but not be passed over; each deletion may hide one key.
ScanMissesOnlyByDeletes ==
    walk = "over" => Cardinality(begun \ (seen \union ToSet(deleted))) <= Len(deleted)

\* With COUNT at least 1 the walk ends, whatever is inserted and deleted.
ScanEnds == walk = "on" ~> walk = "over"
=============================================================================
