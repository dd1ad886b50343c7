----------------------------- MODULE Algorithms -----------------------------
(***************************************************************************)
(* The pure algorithms of the repository on bounded inputs: an initial     *)
(* state chooses an input, one step runs the algorithm on it, and an       *)
(* invariant compares the answer with the reference.  SCAN, which spans    *)
(* several commands, takes as many steps as it has calls.                  *)
(***************************************************************************)
EXTENDS Scan

CONSTANTS MaxI,        \* i64::MAX of the codec
          Patterns, Texts,           \* for the glob matcher
          RespValues, Pipelined, Commands,   \* for the RESP codec
          JsonValues, Numerals,      \* for JSON
          Programs,                  \* for the bytecode compiler and its VM, and
          Walks,                     \* the statement evaluator: sequences of sets
          MaxInt, MaxRounds, MaxSteps

G == INSTANCE Glob
R == INSTANCE Resp
J == INSTANCE Json
E == INSTANCE Walker

VARIABLES job,      \* the algorithm and its input, which is of the given part of the inputs
          done
vars == <<job, done, scan>>

Part(alg, inputs, i) == job \in [alg : {alg}, in : inputs, part : {i}] /\ NoScan
Job(alg, inputs) == Part(alg, inputs, 1)
Init == /\ done = FALSE
        /\ \/ Job("glob", Patterns)
           \/ Job("resp", RespValues)
           \/ Job("command", Commands)
           \/ Job("json", JsonValues)
           \/ Job("number", Numerals)
           \/ \E i \in DOMAIN Programs : Part("function", Programs[i], i)
           \/ \E i \in DOMAIN Walks : Part("walk", Walks[i], i)
           \/ job = [alg |-> "scan", in |-> <<>>, part |-> 1] /\ ScanInit

Run == job.alg # "scan" /\ ~done /\ done' = TRUE /\ UNCHANGED <<job, scan>>

Next == Run \/ (ScanNext /\ UNCHANGED <<job, done>>)

\* The client that walks goes on walking.
Spec == Init /\ [][Next]_vars /\ WF_vars(ScanCall /\ UNCHANGED <<job, done>>)

Of(alg) == done /\ job.alg = alg

\* glob_match, which backtracks only to the last star, accepts exactly the texts
\* the pattern describes (KEYS, SCAN MATCH).
GlobRight == Of("glob") => \A t \in Texts : G!GlobMatch(t, job.in) = G!Means(t, job.in)

\* What encode writes, read_value reads back, and no more than it: the reply
\* that is pipelined behind it stays where it is, however deep the arrays nest.
\* Only the smallest integer comes back as another value (0).
RespRoundTrip ==
    Of("resp") => \A w \in Pipelined :
        R!ReadValue(R!Encode(job.in) \o R!Encode(w)) =
            R!Got(IF job.in = R!Integer(-MaxI - 1) THEN R!Integer(0) ELSE job.in, R!Encode(w))

\* A command cut off by the end of the connection is never run, wherever the cut
\* is: its prefix is an error, the end of the input, or not a command.
TruncatedNeverRuns ==
    Of("command") =>
        LET bytes == R!Encode(job.in) IN
        \A n \in 0..(Len(bytes) - 1) : ~R!Runs(R!ReadValue(SubSeq(bytes, 1, n)))

\* JSON.parse(JSON.stringify(v)) is v, with null for a number that is not finite and
\* for undefined in an array, and without the undefined properties, exactly when
\* the writer escapes all that needs it.  It does not escape control bytes other
\* than newline, return and tab, and nothing in keys: the text of a string with such a
\* byte is refused, and a key that needs an escape is refused or comes back as
\* another.  Of all texts over the bytes of a number the parser takes the JSON numbers
\* and no other.
JsonRight ==
    /\ Of("json") =>
          LET r == J!ParseJson(J!Stringify(job.in, FALSE))
              kept == J!Kept(job.in)
              restored == r.ok /\ r.v = kept
          IN  /\ restored = (J!PlainStrings(kept) /\ J!PlainKeys(kept))
              /\ ~J!PlainStrings(kept) /\ J!PlainKeys(kept) => ~r.ok
    /\ Of("number") => J!ParseJson(job.in).ok = J!IsNumber(job.in)

\* The functions whose code, and the programs whose walk, goes wrong.
Miscompiled ==
    [i \in DOMAIN Programs |-> {p \in Programs[i] : E!PlainProgram(p) /\ ~E!RunsRight(p)}]
Misled == [i \in DOMAIN Walks |-> {p \in Walks[i] : E!WalkPlain(p) /\ ~E!WalksRight(p)}]

\* A function whose body is compiled does what it says, on the programs that
\* keep clear of the compiler's shortcuts: its value or exception, the globals it
\* leaves, the host calls it makes and their order.  Every jump lands where it
\* must and every path leaves one value on the stack.
CompiledRight == Of("function") => job.in \notin Miscompiled[job.part]

\* The statement evaluator runs what a program says: break, continue and return
\* reach the loop, switch or call they are meant for through every nesting of
\* loops, labels, branches, switches and try blocks, and nothing is run after
\* them; on the programs that keep clear of its shortcuts.
WalkedRight == Of("walk") => job.in \notin Misled[job.part]
=============================================================================
