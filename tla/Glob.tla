-------------------------------- MODULE Glob --------------------------------
(***************************************************************************)
(* The pattern matcher behind KEYS and SCAN MATCH (store.rs): a loop over  *)
(* text and pattern that remembers only the last star, and what it is      *)
(* meant to compute.  Bytes are their ASCII codes; positions start at 1.   *)
(***************************************************************************)
EXTENDS Integers, Sequences, FiniteSets

Star == 42
Question == 63
Open == 91
Backslash == 92
Close == 93
Caret == 94
Bang == 33
Dash == 45

NoClass == [ok |-> FALSE, next |-> 0]

\* glob_class_match from position i, the position after '[' and an optional '^'
\* or '!' being start: [ok, next], or NoClass if no ']' closes the class.
RECURSIVE ScanClass(_, _, _, _, _, _)
ScanClass(p, i, start, neg, matched, ch) ==
    IF i > Len(p) THEN NoClass
    ELSE IF p[i] = Close /\ i > start THEN [ok |-> matched # neg, next |-> i + 1]
    ELSE LET j == IF p[i] = Backslash /\ i < Len(p) THEN i + 1 ELSE i
             c == p[j]
             range == j + 2 <= Len(p) /\ p[j + 1] = Dash /\ p[j + 2] # Close
             end == IF p[j + 2] = Backslash /\ j + 3 <= Len(p) THEN p[j + 3] ELSE p[j + 2]
         IN  IF range
               THEN ScanClass(p, j + 3, start, neg, matched \/ (c <= ch /\ ch <= end), ch)
               ELSE ScanClass(p, j + 1, start, neg, matched \/ c = ch, ch)

GlobClassMatch(p, i, ch) ==
    IF i > Len(p) THEN NoClass
    ELSE LET neg == p[i] \in {Caret, Bang}
             start == IF neg THEN i + 1 ELSE i
         IN  ScanClass(p, start, start, neg, FALSE, ch)

\* Mutant: after a mismatch the text goes on where it stopped, not one behind the star.
RetryHere(ti, starTi) == ti + 1
Retry(ti, starTi) == starTi + 1

\* One element of the pattern against text[ti]: the position after it, or 0.
AfterElement(t, p, ti, pi) ==
    LET ch == t[ti]
        class == GlobClassMatch(p, pi + 1, ch)
        lit == IF pi < Len(p) THEN pi + 1 ELSE pi
    IN  CASE p[pi] = Question -> pi + 1
          [] p[pi] = Open /\ class # NoClass -> IF class.ok THEN class.next ELSE 0
          [] p[pi] = Open -> IF ch = Open THEN pi + 1 ELSE 0
          [] p[pi] = Backslash -> IF p[lit] = ch THEN lit + 1 ELSE 0
          [] OTHER -> IF p[pi] = ch THEN pi + 1 ELSE 0

\* The loop of glob_match; star is the position of the last star, or 0.
RECURSIVE GlobLoop(_, _, _, _, _, _)
GlobLoop(t, p, ti, pi, star, starTi) ==
    LET more == ti <= Len(t)
        back == IF star = 0 THEN FALSE
                ELSE LET r == Retry(ti, starTi) IN
                     IF r <= Len(t) + 1 THEN GlobLoop(t, p, r, star + 1, star, r) ELSE FALSE
    IN  IF pi > Len(p) THEN (IF more THEN back ELSE TRUE)
        ELSE IF p[pi] = Star THEN GlobLoop(t, p, ti, pi + 1, pi, ti)
        ELSE IF ~more THEN (IF p[pi] \in {Question, Open} THEN FALSE ELSE back)
        ELSE LET next == AfterElement(t, p, ti, pi) IN
             IF next = 0 THEN back ELSE GlobLoop(t, p, ti + 1, next, star, starTi)

GlobMatch(t, p) == GlobLoop(t, p, 1, 1, 0, 1)

-----------------------------------------------------------------------------
\* What a pattern means: a sequence of elements, each a star or the set of bytes
\* it accepts.  A class ends at the first ']' that is not its first byte; one
\* that is not closed is the byte '['.  (No backslash inside a class.)
AnyRun == {0}
Negated(p, i) == i <= Len(p) /\ p[i] \in {Caret, Bang}
Inside(p, i) == IF Negated(p, i) THEN i + 1 ELSE i
ClassEnds(p, i) == {j \in (Inside(p, i) + 1)..Len(p) : p[j] = Close}
ClassEnd(p, i) == CHOOSE j \in ClassEnds(p, i) : \A k \in ClassEnds(p, i) : j <= k

RECURSIVE Accepts(_)
Accepts(s) ==      \* the bytes named by the inside of a class
    CASE s = <<>> -> {}
      [] Len(s) >= 3 /\ s[2] = Dash -> (s[1]..s[3]) \union Accepts(SubSeq(s, 4, Len(s)))
      [] OTHER -> {s[1]} \union Accepts(Tail(s))

AnyByte == 1..255
ClassSet(p, i) == LET in == Accepts(SubSeq(p, Inside(p, i), ClassEnd(p, i) - 1))
                  IN  IF Negated(p, i) THEN AnyByte \ in ELSE in

RECURSIVE Elements(_, _)
Elements(p, i) ==
    CASE i > Len(p) -> <<>>
      [] i <= Len(p) /\ p[i] = Star -> <<AnyRun>> \o Elements(p, i + 1)
      [] i <= Len(p) /\ p[i] = Question -> <<AnyByte>> \o Elements(p, i + 1)
      [] i <= Len(p) /\ p[i] = Open /\ ClassEnds(p, i + 1) # {} ->
            <<ClassSet(p, i + 1)>> \o Elements(p, ClassEnd(p, i + 1) + 1)
      [] i < Len(p) /\ p[i] = Backslash -> <<{p[i + 1]}>> \o Elements(p, i + 2)
      [] OTHER -> <<{p[i]}>> \o Elements(p, i + 1)

\* A text matches if the elements can share it out: stars take any run, sets one byte.
RECURSIVE Shares(_, _)
Shares(t, es) ==
    IF es = <<>> THEN t = <<>>
    ELSE IF es[1] = AnyRun THEN \E n \in 0..Len(t) : Shares(SubSeq(t, n + 1, Len(t)), Tail(es))
    ELSE t # <<>> /\ t[1] \in es[1] /\ Shares(Tail(t), Tail(es))

Means(t, p) == Shares(t, Elements(p, 1))
QuotesInClass(p) == \E i, j \in DOMAIN p : i < j /\ p[i] = Open /\ p[j] = Backslash
=============================================================================
