------------------------------- MODULE Walker -------------------------------
(***************************************************************************)
(* The statement evaluator of MuonJS (parser.rs, eval_program.rs): it      *)
(* walks the text of a program, and break, continue and return are a       *)
(* pending loop control in the context that each construct looks at.  The  *)
(* walk w is the program's state, the pending control and the value of the *)
(* last statement; an exception is the value EXCEPTION, not a control.     *)
(* Expressions are taken to be evaluated right.                            *)
(***************************************************************************)
EXTENDS Engine

Loops == {"for", "while", "do", "of", "in"}
None == [c |-> "none", l |-> <<>>]
Control(c, l) == [c |-> c, l |-> l]
Walk(st) == [st |-> st, ctl |-> None, v |-> Undefined, stop |-> FALSE]
Pending(w) == w.ctl.c # "none"
Raised(w) == Failed(w.v)

\* The conditions of if, while, for and do: what is neither a boolean nor an
\* int is true unless it is null or undefined.
WalkTruthy(v) ==
    CASE Is(v, "bool") -> v.bool
      [] IsInt(v) -> v.num # 0
      [] OTHER -> ~(Is(v, "null") \/ Is(v, "undef"))
WithValue(w, r) == [w EXCEPT !.st = r.st, !.v = r.v]
Evaluated(e, w) == WithValue(w, Eval(e, w.st))

RECURSIVE WalkList(_, _), WalkStmt(_, _), WalkLoop(_, _, _), WalkEach(_, _, _, _), WalkCases(_, _, _, _, _)

---------------------------------------------------------------------------
\* A list of statements (eval_function_body) stops at a jump, at a throw, at an
\* expression that raised, and after a statement that left a control pending;
\* an exception that comes out of a compound statement does not stop it.
WalkOn(r, ss) == IF r.stop \/ Pending(r) THEN [r EXCEPT !.stop = FALSE] ELSE WalkList(ss, r)
WalkList(ss, w) == IF ss = <<>> THEN w ELSE WalkOn(WalkStmt(Head(ss), w), Tail(ss))
\* eval_block: the list in a scope of its own.
WalkBlock(ss, w) == WalkList(ss, [w EXCEPT !.v = Undefined])

WalkBranch(s, c) ==
    CASE WalkTruthy(c.v) -> WalkBlock(s.a, c)
      [] ~WalkTruthy(c.v) /\ s.b # <<>> -> WalkBlock(s.b[1], c)
      [] OTHER -> [c EXCEPT !.v = Undefined]
WalkIf(s, w) == WalkBranch(s, Evaluated(s.c, w))

---------------------------------------------------------------------------
\* Loops.  The control that the body left: a plain one is the loop's own, a
\* labelled one when it names the loop's label; all else goes up.
Own(w, label) == w.ctl.l = <<>> \/ w.ctl.l = label
Leaves(w, label) == w.ctl.c \in {"break", "return"} \/ (w.ctl.c = "continue" /\ ~Own(w, label))
ClearedBreak(w, label) == IF w.ctl.c = "break" /\ Own(w, label) THEN [w EXCEPT !.ctl = None] ELSE w
Cleared(w, label) ==
    IF w.ctl.c \in {"break", "continue"} /\ Own(w, label) THEN [w EXCEPT !.ctl = None] ELSE w
\* A round that begins with the test; label is <<>> or <<the loop's label>>.
WalkUpdate(s, w) == IF s.k = "for" /\ s.u # <<>> THEN Evaluated(s.u[1], w) ELSE w
WalkRound(s, label, body) ==
    IF Leaves(body, label) THEN Cleared(body, label)
    ELSE WalkLoop(s, label, [WalkUpdate(s, Cleared(body, label)) EXCEPT !.v = body.v])
WalkTested(s, label, test, v) ==
    IF WalkTruthy(test.v) THEN WalkRound(s, label, WalkBlock(s.body, [test EXCEPT !.st.fuel = @ - 1]))
    ELSE [test EXCEPT !.v = v]
WalkLoop(s, label, w) ==
    CASE w.st.fuel = 0 -> [w EXCEPT !.ctl = Control("stuck", <<>>)]
      [] w.st.fuel > 0 /\ s.k = "for" /\ s.c = <<>> -> WalkTested(s, label, [w EXCEPT !.v = Bool(TRUE)], w.v)
      [] OTHER -> WalkTested(s, label, Evaluated(IF s.k = "for" THEN s.c[1] ELSE s.c, w), w.v)
WalkFor(s, label, w) ==
    LET i == s.i[1]
        init == CASE s.i = <<>> -> w
                  [] s.i # <<>> /\ i.k = "var" -> WalkStmt(i, w)
                  [] OTHER -> Evaluated(i.e, w)
    IN  WalkLoop(s, label, [init EXCEPT !.v = Undefined, !.stop = FALSE])
\* A do loop runs its body once before the first test.
WalkDone(s, label, body) ==
    IF Leaves(body, label) THEN Cleared(body, label) ELSE WalkLoop(s, label, Cleared(body, label))
WalkDo(s, label, w) == WalkDone(s, label, WalkBlock(s.body, w))

\* for-of and for-in, from the i-th of what they found when they began.
WalkNext(s, label, i, body) ==
    IF Leaves(body, label) THEN Cleared(body, label) ELSE WalkEach(s, label, i + 1, Cleared(body, label))
WalkEach(s, label, i, w) ==
    IF i > Len(Items(s)) THEN w
    ELSE WalkNext(s, label, i, WalkBlock(s.body, [w EXCEPT !.st = Store(@, s.x, Items(s)[i])]))

\* A label is the loop's; on any other statement it only takes its own break.
WithoutBreak(r, l) == IF r.ctl = Control("break", l) THEN [r EXCEPT !.ctl = None] ELSE r
WalkLabel(s, w) ==
    CASE s.s.k = "for" -> WalkFor(s.s, <<s.l>>, w)
      [] s.s.k = "while" -> WalkLoop(s.s, <<s.l>>, [w EXCEPT !.v = Undefined])
      [] s.s.k = "do" -> WalkDo(s.s, <<s.l>>, w)
      [] s.s.k \in {"of", "in"} -> WalkEach(s.s, <<s.l>>, 1, [w EXCEPT !.v = Undefined])
      [] OTHER -> WithoutBreak(WalkList(<<s.s>>, w), <<s.l>>)

---------------------------------------------------------------------------
\* switch.  Two strings are never the same bits; a plain break ends the switch,
\* another control or an exception does not stop the cases that follow.
SameBits(a, b) == a = b /\ ~Is(a, "str") /\ (IsNumber(a) => IsInt(a))
BrokenOff(w) == w.ctl = Control("break", <<>>)
WalkCase(body, w) == WalkList(body, [w EXCEPT !.v = Undefined])
Default(s) == {j \in DOMAIN s.cases : s.cases[j][1] = <<>>}
WalkFall(s, i, v, ran) ==
    IF BrokenOff(ran) THEN [ran EXCEPT !.ctl = None] ELSE WalkCases(s, i + 1, v, TRUE, ran)
WalkMatch(s, i, v, tested) ==
    IF SameBits(v, tested.v) THEN WalkFall(s, i, v, WalkCase(s.cases[i][2], tested))
    ELSE WalkCases(s, i + 1, v, FALSE, tested)
\* The cases from i on; entered when one has matched.  A default is only run when
\* the cases are at their end.
WalkCases(s, i, v, entered, w) ==
    CASE i > Len(s.cases) ->
           IF entered \/ Default(s) = {} THEN w
           ELSE WithoutBreak(WalkCase(s.cases[CHOOSE j \in Default(s) : TRUE][2], w), <<>>)
      [] i <= Len(s.cases) /\ entered -> WalkFall(s, i, v, WalkCase(s.cases[i][2], w))
      [] i <= Len(s.cases) /\ ~entered /\ i \in Default(s) -> WalkCases(s, i + 1, v, FALSE, w)
      [] OTHER -> WalkMatch(s, i, v, Evaluated(s.cases[i][1][1], w))
WalkSwitchOn(s, c) == WalkCases(s, 1, c.v, FALSE, [c EXCEPT !.v = Undefined])
WalkSwitch(s, w) == WalkSwitchOn(s, Evaluated(s.e, w))

\* try.  The handler takes the exception; what the finally block leaves pending
\* stays, and its value only counts when it is an exception.
WalkCatch(s, r) ==
    IF Raised(r) /\ s.handler # <<>>
    THEN WalkBlock(s.handler[1], [r EXCEPT !.st = Store(r.st, s.x, r.v.exc)]) ELSE r
WalkFinal(final, result) == IF Raised(final) THEN final ELSE [final EXCEPT !.v = result.v]
WalkFinally(s, r) == IF s.final = <<>> THEN r ELSE WalkFinal(WalkBlock(s.final[1], r), r)
WalkTry(s, w) == WalkFinally(s, WalkCatch(s, WalkBlock(s.body, w)))

---------------------------------------------------------------------------
\* One statement of a list; stop says that the list ends with it.
Jump(w, c, l) == [w EXCEPT !.ctl = Control(c, l), !.stop = TRUE]
Raise(w) == [w EXCEPT !.v = Exception(@), !.stop = TRUE]
WalkSimple(s, w) ==
    CASE s.k \in {"break", "continue"} -> Jump([w EXCEPT !.v = Undefined], s.k, s.l)
      [] s.k = "return" ->
           Jump(IF s.es = <<>> THEN [w EXCEPT !.v = Undefined] ELSE Evaluated(s.es[1], w), "return", <<>>)
      [] s.k = "throw" -> Raise(Evaluated(s.e, w))
StopIfRaised(w) == [w EXCEPT !.stop = Raised(w)]
WalkDeclared(d, w) == [w EXCEPT !.st = d.st, !.v = IF d.c = "throw" THEN Exception(d.v) ELSE Undefined]
WalkExpr(s, w) ==
    StopIfRaised(IF s.k = "expr" THEN Evaluated(s.e, w) ELSE WalkDeclared(Declare(s.decls, w.st), w))
WalkStmt(s, w) ==
    CASE s.k \in {"break", "continue", "return", "throw"} -> WalkSimple(s, w)
      [] s.k \in {"expr", "var"} -> WalkExpr(s, w)
      [] s.k = "if" -> WalkIf(s, w)
      [] s.k = "while" -> WalkLoop(s, <<>>, [w EXCEPT !.v = Undefined])
      [] s.k = "for" -> WalkFor(s, <<>>, w)
      [] s.k = "do" -> WalkDo(s, <<>>, w)
      [] s.k \in {"of", "in"} -> WalkEach(s, <<>>, 1, [w EXCEPT !.v = Undefined])
      [] s.k = "block" -> WalkBlock(s.body, w)
      [] s.k = "label" -> WalkLabel(s, w)
      [] s.k = "switch" -> WalkSwitch(s, w)
      [] s.k = "try" -> WalkTry(s, w)

\* A call: a return is taken, and the value of the last statement is the answer.
WalkCall(body, st) == WalkList(body, Walk(st))
WalkOutcome(w) ==
    IF Raised(w) THEN Outcome("throw", Undefined, w.st) ELSE Outcome("value", w.v, w.st)

---------------------------------------------------------------------------
\* A script (eval_script_body) and a program (eval_program) are lists of their
\* own.  A script returns from its top level only and stops at every exception;
\* a program has no return, and goes on after a compound statement that raised or
\* left a control pending, unless it is a block or has a label.
EndsScript(s, r) == \/ s.k \in {"return", "break", "continue"} \/ Raised(r)
                    \/ s.k \in {"block", "label"} /\ Pending(r)
RECURSIVE WalkScript(_, _), WalkProgram(_, _)
ScriptOn(s, r, rest) ==
    IF EndsScript(s, r) THEN r ELSE WalkScript(rest, [r EXCEPT !.stop = FALSE])
WalkScript(ss, w) == IF ss = <<>> THEN w ELSE ScriptOn(Head(ss), WalkStmt(Head(ss), w), Tail(ss))
EndsProgram(s, r) == r.stop \/ (s.k \in {"block", "label"} /\ Pending(r))
ProgramOn(s, r, rest) == IF EndsProgram(s, r) THEN r ELSE WalkProgram(rest, r)
WalkProgram(ss, w) == IF ss = <<>> THEN w ELSE ProgramOn(Head(ss), WalkStmt(Head(ss), w), Tail(ss))
---------------------------------------------------------------------------
\* The three ways in: a function's body, an EVAL script, a program.
Begin(p) == Start([x \in VarNames(p.body) \union ToSet(p.params) |-> Argument(p, x)], Globals, MaxRounds)
Walked(p) ==
    CASE p.as = "function" -> WalkCall(p.body, Begin(p))
      [] p.as = "script" -> WalkScript(p.body, Walk(Begin(p)))
      [] p.as = "program" -> WalkProgram(p.body, Walk(Begin(p)))
\* The walk did what the program means: the same host calls and globals, the same
\* exception, and the value of the return that ended it.
DidAs(w, r) ==
    r.c # "stuck" =>
        /\ w.st.log = r.st.log /\ w.st.globals = r.st.globals
        /\ Raised(w) <=> r.c = "throw"
        /\ r.c = "throw" => w.v.exc = r.v
        /\ r.c = "return" => w.v = r.v
WalksRight(p) == DidAs(Walked(p), ExecAll(p.body, Begin(p)))

\* The programs on which the walk keeps to the language.  Escapes are the ways a
\* statement may complete other than by its end.
MayFail(e) == Word("fail") \in ToSet(Text(e, 1))
Plainly(c) == Control(c, <<>>)
Escaping(es) == IF \E i \in DOMAIN es : MayFail(es[i]) THEN {Plainly("throw")} ELSE {}
RECURSIVE Escapes(_), AllEscapes(_), Walkable(_), AllWalkable(_)
AllEscapes(ss) == UNION {Escapes(ss[i]) : i \in DOMAIN ss}
Escapes(s) ==
    CASE s.k = "expr" -> Escaping(<<s.e>>)
      [] s.k = "var" -> UNION {Escaping(s.decls[i][2]) : i \in DOMAIN s.decls}
      [] s.k \in {"break", "continue"} -> {Control(s.k, s.l)}
      [] s.k = "return" -> {Plainly("return")} \union Escaping(s.es)
      [] s.k = "throw" -> {Plainly("throw")}
      [] s.k = "block" -> AllEscapes(s.body)
      [] s.k = "if" -> AllEscapes(s.a) \union (IF s.b = <<>> THEN {} ELSE AllEscapes(s.b[1]))
      [] s.k \in Loops -> AllEscapes(s.body) \ {Plainly("break"), Plainly("continue")}
      [] s.k = "label" ->
           Escapes(s.s) \ ({Control("break", <<s.l>>)}
                           \union IF s.s.k \in Loops THEN {Control("continue", <<s.l>>)} ELSE {})
      [] s.k = "switch" -> UNION {AllEscapes(s.cases[i][2]) : i \in DOMAIN s.cases} \ {Plainly("break")}
      [] s.k = "try" ->
           (AllEscapes(s.body) \ (IF s.handler = <<>> THEN {} ELSE {Plainly("throw")}))
           \union (IF s.handler = <<>> THEN {} ELSE AllEscapes(s.handler[1]))
           \union (IF s.final = <<>> THEN {} ELSE AllEscapes(s.final[1]))
Throws(s) == Plainly("throw") \in Escapes(s)
Compound(s) == s.k \notin {"expr", "var", "return", "throw", "break", "continue"}
\* An exception that leaves a compound statement must end the list anyway.
AllWalkable(ss) ==
    \A i \in DOMAIN ss : Walkable(ss[i]) /\ (Compound(ss[i]) /\ Throws(ss[i]) => i = Len(ss))
\* No exception out of a loop; out of a case that is not the last only a break;
\* a default that is not the last ends in one; a finally block is one call; a
\* return's value does not fail; a statement has one label.
Walkable(s) ==
    CASE s.k = "if" -> AllWalkable(s.a) /\ (s.b # <<>> => AllWalkable(s.b[1]))
      [] s.k = "block" -> AllWalkable(s.body)
      [] s.k = "return" -> ~Throws(s)
      [] s.k \in Loops -> AllWalkable(s.body) /\ ~Throws(s)
      [] s.k = "label" -> s.s.k # "label" /\ Walkable(s.s)
      [] s.k = "switch" ->
           \A i \in DOMAIN s.cases :
              LET body == s.cases[i][2] IN
              /\ AllWalkable(body)
              /\ i < Len(s.cases) =>
                    /\ AllEscapes(body) \subseteq {Plainly("break")}
                    /\ s.cases[i][1] = <<>> => body # <<>> /\ body[Len(body)] = Break(<<>>)
      [] s.k = "try" -> /\ AllWalkable(s.body) /\ (s.handler # <<>> => AllWalkable(s.handler[1]))
                        /\ s.final # <<>> => AllEscapes(s.final[1]) = {} /\ Len(s.final[1]) <= 1
      [] OTHER -> TRUE
\* A script's return is at its top level, a program has none; both take a
\* statement of the top level for complete when it is compound.
WalkPlain(p) ==
    LET top == IF p.as = "program" THEN {Plainly("throw")} ELSE {Plainly("return"), Plainly("throw")}
    IN  /\ AllWalkable(p.body) /\ AllEscapes(p.body) \subseteq top
        /\ p.as # "function" => \A i \in DOMAIN p.body : Compound(p.body[i]) => Escapes(p.body[i]) = {}
=============================================================================
