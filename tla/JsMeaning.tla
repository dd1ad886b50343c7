----------------------------- MODULE JsMeaning ------------------------------
(***************************************************************************)
(* What a JavaScript program means: the reference for MuonJS's compiler    *)
(* and statement evaluator.  A program is a tree; Eval and Exec follow the *)
(* language's definition (a statement's completion is normal, a break, a   *)
(* continue, a return or a throw), and Unparse writes a tree as tokens     *)
(* with no more parentheses than the language's precedences ask for.       *)
(***************************************************************************)
EXTENDS JsValues

---------------------------------------------------------------------------
\* Trees: expressions.
Lit(v) == [k |-> "lit", v |-> v]
Name(x) == [k |-> "name", x |-> x]
Paren(e) == [k |-> "paren", e |-> e]
Un(op, e) == [k |-> "un", op |-> op, e |-> e]
Bin(op, l, r) == [k |-> "bin", op |-> op, l |-> l, r |-> r]
Cond(c, a, b) == [k |-> "cond", c |-> c, a |-> a, b |-> b]
Assign(op, x, e) == [k |-> "set", op |-> op, x |-> x, e |-> e]
Inc(op, x, pre) == [k |-> "inc", op |-> op, x |-> x, pre |-> pre]
Call(f, args) == [k |-> "call", f |-> f, args |-> args]
Method(o, p, args) == [k |-> "method", o |-> o, p |-> p, args |-> args]
Prop(o, p) == [k |-> "prop", o |-> o, p |-> p]
Index(o, i) == [k |-> "index", o |-> o, i |-> i]

\* Trees: statements.  An optional part is a sequence of at most one element.
ExprStmt(e) == [k |-> "expr", e |-> e]
Var(decls) == [k |-> "var", decls |-> decls]     \* of <<name, initialiser>>
Return(es) == [k |-> "return", es |-> es]
If(c, a, b) == [k |-> "if", c |-> c, a |-> a, b |-> b]      \* b of <<>> or <<statements>>
For(i, c, u, body) == [k |-> "for", i |-> i, c |-> c, u |-> u, body |-> body]
While(c, body) == [k |-> "while", c |-> c, body |-> body]
Do(body, c) == [k |-> "do", c |-> c, body |-> body]
Of(x, over, body) == [k |-> "of", x |-> x, over |-> over, body |-> body]    \* over: an array's elements
In(x, over, body) == [k |-> "in", x |-> x, over |-> over, body |-> body]
Block(body) == [k |-> "block", body |-> body]
Label(l, s) == [k |-> "label", l |-> l, s |-> s]
Break(l) == [k |-> "break", l |-> l]             \* l of <<>> or <<label>>
Continue(l) == [k |-> "continue", l |-> l]
Throw(e) == [k |-> "throw", e |-> e]
Try(body, x, handler, final) ==                  \* handler, final of <<>> or <<statements>>
    [k |-> "try", body |-> body, x |-> x, handler |-> handler, final |-> final]
Switch(e, cases) == [k |-> "switch", e |-> e, cases |-> cases]   \* of <<tests, body>>

---------------------------------------------------------------------------
\* Values and the host.  A program runs in a state of its local and global
\* variables, what it did to the host, and the iterations it may still make.
Exception(v) == [exc |-> v]
Failed(v) == Is(v, "exc")
TypeError == Str(<<"TypeError">>)

Got(v, st) == [v |-> v, st |-> st]
\* Goes on unless r threw.
Then(r, next) == IF Failed(r.v) THEN r ELSE next

Lookup(st, x) ==
    IF x \in DOMAIN st.vars THEN st.vars[x]
    ELSE IF x \in DOMAIN st.globals THEN st.globals[x] ELSE Undefined
Store(st, x, v) ==
    IF x \in DOMAIN st.vars THEN [st EXCEPT !.vars[x] = v]
    ELSE [st EXCEPT !.globals = [y \in DOMAIN @ \union {x} |-> IF y = x THEN v ELSE @[y]]]

\* The host object has the method m and the properties n and 0.
Property(o, key) ==
    CASE ~Is(o, "obj") -> Undefined
      [] key = <<"m">> -> HostFunction("m")
      [] key = <<"n">> -> Num(2)
      [] key = <<"0">> -> Num(3)
      [] OTHER -> Undefined

\* A host function answers its last argument; "fail" throws it.
CallValue(f, this, args, st) ==
    IF ~Is(f, "fn") THEN Got(Exception(TypeError), st)
    ELSE LET last == IF args = <<>> THEN Undefined ELSE args[Len(args)]
             called == [st EXCEPT !.log = Append(@, <<f.fn, this, args>>)]
         IN  Got(IF f.fn = "fail" THEN Exception(last) ELSE last, called)
Global == HostObject("global")

Unary(op, v) ==
    CASE op = "-" -> Float("-", Num(0), ToNumber(v))
      [] op = "+" -> ToNumber(v)
      [] op = "!" -> Bool(~Truthy(v))
      [] op = "~" -> Num(-1 - (IF Is(ToNumber(v), "num") THEN Wrapped(ToNumber(v).num) ELSE 0))

StrictlyEqual(a, b) == IF IsNumber(a) /\ IsNumber(b) THEN SameNumber(a, b) ELSE a = b
LooselyEqual(a, b) ==
    LET nothing(v) == Is(v, "null") \/ Is(v, "undef")
        same == DOMAIN a = DOMAIN b /\ ~IsNumber(a)
    IN  CASE nothing(a) \/ nothing(b) -> nothing(a) /\ nothing(b)
          [] same -> a = b
          [] OTHER -> SameNumber(ToNumber(a), ToNumber(b))
\* a < b, and a <= b with orEqual.
NumberLess(m, n, orEqual) == Below(m, n) \/ (orEqual /\ SameNumber(m, n))
Less(a, b, orEqual) ==
    IF Is(a, "str") /\ Is(b, "str") THEN TextBelow(a.str, b.str) \/ (orEqual /\ a = b)
    ELSE NumberLess(ToNumber(a), ToNumber(b), orEqual)

Binary(op, a, b) ==
    CASE op = "+" /\ (Is(a, "str") \/ Is(b, "str")) -> Str(ToText(a) \o ToText(b))
      [] op \in {"+", "-", "*", "/", "%"} -> Float(op, ToNumber(a), ToNumber(b))
      [] op \in {"<", "<="} -> Bool(Less(a, b, op = "<="))
      [] op \in {">", ">="} -> Bool(Less(b, a, op = ">="))
      [] op \in {"===", "!=="} -> Bool(StrictlyEqual(a, b) = (op = "==="))
      [] op \in {"==", "!="} -> Bool(LooselyEqual(a, b) = (op = "=="))

---------------------------------------------------------------------------
RECURSIVE Eval(_, _), EvalAll(_, _)
\* The values of es from the left, in .v as a sequence; an exception is its last.
Threw(r) == r.v # <<>> /\ Failed(r.v[Len(r.v)])
Appended(vs, r) == Got(Append(vs, r.v), r.st)
EvalAll(es, st) ==
    LET rest(r) == IF Threw(r) THEN r ELSE Appended(r.v, Eval(es[Len(es)], r.st))
    IN  IF es = <<>> THEN Got(<<>>, st) ELSE rest(EvalAll(SubSeq(es, 1, Len(es) - 1), st))
Called(f, this, args) ==
    IF Threw(args) THEN Got(args.v[Len(args.v)], args.st) ELSE CallValue(f, this, args.v, args.st)
EvalCall(f, this, args) == Then(f, Called(f.v, this, EvalAll(args, f.st)))

\* The operators of two operands; the right one is only evaluated if it is needed.
EvalBinary(op, l, r) ==
    CASE op = "," -> r
      [] op = "&&" -> IF Truthy(l.v) THEN r ELSE l
      [] op = "||" -> IF Truthy(l.v) THEN l ELSE r
      [] OTHER -> Then(r, Got(Binary(op, l.v, r.v), r.st))
Assigned(st, x, v) == Got(v, Store(st, x, v))
Updated(op, old, v) == IF op = "=" THEN v ELSE Binary(IF op = "+=" THEN "+" ELSE "-", old, v)
Stepped(e, old, st) ==
    LET new == Assigned(st, e.x, Float(IF e.op = "++" THEN "+" ELSE "-", old, Num(1)))
    IN  IF e.pre THEN new ELSE Got(old, new.st)
Eval(e, st) ==
    CASE e.k = "lit" -> Got(e.v, st)
      [] e.k = "name" -> Got(Lookup(st, e.x), st)
      [] e.k = "paren" -> Eval(e.e, st)
      [] e.k = "un" -> LET r == Eval(e.e, st) IN Then(r, Got(Unary(e.op, r.v), r.st))
      [] e.k = "cond" ->
           LET c == Eval(e.c, st) IN Then(c, Eval(IF Truthy(c.v) THEN e.a ELSE e.b, c.st))
      [] e.k = "bin" -> LET l == Eval(e.l, st) IN Then(l, EvalBinary(e.op, l, Eval(e.r, l.st)))
      [] e.k = "set" ->
           LET r == Eval(e.e, st)
           IN  Then(r, Assigned(r.st, e.x, Updated(e.op, Lookup(st, e.x), r.v)))
      [] e.k = "inc" -> Stepped(e, ToNumber(Lookup(st, e.x)), st)
      [] e.k = "prop" -> LET o == Eval(e.o, st) IN Then(o, Got(Property(o.v, <<e.p>>), o.st))
      [] e.k = "index" ->
           LET o == Eval(e.o, st)
               i == Eval(e.i, o.st)
           IN  Then(o, Then(i, Got(Property(o.v, ToText(i.v)), i.st)))
      [] e.k = "call" -> EvalCall(Eval(e.f, st), Global, e.args)
      [] e.k = "method" ->
           LET o == Eval(e.o, st)
           IN  Then(o, EvalCall(Got(Property(o.v, <<e.p>>), o.st), o.v, e.args))

---------------------------------------------------------------------------
\* Completions.  "stuck" is a program that used up its iterations.
Completed(c, l, v, st) == [c |-> c, l |-> l, v |-> v, st |-> st]
Normal(st) == Completed("normal", <<>>, Undefined, st)
\* Goes on unless the expression threw.
AndThen(r, next) == IF Failed(r.v) THEN Completed("throw", <<>>, r.v.exc, r.st) ELSE next
\* A jump with the value r.
CompletedWith(c, r) == AndThen(r, Completed(c, <<>>, r.v, r.st))
\* Takes the break that names l.
Unbroken(r, l) == IF r.c = "break" /\ r.l = l THEN Normal(r.st) ELSE r

RECURSIVE Exec(_, _, _), ExecAll(_, _), Loop(_, _, _), EachLoop(_, _, _, _), Declare(_, _), ExecCases(_, _, _)
Sequel(r, ss) == IF r.c = "normal" THEN ExecAll(ss, r.st) ELSE r
ExecAll(ss, st) == IF ss = <<>> THEN Normal(st) ELSE Sequel(Exec(Head(ss), {}, st), Tail(ss))

Declared(x, r, rest) == AndThen(r, Declare(rest, Store(r.st, x, r.v)))
Declare(decls, st) ==
    CASE decls = <<>> -> Normal(st)
      [] decls # <<>> /\ Head(decls)[2] = <<>> -> Declare(Tail(decls), st)
      [] OTHER -> Declared(Head(decls)[1], Eval(Head(decls)[2][1], st), Tail(decls))

\* One more round of a loop that is at its test (a do loop: at its body), as
\* the test, the body and the update answer.
Mine(r, labels) == r.l = <<>> \/ r.l[1] \in labels
GoesOn(r, labels) == r.c = "normal" \/ (r.c = "continue" /\ Mine(r, labels))
LoopTest(s, st) ==
    CASE s.k = "do" \/ (s.k = "for" /\ s.c = <<>>) -> Got(Bool(TRUE), st)
      [] OTHER -> Eval(IF s.k = "for" THEN s.c[1] ELSE s.c, st)
LoopUpdate(s, st) ==
    CASE s.k = "do" -> Eval(s.c, st)
      [] s.k = "for" /\ s.u # <<>> -> Eval(s.u[1], st)
      [] OTHER -> Got(Undefined, st)
NextRound(s, labels, u) ==
    AndThen(u, IF s.k = "do" /\ ~Truthy(u.v) THEN Normal(u.st) ELSE Loop(s, labels, u.st))
AfterBody(s, labels, r) ==
    CASE r.c = "break" /\ Mine(r, labels) -> Normal(r.st)
      [] GoesOn(r, labels) -> NextRound(s, labels, LoopUpdate(s, r.st))
      [] OTHER -> r
AfterTest(s, labels, c) ==
    AndThen(c, IF Truthy(c.v) THEN AfterBody(s, labels, ExecAll(s.body, [c.st EXCEPT !.fuel = @ - 1]))
               ELSE Normal(c.st))
Loop(s, labels, st) ==
    IF st.fuel = 0 THEN Completed("stuck", <<>>, Undefined, st)
    ELSE AfterTest(s, labels, LoopTest(s, st))

\* What a for-of or for-in loop goes through, and the loop from the i-th on.
Items(s) == IF s.k = "of" THEN s.over ELSE [i \in DOMAIN s.over |-> Str(Decimal(i - 1))]
AfterItem(s, labels, i, r) ==
    CASE r.c = "break" /\ Mine(r, labels) -> Normal(r.st)
      [] GoesOn(r, labels) -> EachLoop(s, labels, i + 1, r.st)
      [] OTHER -> r
EachLoop(s, labels, i, st) ==
    IF i > Len(Items(s)) THEN Normal(st)
    ELSE AfterItem(s, labels, i, ExecAll(s.body, Store(st, s.x, Items(s)[i])))

\* The case that a switch of v enters: the first equal one, else the default.
Entered(s, hits) == IF hits # {} THEN hits ELSE {i \in DOMAIN s.cases : s.cases[i][1] = <<>>}
ExecFrom(s, entry, st) ==
    LET bodies[i \in 1..(Len(s.cases) + 1)] ==
            IF i > Len(s.cases) THEN <<>> ELSE s.cases[i][2] \o bodies[i + 1]
    IN  IF entry = {} THEN Normal(st)
        ELSE ExecAll(bodies[CHOOSE i \in entry : \A j \in entry : i <= j], st)
ExecCases(s, v, st) ==
    ExecFrom(s, Entered(s, {i \in DOMAIN s.cases : s.cases[i][1] # <<>>
                               /\ StrictlyEqual(v, Eval(s.cases[i][1][1], st).v)}), st)

Branched(s, c) ==
    AndThen(c, ExecAll(CASE Truthy(c.v) -> s.a [] ~Truthy(c.v) /\ s.b # <<>> -> s.b[1] [] OTHER -> <<>>, c.st))
Switched(s, v) == AndThen(v, Unbroken(ExecCases(s, v.v, v.st), <<>>))
Caught(s, r) ==
    IF r.c = "throw" /\ s.handler # <<>> THEN ExecAll(s.handler[1], Store(r.st, s.x, r.v)) ELSE r
Overridden(r, final) == IF final.c = "normal" THEN [r EXCEPT !.st = final.st] ELSE final
Finished(s, r) ==
    IF s.final = <<>> \/ r.c = "stuck" THEN r ELSE Overridden(r, ExecAll(s.final[1], r.st))

Exec(s, labels, st) ==
    CASE s.k = "expr" -> LET r == Eval(s.e, st) IN AndThen(r, Normal(r.st))
      [] s.k = "var" -> Declare(s.decls, st)
      [] s.k = "return" ->
           CompletedWith("return", IF s.es = <<>> THEN Got(Undefined, st) ELSE Eval(s.es[1], st))
      [] s.k = "throw" -> CompletedWith("throw", Eval(s.e, st))
      [] s.k \in {"break", "continue"} -> Completed(s.k, s.l, Undefined, st)
      [] s.k = "block" -> ExecAll(s.body, st)
      [] s.k = "if" -> Branched(s, Eval(s.c, st))
      [] s.k \in {"for", "while", "do"} ->
           LET r == IF s.k = "for" THEN ExecAll(s.i, st) ELSE Normal(st)
           IN  IF r.c = "normal" THEN Loop(s, labels, r.st) ELSE r
      [] s.k \in {"of", "in"} -> EachLoop(s, labels, 1, st)
      [] s.k = "label" -> Unbroken(Exec(s.s, labels \union {s.l}, st), <<s.l>>)
      [] s.k = "switch" -> Switched(s, Eval(s.e, st))
      [] s.k = "try" -> Finished(s, Caught(s, ExecAll(s.body, st)))

---------------------------------------------------------------------------
\* A function body run on its arguments.
Start(vars, globals, fuel) == [vars |-> vars, globals |-> globals, log |-> <<>>, fuel |-> fuel]
Outcome(end, value, st) == [end |-> end, value |-> value, globals |-> st.globals, log |-> st.log]
Ended(r) ==
    IF r.c = "throw" THEN Outcome("throw", Undefined, r.st)
    ELSE Outcome(IF r.c = "stuck" THEN "stuck" ELSE "value", r.v, r.st)
Meaning(body, st) == Ended(ExecAll(body, st))
=============================================================================
