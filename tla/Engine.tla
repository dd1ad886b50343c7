------------------------------- MODULE Engine -------------------------------
(***************************************************************************)
(* A function of the program's top level as call_closure_with_this runs    *)
(* it: the compiler is tried on the statements of its body, and what it    *)
(* compiles runs on the VM.  A program p is the function's parameters,     *)
(* the arguments of a call and the body.                                   *)
(***************************************************************************)
EXTENDS Vm

CONSTANTS MaxRounds,      \* bound: the iterations a program may make
          MaxSteps        \* bound: the instructions the VM may run

Globals == [x \in {"g", "f", "fail", "o"} |->
               IF x = "g" THEN Num(2) ELSE IF x = "o" THEN HostObject("o") ELSE HostFunction(x)]

RECURSIVE VarNames(_)
\* The variables a list of statements declares.
VarNames(ss) ==
    UNION {CASE ss[i].k = "var" -> {ss[i].decls[d][1] : d \in DOMAIN ss[i].decls}
             [] ss[i].k = "for" -> VarNames(ss[i].i) \union VarNames(ss[i].body)
             [] ss[i].k = "if" -> VarNames(ss[i].a)
                                  \union IF ss[i].b = <<>> THEN {} ELSE VarNames(ss[i].b[1])
             [] ss[i].k \in {"while", "do", "block"} -> VarNames(ss[i].body)
             [] OTHER -> {} : i \in DOMAIN ss}

Argument(p, x) ==
    LET slots == {i \in DOMAIN p.params : p.params[i] = x /\ i \in DOMAIN p.args}
    IN  IF slots = {} THEN Undefined ELSE p.args[CHOOSE i \in slots : TRUE]
Reference(p) ==
    Meaning(p.body, Start([x \in VarNames(p.body) \union ToSet(p.params) |-> Argument(p, x)],
                          Globals, MaxRounds))

\* The bytecode fast path of a call.
Compiled(p) == CompileStmts(p.params, [i \in DOMAIN p.body |-> StmtText(p.body[i])])
Ran(c, p) == RunModule(c, p.args, Start([x \in {} |-> Undefined], Globals, MaxRounds), MaxSteps)
RunOutcome(m) ==
    IF m.end = "value" /\ ~Failed(m.value) THEN Outcome("value", m.value, m.st)
    ELSE Outcome(IF m.end = "value" THEN "throw" ELSE m.end, Undefined, m.st)

\* A variable that is used before its declaration is taken for a global.
DeclaredFirst(c, p) ==
    \A i \in DOMAIN c.code : c.code[i].op \in {"LoadGlobal", "StoreGlobal"} =>
        GlobalName(c.consts[c.code[i].a]) \notin VarNames(p.body)
\* The code leaves one value on the stack, and the program has its meaning.
DoesAs(m, r) == r.end # "stuck" => /\ RunOutcome(m) = r
                                   /\ m.end = "value" => Len(m.stack) = 1
CodeRight(c, p) == c.ok /\ DeclaredFirst(c, p) => DoesAs(Ran(c, p), Reference(p))
RunsRight(p) == CodeRight(Compiled(p), p)

---------------------------------------------------------------------------
\* The programs on which the compiler keeps to the language.
RECURSIVE Pure(_), Plain(_), PlainStmt(_)
Pure(e) ==
    CASE e.k \in {"lit", "name"} -> TRUE
      [] e.k \in {"paren", "un"} -> Pure(e.e)
      [] e.k = "bin" -> Pure(e.l) /\ Pure(e.r)
      [] e.k = "cond" -> Pure(e.c) /\ Pure(e.a) /\ Pure(e.b)
      [] e.k = "prop" -> Pure(e.o)
      [] e.k = "index" -> Pure(e.o) /\ Pure(e.i)
      [] OTHER -> FALSE
\* An index is an integer or a string, not a boolean, undefined or null nor an
\* operation that may give one or a fraction: the VM casts those to u32.
RECURSIVE Indexes(_)
Indexes(e) ==
    CASE e.k = "lit" -> IsInt(e.v) \/ Is(e.v, "str")
      [] e.k \in {"paren", "set"} -> Indexes(e.e)
      [] e.k = "un" -> e.op # "!" /\ Indexes(e.e)
      [] e.k = "bin" -> /\ Indexes(e.r)
                        /\ e.op = "," \/ (e.op \in {"&&", "||", "+", "-", "*"} /\ Indexes(e.l))
      [] e.k = "cond" -> Indexes(e.a) /\ Indexes(e.b)
      [] OTHER -> TRUE
\* An operand of && and || that is not needed must do nothing; equality and
\* order are one level; an assignment takes no more than a sum; prefix ++ and --
\* and a unary plus are lost; ~ saturates where it should wrap; null equals 0; an exception of a call is a value.
Plain(e) ==
    CASE e.k \in {"lit", "name"} -> TRUE
      [] e.k = "paren" -> Plain(e.e)
      [] e.k = "un" -> e.op # "+" /\ Plain(e.e) /\ (e.op = "~" => e.e.k = "name")
      [] e.k = "bin" ->
           /\ Plain(e.l) /\ Plain(e.r)
           /\ e.op \in {"&&", "||"} => Pure(e.r)
           /\ e.op \in {"===", "!==", "==", "!="} => Precedence(e.r) # Level("<")
           /\ e.op \in {"==", "!="} => Lit(Null) \notin {e.l, e.r}
      [] e.k = "cond" -> Plain(e.c) /\ Plain(e.a) /\ Plain(e.b)
      [] e.k = "set" -> Plain(e.e) /\ (e.e.k = "set" \/ Precedence(e.e) >= Level("+"))
      [] e.k = "inc" -> ~e.pre
      [] e.k = "prop" -> Plain(e.o)
      [] e.k = "index" -> Plain(e.o) /\ Plain(e.i) /\ Indexes(e.i)
      [] e.k = "call" -> e.f # Name("fail") /\ Plain(e.f) /\ \A i \in DOMAIN e.args : Plain(e.args[i])
      [] e.k = "method" -> Plain(e.o) /\ \A i \in DOMAIN e.args : Plain(e.args[i])
\* A declaration is of one variable; break and continue are lost; the variable
\* that a loop counts is its own.
PlainStmt(s) ==
    LET all(ss) == \A i \in DOMAIN ss : PlainStmt(ss[i])
        each(es) == \A i \in DOMAIN es : Plain(es[i])
    IN  CASE s.k = "expr" -> Plain(s.e)
          [] s.k = "var" -> Len(s.decls) = 1 /\ each(s.decls[1][2])
          [] s.k = "return" -> each(s.es)
          [] s.k = "if" -> Plain(s.c) /\ all(s.a) /\ (s.b # <<>> => all(s.b[1]))
          [] s.k = "for" -> /\ all(s.i) /\ each(s.c) /\ all(s.body)
                            /\ IF s.u # <<>> /\ s.u[1].k = "inc" THEN s.u[1].x \in VarNames(s.i)
                               ELSE each(s.u)
          [] OTHER -> FALSE
PlainProgram(p) == \A i \in DOMAIN p.body : PlainStmt(p.body[i])
=============================================================================
