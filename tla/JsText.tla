------------------------------- MODULE JsText -------------------------------
(***************************************************************************)
(* The text of a program, as tokens with white space between them.  Keywords *)
(* are words like any other name, as they are to the compiler's scanner.   *)
(***************************************************************************)
EXTENDS JsMeaning

Op(o) == [op |-> o]
Word(x) == [id |-> x]

Binding == <<{","}, {}, {"||"}, {"&&"}, {"===", "!==", "==", "!="}, {"<", ">", "<=", ">="},
             {"+", "-"}, {"*", "/", "%"}>>
Level(op) == CHOOSE i \in DOMAIN Binding : op \in Binding[i]
\* How tightly an expression binds: a comma least, an assignment and a
\* conditional next, a name or a number most.
Precedence(e) ==
    CASE e.k = "bin" -> Level(e.op)
      [] e.k \in {"set", "cond"} -> 2
      [] e.k \in {"un", "inc"} -> 9
      [] OTHER -> 10

Literal(v) ==
    CASE Is(v, "num") -> <<[num |-> v.num]>>
      [] Is(v, "str") -> <<[str |-> v.str]>>
      [] Is(v, "bool") -> <<Word(IF v.bool THEN "true" ELSE "false")>>
      [] Is(v, "null") -> <<Word("null")>>
      [] Is(v, "undef") -> <<Word("undefined")>>

RECURSIVE Text(_, _), ListText(_)
\* e where an expression that binds at least as tightly as min is expected.
Text(e, min) ==
    LET plain ==
          CASE e.k = "lit" -> Literal(e.v)
            [] e.k = "name" -> <<Word(e.x)>>
            [] e.k = "paren" -> <<Op("(")>> \o Text(e.e, 1) \o <<Op(")")>>
            [] e.k = "un" -> <<Op(e.op)>> \o Text(e.e, 9)
            [] e.k = "bin" -> Text(e.l, Level(e.op)) \o <<Op(e.op)>> \o Text(e.r, Level(e.op) + 1)
            [] e.k = "cond" -> Text(e.c, 3) \o <<Op("?")>> \o Text(e.a, 2) \o <<Op(":")>> \o Text(e.b, 2)
            [] e.k = "set" -> <<Word(e.x), Op(e.op)>> \o Text(e.e, 2)
            [] e.k = "inc" -> IF e.pre THEN <<Op(e.op), Word(e.x)>> ELSE <<Word(e.x), Op(e.op)>>
            [] e.k = "prop" -> Text(e.o, 10) \o <<Op("."), Word(e.p)>>
            [] e.k = "index" -> Text(e.o, 10) \o <<Op("[")>> \o Text(e.i, 1) \o <<Op("]")>>
            [] e.k = "call" -> Text(e.f, 10) \o <<Op("(")>> \o ListText(e.args) \o <<Op(")")>>
            [] e.k = "method" -> Text(e.o, 10) \o <<Op("."), Word(e.p), Op("(")>>
                                 \o ListText(e.args) \o <<Op(")")>>
    IN  IF Precedence(e) < min THEN <<Op("(")>> \o plain \o <<Op(")")>> ELSE plain
ListText(es) ==
    IF es = <<>> THEN <<>>
    ELSE Text(Head(es), 2) \o (IF Len(es) > 1 THEN <<Op(",")>> ELSE <<>>) \o ListText(Tail(es))

DeclText(d) == IF d[2] = <<>> THEN <<Word(d[1])>> ELSE <<Word(d[1]), Op("=")>> \o Text(d[2][1], 2)
Optional(es) == IF es = <<>> THEN <<>> ELSE Text(es[1], 1)

RECURSIVE StmtText(_), Braced(_), DeclsText(_)
DeclsText(ds) ==
    DeclText(Head(ds)) \o (IF Len(ds) > 1 THEN <<Op(",")>> \o DeclsText(Tail(ds)) ELSE <<>>)
\* The statements between braces; each but a compound one ends in a semicolon.
Braced(ss) ==
    LET body[i \in 0..Len(ss)] ==
          IF i = 0 THEN <<>>
          ELSE body[i - 1] \o StmtText(ss[i])
               \o (IF ss[i].k \in {"if", "for", "while", "block"} THEN <<>> ELSE <<Op(";")>>)
    IN  <<Op("{")>> \o body[Len(ss)] \o <<Op("}")>>
StmtText(s) ==
    CASE s.k = "expr" -> Text(s.e, 1)
      [] s.k = "var" -> <<Word("var")>> \o DeclsText(s.decls)
      [] s.k = "return" -> <<Word("return")>> \o Optional(s.es)
      [] s.k \in {"break", "continue"} -> <<Word(s.k)>>
      [] s.k = "if" ->
           <<Word("if"), Op("(")>> \o Text(s.c, 1) \o <<Op(")")>> \o Braced(s.a)
           \o (CASE s.b = <<>> -> <<>>
                 [] OTHER -> <<Word("else")>>
                             \o (IF Len(s.b[1]) = 1 /\ s.b[1][1].k = "if" THEN StmtText(s.b[1][1])
                                 ELSE Braced(s.b[1])))
      [] s.k = "for" ->
           <<Word("for"), Op("(")>> \o (IF s.i = <<>> THEN <<>> ELSE StmtText(s.i[1])) \o <<Op(";")>>
           \o Optional(s.c) \o <<Op(";")>> \o Optional(s.u) \o <<Op(")")>> \o Braced(s.body)
      [] s.k = "while" -> <<Word("while"), Op("(")>> \o Text(s.c, 1) \o <<Op(")")>> \o Braced(s.body)
      [] s.k = "block" -> Braced(s.body)
=============================================================================
