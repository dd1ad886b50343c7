------------------------------ MODULE Compiler ------------------------------
(***************************************************************************)
(* compiler.rs: from the statements of a function body or script, as       *)
(* tokens, to bytecode.  The compiler's state s is the function it builds  *)
(* (its locals, constants and code, in which a jump's a is the position of *)
(* its target) and the scan of one piece of text; s.ok = FALSE is a        *)
(* CompileError, after which no token is seen and so nothing is parsed.    *)
(***************************************************************************)
EXTENDS JsText, SequencesExt

Compiling == [locals |-> <<>>, consts |-> <<>>, code |-> <<>>, in |-> <<>>, at |-> 1,
              argc |-> 0, ok |-> TRUE]
Fail(s) == [s EXCEPT !.ok = FALSE]

---------------------------------------------------------------------------
\* The scanner.
Peek(s) == IF s.ok /\ s.at \in DOMAIN s.in THEN s.in[s.at] ELSE [end |-> TRUE]
AtOp(s, ops) == Is(Peek(s), "op") /\ Peek(s).op \in ops
AtWord(s) == Is(Peek(s), "id")
Skip(s) == [s EXCEPT !.at = @ + 1]
Expect(s, op) == IF AtOp(s, {op}) THEN Skip(s) ELSE Fail(s)

---------------------------------------------------------------------------
\* The function under construction.
FindLocal(s, x) == {i \in DOMAIN s.locals : s.locals[i] = x}
SlotOf(s, x) == CHOOSE i \in FindLocal(s, x) : TRUE
EnsureLocal(s, x) == IF FindLocal(s, x) # {} THEN s ELSE [s EXCEPT !.locals = Append(@, x)]

Ins(op, a, b) == [op |-> op, a |-> a, b |-> b]
EmitInst(s, op, a) == [s EXCEPT !.code = Append(@, Ins(op, a, 0))]
Emit(s, op) == EmitInst(s, op, 0)

\* A constant is put in the pool once; true, false, null and a float each time.
Shared(v) == IsInt(v) \/ Is(v, "str") \/ Is(v, "undef")
InPool(s, v) == Shared(v) /\ \E i \in DOMAIN s.consts : s.consts[i] = v
AddConst(s, v) == IF InPool(s, v) THEN s ELSE [s EXCEPT !.consts = Append(@, v)]
ConstIndex(s, v) == IF InPool(s, v) THEN CHOOSE i \in DOMAIN s.consts : s.consts[i] = v
                    ELSE Len(s.consts) + 1
EmitConstOp(s, op, v) == EmitInst(AddConst(s, v), op, ConstIndex(s, v))
EmitConst(s, v) == EmitConstOp(s, "Const", v)
NameConst(x) == Str(<<x>>)

EmitJump(s, op) == EmitInst(s, op, 0)
PatchJumpShort(s, at) == [s EXCEPT !.code[at].a = Len(s.code)]
PatchJump(s, at) == [s EXCEPT !.code[at].a = Len(s.code) + 1]

---------------------------------------------------------------------------
\* Expressions, by recursive descent.
RECURSIVE ParseComma(_), CommaRest(_), ParseConditional(_), ParseChain(_, _), ChainRest(_, _),
          ParseAssignment(_), ParseFactor(_), ParsePostfix(_), PostfixRest(_), ParsePrimary(_), ParseArgs(_, _)

OpCode == [o \in {"||", "&&", "===", "!==", "==", "!=", "<=", ">=", "<", ">", "+", "-", "*", "/", "%"} |->
    CASE o = "||" -> "Or" [] o = "&&" -> "And" [] o = "===" -> "StrictEq" [] o = "!==" -> "StrictNeq"
      [] o = "==" -> "Eq" [] o = "!=" -> "Neq" [] o = "<=" -> "Le" [] o = ">=" -> "Ge" [] o = "<" -> "Lt"
      [] o = ">" -> "Gt" [] o = "+" -> "Add" [] o = "-" -> "Sub" [] o = "*" -> "Mul" [] o = "/" -> "Div"
      [] o = "%" -> "Mod"]
Chain == [or |-> {"||"}, and |-> {"&&"}, cmp |-> {"===", "!==", "==", "!=", "<=", ">=", "<", ">"},
          sum |-> {"+", "-"}, product |-> {"*", "/", "%"}]
\* parse_logical_or, parse_logical_and, parse_comparison (one level for equality
\* and order, with assignments for operands), the sum of parse_expr, parse_term: a
\* chain of operators of one level, associated to the left.
Operand(level, s) ==
    CASE level = "or" -> ParseChain("and", s)
      [] level = "and" -> ParseChain("cmp", s)
      [] level = "cmp" -> ParseAssignment(s)
      [] level = "sum" -> ParseChain("product", s)
      [] level = "product" -> ParseFactor(s)
ChainRest(level, s) ==
    IF AtOp(s, Chain[level])
    THEN ChainRest(level, Emit(Operand(level, Skip(s)), OpCode[Peek(s).op])) ELSE s
ParseChain(level, s) == ChainRest(level, Operand(level, s))
NoIncrement(s) == IF AtOp(s, {"++", "--"}) THEN Fail(s) ELSE s
ParseExpr(s) == NoIncrement(ParseChain("sum", s))

CommaRest(s) == IF AtOp(s, {","}) THEN CommaRest(ParseConditional(Emit(Skip(s), "Drop"))) ELSE s
ParseComma(s) == CommaRest(ParseConditional(s))

\* A test has been parsed; its first branch has, and jumpIfFalse is to be patched.
ElseBranch(then, jumpIfFalse) ==
    PatchJump(ParseConditional(Expect(PatchJump(EmitJump(then, "Jump"), jumpIfFalse), ":")),
              Len(then.code) + 1)
Branches(test) ==
    IF AtOp(test, {"?"})
    THEN ElseBranch(ParseConditional(EmitJump(Skip(test), "JumpIfFalse")), Len(test.code) + 1) ELSE test
ParseConditional(s) == Branches(ParseChain("or", s))

\* The value stays on the stack; StoreLocal leaves it there too.
StoreTo(s, x) ==
    IF FindLocal(s, x) = {} THEN EmitConstOp(s, "StoreGlobal", NameConst(x))
    ELSE Emit(EmitInst(Emit(s, "Dup"), "StoreLocal", SlotOf(s, x)), "Drop")
LoadFrom(s, x) ==
    IF FindLocal(s, x) = {} THEN EmitConstOp(s, "LoadGlobal", NameConst(x))
    ELSE EmitInst(s, "LoadLocal", SlotOf(s, x))
ParseAssignment(s) ==
    LET x == Peek(s).id
        after == Skip(s)
    IN  CASE ~AtWord(s) -> ParseExpr(s)
          [] AtOp(after, {"+="}) ->
               StoreTo(Emit(ParseExpr(LoadFrom(Skip(after), x)), "Add"), x)
          [] AtOp(after, {"-="}) ->
               IF FindLocal(s, x) = {} THEN Fail(s)
               ELSE StoreTo(Emit(ParseExpr(LoadFrom(Skip(after), x)), "Sub"), x)
          [] AtOp(after, {"="}) -> StoreTo(ParseAssignment(Skip(after)), x)
          [] OTHER -> ParseExpr(s)

\* A unary plus is dropped; ++ and -- are two signs.
ParseFactor(s) ==
    CASE AtOp(s, {"+", "++"}) -> ParseFactor(Skip(s))
      [] AtOp(s, {"-"}) -> Emit(ParseFactor(Skip(s)), "Neg")
      [] AtOp(s, {"--"}) -> Emit(Emit(ParseFactor(Skip(s)), "Neg"), "Neg")
      [] AtOp(s, {"!"}) -> Emit(ParseFactor(Skip(s)), "Not")
      [] AtOp(s, {"~"}) -> Emit(ParseFactor(Skip(s)), "BitNot")
      [] OTHER -> ParsePostfix(s)

\* The arguments after a parenthesis, of which n are parsed; .argc counts them.
ArgsRest(s, n) ==
    IF AtOp(s, {","}) THEN ParseArgs(Skip(s), n) ELSE [Expect(s, ")") EXCEPT !.argc = n]
ParseArgs(s, n) ==
    IF n = 0 /\ AtOp(s, {")"}) THEN [Skip(s) EXCEPT !.argc = 0]
    ELSE ArgsRest(ParseConditional(s), n + 1)
EmitCall(s, op) == EmitInst(s, op, s.argc)

GetNamed(s, p) == Emit(EmitConst(s, NameConst(p)), "GetProp")
PostfixRest(s) ==
    CASE AtOp(s, {"."}) ->
           LET name == Skip(s)
               p == Peek(name).id
           IN  CASE ~AtWord(name) -> Fail(s)
                 [] AtOp(Skip(name), {"("}) ->
                      PostfixRest(EmitCall(ParseArgs(GetNamed(Emit(Skip(Skip(name)), "Dup"), p), 0),
                                           "CallMethod"))
                 [] OTHER -> PostfixRest(GetNamed(Skip(name), p))
      [] AtOp(s, {"["}) -> PostfixRest(Emit(Expect(ParseComma(Skip(s)), "]"), "GetElem"))
      [] AtOp(s, {"("}) -> PostfixRest(EmitCall(ParseArgs(Skip(s), 0), "Call"))
      [] OTHER -> s
ParsePostfix(s) == PostfixRest(ParsePrimary(s))

Constants == [true |-> Bool(TRUE), false |-> Bool(FALSE), null |-> Null, undefined |-> Undefined]
ParsePrimary(s) ==
    LET t == Peek(s) IN
    CASE AtOp(s, {"("}) -> Expect(ParseComma(Skip(s)), ")")
      [] Is(t, "str") -> EmitConst(Skip(s), Str(t.str))
      [] Is(t, "num") -> EmitConst(Skip(s), Num(t.num))
      [] AtWord(s) /\ t.id \in DOMAIN Constants -> EmitConst(Skip(s), Constants[t.id])
      [] AtWord(s) /\ t.id = "Number" /\ AtOp(Skip(s), {"("}) ->
           Emit(Expect(ParseComma(Skip(Skip(s))), ")"), "ToNumber")
      [] AtWord(s) -> LoadFrom(Skip(s), t.id)
      [] OTHER -> Fail(s)

\* The whole of text is one expression.
WholeText(s) == IF s.at > Len(s.in) THEN s ELSE Fail(s)
CompileFullExpr(s, text) == WholeText(ParseComma([s EXCEPT !.in = text, !.at = 1]))

---------------------------------------------------------------------------
\* Cutting a statement's text into its parts.
Depth(text, open, close, i) ==
    Cardinality({j \in 1..i : text[j] = open}) - Cardinality({j \in 1..i : text[j] = close})
First(S) == IF S = {} THEN 0 ELSE CHOOSE i \in S : \A j \in S : i <= j
\* The parenthesis that closes one opened before text; 0 is none.
FindMatchingParen(text) ==
    First({i \in DOMAIN text : text[i] = Op(")") /\ Depth(text, Op("("), Op(")"), i) = -1})
\* The brace that closes the first one.
ClosingBrace(text) ==
    First({i \in DOMAIN text : text[i] = Op("}") /\ Depth(text, Op("{"), Op("}"), i) = 0})
HasBody(text) == text # <<>> /\ text[1] = Op("{") /\ ClosingBrace(text) # 0
ExtractBracedBody(text) == SubSeq(text, 2, ClosingBrace(text) - 1)
From(text, i) == SubSeq(text, i, Len(text))
\* The text after the else that follows the first braces; <<>> when there is none.
ElseAfterBrace(text) ==
    LET i == ClosingBrace(text) + 1
    IN  IF i \in DOMAIN text /\ text[i] = Word("else") THEN From(text, i + 1) ELSE <<>>

\* A semicolon outside all brackets ends a statement, and so does a brace that
\* closes the last open bracket.
Outside(text, i) ==
    /\ Depth(text, Op("("), Op(")"), i) = 0
    /\ Depth(text, Op("{"), Op("}"), i) = 0
    /\ Depth(text, Op("["), Op("]"), i) = 0
SimpleSplitStatements(text) ==
    LET ends == {i \in DOMAIN text : text[i] \in {Op(";"), Op("}")} /\ Outside(text, i)}
                \union {Len(text) + 1}
        begin(i) == 1 + IF \E j \in ends : j < i
                        THEN CHOOSE j \in ends : j < i /\ \A l \in ends : l < i => l <= j ELSE 0
        piece(i) == SubSeq(text, begin(i),
                           IF i \in DOMAIN text /\ text[i] = Op("}") THEN i ELSE i - 1)
    IN  SelectSeq([n \in 1..Cardinality(ends) |-> piece(SetToSortSeq(ends, LAMBDA a, b : a < b)[n])],
                  LAMBDA p : p # <<>>)
\* The parts of a for header.
SplitForHeader(text) ==
    LET cuts == SetToSortSeq({i \in DOMAIN text : text[i] = Op(";")
                                 /\ Depth(text, Op("("), Op(")"), i) = 0}, LAMBDA a, b : a < b)
    IN  IF Len(cuts) # 2 THEN <<>>
        ELSE <<SubSeq(text, 1, cuts[1] - 1), SubSeq(text, cuts[1] + 1, cuts[2] - 1),
               From(text, cuts[2] + 1)>>

---------------------------------------------------------------------------
\* Statements.
RECURSIVE CompileStmt(_, _), CompileIf(_, _), CompileAll(_, _)

StoreInit(s, x) == Emit(EmitInst(s, "StoreLocal", SlotOf(s, x)), "Drop")
CompileVarDecl(s, text) ==
    LET named == text # <<>> /\ Is(text[1], "id")
    IN  CASE named /\ Len(text) = 1 -> EnsureLocal(s, text[1].id)
          [] named /\ Len(text) > 1 /\ text[2] = Op("=") ->
               StoreInit(CompileFullExpr(EnsureLocal(s, text[1].id), From(text, 3)), text[1].id)
          [] OTHER -> Fail(s)

CompileExprStmt(s, text) == Emit(CompileFullExpr(s, text), "Drop")

\* The amount of an update that IncLocal can make: i++, --i, i += 2 on a local.
IncAmount(s, u) ==
    LET local(i) == i \in DOMAIN u /\ Is(u[i], "id") /\ FindLocal(s, u[i].id) # {}
        op(i) == IF i \in DOMAIN u /\ Is(u[i], "op") THEN u[i].op ELSE ""
        step(o) == IF o = "++" THEN 1 ELSE -1
    IN  CASE Len(u) = 2 /\ local(1) /\ op(2) \in {"++", "--"} -> <<u[1].id, step(op(2))>>
          [] Len(u) = 2 /\ op(1) \in {"++", "--"} /\ local(2) -> <<u[2].id, step(op(1))>>
          [] Len(u) = 3 /\ local(1) /\ op(2) = "+=" /\ Is(u[3], "num") -> <<u[1].id, u[3].num>>
          [] Len(u) = 3 /\ local(1) /\ op(2) = "-=" /\ Is(u[3], "num") -> <<u[1].id, -u[3].num>>
          [] OTHER -> <<>>
CompileUpdate(s, u) ==
    LET inc == IncAmount(s, u) IN
    CASE u = <<>> -> s
      [] inc # <<>> -> [s EXCEPT !.code = Append(@, Ins("IncLocal", SlotOf(s, inc[1]), inc[2]))]
      [] OTHER -> CompileExprStmt(s, u)

CompileAll(s, stmts) ==
    IF stmts = <<>> THEN s ELSE CompileAll(CompileStmt(s, Head(stmts)), Tail(stmts))
CompileBody(s, text) ==
    IF HasBody(text) THEN CompileAll(s, SimpleSplitStatements(ExtractBracedBody(text))) ELSE Fail(s)

\* A loop whose init, and then whose test, is compiled; text is its body.
CompileInit(s, text) ==
    CASE text = <<>> -> s
      [] text # <<>> /\ text[1] = Word("var") -> CompileVarDecl(s, Tail(text))
      [] OTHER -> CompileExprStmt(s, text)
Looped(s, parts, text, loopStart) == EmitInst(CompileUpdate(CompileBody(s, text), parts[3]), "Jump", loopStart)
LoopedTest(s, parts, text, loopStart) == PatchJump(Looped(s, parts, text, loopStart), Len(s.code))
CompileLoop(s, parts, text) ==
    IF parts[2] = <<>> THEN Looped(s, parts, text, Len(s.code) + 1)
    ELSE LoopedTest(EmitJump(CompileFullExpr(s, parts[2]), "JumpIfFalse"), parts, text, Len(s.code) + 1)
\* text follows the opening parenthesis.
CompileForLoop(s, text) ==
    LET close == FindMatchingParen(text)
        parts == SplitForHeader(SubSeq(text, 1, close - 1))
    IN  IF close = 0 \/ parts = <<>> THEN Fail(s)
        ELSE CompileLoop(CompileInit(s, parts[1]), parts, From(text, close + 1))

\* A branch whose test, and then whose first body, is compiled.
CompileElse(s, text) ==
    IF Len(text) > 1 /\ text[1] = Word("if") /\ text[2] = Op("(") THEN CompileIf(s, From(text, 3))
    ELSE CompileBody(s, text)
Joined(then, else, jumpElse) ==
    IF else = <<>> THEN PatchJump(then, jumpElse)
    ELSE PatchJump(CompileElse(PatchJump(EmitJump(then, "Jump"), jumpElse), else), Len(then.code) + 1)
CompileThen(s, text) == Joined(CompileBody(s, text), ElseAfterBrace(text), Len(s.code))
CompileIf(s, text) ==
    LET close == FindMatchingParen(text) IN
    IF close = 0 THEN Fail(s)
    ELSE CompileThen(EmitJump(CompileFullExpr(s, SubSeq(text, 1, close - 1)), "JumpIfFalse"),
                     From(text, close + 1))

Starts(text, word) == text # <<>> /\ text[1] = Word(word)
CompileStmt(s, text) ==
    CASE text = <<>> \/ ~s.ok -> s
      [] Starts(text, "var") -> CompileVarDecl(s, Tail(text))
      [] Starts(text, "return") ->
           Emit(IF Len(text) = 1 THEN EmitConst(s, Undefined) ELSE CompileFullExpr(s, Tail(text)), "Return")
      [] Starts(text, "for") /\ Len(text) > 1 /\ text[2] = Op("(") -> CompileForLoop(s, From(text, 3))
      [] Starts(text, "if") /\ Len(text) > 1 /\ text[2] = Op("(") -> CompileIf(s, From(text, 3))
      [] OTHER -> CompileExprStmt(s, text)

\* The parameters take the first slots.
RECURSIVE WithParams(_, _)
WithParams(s, params) == IF params = <<>> THEN s ELSE WithParams(EnsureLocal(s, Head(params)), Tail(params))
CompileStmts(params, stmts) ==
    Emit(EmitConst(CompileAll(WithParams(Compiling, params), stmts), Undefined), "Return")
=============================================================================
