---------------------------- MODULE MCAlgorithms ----------------------------
(* The bounded inputs.                                                       *)
EXTENDS Algorithms

MCNone == <<>>

Strings(alphabet, n) == UNION {[1..m -> alphabet] : m \in 0..n}

\* a, b and every byte that means something to the matcher.
MCPatterns ==
    LET bytes == {97, 98, G!Star, G!Question, G!Open, G!Close, G!Dash, G!Caret, G!Backslash}
        class == {<<G!Open>> \o s \o <<G!Close>> : s \in [1..3 -> bytes]}
    IN  {p \in UNION {Strings(bytes, 4), class, {c \o <<G!Star, 98>> : c \in class}} :
            ~G!QuotesInClass(p)}
MCTexts == Strings({97, 98, G!Open}, 3)

Leaves == {R!Simple(s) : s \in Strings({97, R!CR}, 2)}
          \union {R!Blob(s) : s \in Strings({97, R!CR, R!LF}, 2)}
          \union {R!Integer(n) : n \in {-MaxI - 1, -MaxI, -1, 0, 9, 10, MaxI}}
          \union {R!Null, R!Err(<<97>>)}
MCPipelined == {R!Simple(<<97>>), R!Blob(R!Crlf), R!Integer(-12), R!Null}
Flat == {R!Array(s) : s \in Strings(MCPipelined, 2)}
MCRespValues == Leaves \union {R!Array(s) : s \in Strings(MCPipelined \union Flat, 2)}

\* Long enough for a two-digit length, of an argument and of the command.
MCCommands ==
    LET args == {R!Blob(s) : s \in Strings({97, R!LF}, 1)} \union {R!Blob([i \in 1..11 |-> 97])}
    IN  {R!Array(s) : s \in Strings(args, 2) \ {<<>>}} \union {R!Array([i \in 1..11 |-> R!Blob(<<97>>)])}

JLeaves == {J!Str(s) : s \in Strings({97, 8, J!Quote, J!Slash, J!Newline}, 2)}
           \union {J!Num(n) : n \in {-12, 0, 7, 10}}
           \union {J!Const("true"), J!Const("null"), J!Const("infinite"), J!Fractional(<<48, J!Dot, 53>>)}
JFew == {J!Str(<<J!Quote>>), J!Str(<<8>>), J!Num(-12), J!Const("infinite"), J!Const("undefined"), J!Const("false")}
JFlat == {J!Arr(s) : s \in Strings(JFew, 2)}
         \union {J!Obj(<<>>)} \union {J!Obj(<<<<<<97>>, v>>>>) : v \in JFew}
\* Keys of every byte that is written raw, and of a letter that a backslash escapes.
JKeyed == {J!Obj(<<<<k, v>>>>) : k \in Strings({97, 110, 8, J!Quote, J!Slash}, 2), v \in JFew}
MCJsonValues ==
    JLeaves \union {J!Arr(s) : s \in Strings(JFew \union JFlat, 2)}
    \union {J!Obj(<<<<<<97>>, v>>, <<<<98>>, w>>>>) : v, w \in JFew \union JFlat}
    \union JKeyed \union {J!Arr(<<v, J!Num(7)>>) : v \in JKeyed}
    \union {J!Obj(<<<<<<110>>, J!Num(7)>>, o.props[1]>>) : o \in {x \in JKeyed : x.props[1][1] # <<110>>}}
MCNumerals == Strings({J!Hyphen, 48, 49, J!Dot, 101, J!Plus}, 5) \ {<<>>}

\* Expressions over the parameter a, the local b and the global g, nested once
\* with every operator over every kind of operand, as arguments of f.
a == E!Name("a")
b == E!Name("b")
g == E!Name("g")
N(n) == E!Lit(E!Num(n))
f(args) == E!Call(E!Name("f"), args)
Words == {E!Lit(v) : v \in {E!Num(1), E!Num(MaxInt), E!Str(<<"a">>), E!Undefined, E!Null, E!Bool(TRUE)}}
Operators == {",", "||", "&&", "===", "!==", "==", "!=", "<", ">", "<=", ">=", "+", "-", "*", "/", "%"}
Small == {E!Bin(op, a, N(2)) : op \in {",", "||", "&&", "==", "<", "-", "*"}}
         \union {E!Un("-", a), E!Un("!", a), E!Cond(a, b, N(2)), E!Assign("=", "a", b), E!Assign("+=", "b", N(2)),
                 E!Assign("=", "g", N(1)), E!Inc("++", "a", TRUE), E!Inc("--", "a", FALSE), f(<<a>>),
                 E!Method(E!Name("o"), "m", <<N(1)>>), E!Call(E!Name("fail"), <<a>>), E!Call(b, <<>>),
                 E!Index(E!Name("o"), N(0)), E!Paren(E!Bin("<", a, N(2)))}
Flat1 == {E!Bin(op, l, r) : op \in Operators, l, r \in {a, b, g} \union Words}
Nested ==
    <<{E!Bin(op, l, r) : op \in Operators \ {"!==", "!=", ">", ">="}, l, r \in Small \union {g}},
      {E!Cond(c, x, y) : c, x, y \in {g, E!Bin("<", a, N(2)), E!Assign("=", "a", b), E!Cond(a, b, N(2)), f(<<a>>)}},
      {E!Assign(op, x, e) : op \in {"=", "+=", "-="}, x \in {"a", "g"}, e \in Small},
      {E!Un(op, e) : op \in {"-", "+", "!", "~"}, e \in Small \union {a, N(MaxInt)}},
      {f(<<x, y>>) : x, y \in Small},
      {E!Index(E!Name("o"), x) : x \in Small \union Words \union {E!Lit(E!Str(<<"n">>))}}, {E!Method(E!Name("o"), "m", <<x>>) : x \in Small},
      {E!Prop(E!Name("o"), "n"), E!Method(E!Name("o"), "n", <<>>)}>>
Of1(e, n) == [params |-> <<"a">>, args |-> <<E!Num(n)>>,
              body |-> <<E!Var(<<<<"b", <<N(3)>>>>>>), E!Return(<<f(<<e, a, b>>)>>)>>]

\* Statements: branches with and without else, counting loops, returns in both.
Do(e) == E!ExprStmt(e)
Simple == {<<Do(E!Assign("+=", "a", N(2)))>>, <<Do(f(<<b>>)), Do(E!Assign("=", "g", a))>>,
           <<E!Return(<<a>>)>>, <<E!Break(<<>>)>>, <<>>}
Less == E!Bin("<", a, N(2))
Ifs == {E!If(Less, x, y) : x \in Simple, y \in {<<>>} \union {<<z>> : z \in Simple}}
       \union {E!If(Less, x, <<<<E!If(E!Bin("===", a, N(2)), y, z)>>>>) :
                  x, y \in Simple, z \in {<<>>, <<<<E!Return(<<>>)>>>>}}
I == E!Name("i")
Loop(init, test, update, body) == E!For(init, test, update, body)
Counting(body) ==
    {Loop(<<i>>, <<E!Bin("<", I, N(3))>>, <<u>>, body) :
        i \in {E!Var(<<<<"i", <<N(0)>>>>>>), Do(E!Assign("=", "i", N(0)))},
        u \in {E!Inc("++", "i", FALSE), E!Inc("++", "i", TRUE), E!Assign("+=", "i", N(2)),
               E!Assign("=", "i", E!Bin("+", I, N(1)))}}
    \union {Loop(<<>>, <<Less>>, <<>>, <<Do(E!Assign("+=", "a", N(1)))>> \o body),
            Loop(<<>>, <<>>, <<E!Assign("+=", "b", N(1))>>, body \o <<E!If(E!Bin(">", b, N(5)), <<E!Return(<<b>>)>>, <<>>)>>)}
Loops == UNION {Counting(x) : x \in Simple \union {<<c>> : c \in Ifs}}
         \union UNION {Counting(<<l, Do(f(<<a, I>>))>>) : l \in Counting(<<Do(E!Assign("-=", "a", I))>>)}
Two == {E!Var(<<<<"c", <<N(1)>>>>, <<"d", <<N(2)>>>>>>), E!Var(<<<<"c", <<>>>>, <<"d", <<N(2)>>>>>>)}
Of2(s, n) == [params |-> <<"a", "b">>, args |-> <<E!Num(n), E!Num(3)>>,
              body |-> <<s, Do(f(<<a, b>>)), E!Return(<<E!Bin("+", a, g)>>)>>]

MCPrograms == <<{Of1(e, n) : e \in Flat1, n \in {0, MaxInt}}>>
              \o [i \in DOMAIN Nested |-> {Of1(e, 1) : e \in Nested[i]}]
              \o <<{Of2(s, n) : s \in Ifs \union Two, n \in 0..2}, {Of2(s, n) : s \in Loops, n \in 0..2}>>

\* Programs for the statement evaluator: every leaf statement under every kind
\* of statement inside every kind of loop, labelled L; an inner loop is M.
F(n) == Do(f(<<N(n), a>>))
Bump(x) == Do(E!Assign("+=", x, N(1)))
Guard(s) == E!If(E!Bin("===", a, N(1)), <<s, F(4)>>, <<>>)
Jumps == {E!Break(l) : l \in {<<>>, <<"L">>, <<"M">>}} \union {E!Continue(l) : l \in {<<>>, <<"L">>, <<"M">>}}
WLeaves == Jumps \union {F(3), E!Return(<<g>>), E!Throw(a), Do(E!Call(E!Name("fail"), <<a>>))}
Tries ==
    {E!Try(<<s, F(5)>>, "x", h, q) :
        s \in WLeaves, h \in {<<<<F(6), t>>>> : t \in WLeaves}, q \in {<<>>, <<<<F(8)>>>>}}
    \union {E!Try(<<s, F(5)>>, "x", <<>>, <<<<F(8)>>>>) : s \in WLeaves}
Switches == {E!Switch(a, <<<<<<N(1)>>, <<F(5)>>>>, <<<<N(2)>>, <<s>>>>, <<c, <<t, F(6)>>>>>>) :
                s \in {F(4), E!Break(<<>>)}, t \in WLeaves, c \in {<<>>, <<N(3)>>}}
            \union {E!Switch(a, <<<<<<N(1)>>, <<Guard(E!Break(<<>>)), F(5)>>>>, <<<<>>, <<F(6), E!Break(<<>>)>>>>,
                                  <<<<N(2)>>, <<s, F(7)>>>>>>) : s \in WLeaves}
Below(x, n) == E!Bin("<", E!Name(x), N(n))
\* A loop of a kind that counts x to n, with or without a label.
LoopOf(kind, label, x, n, body) ==
    LET loop == CASE kind = "while" -> E!While(Below(x, n), <<Bump(x)>> \o body)
                  [] kind = "do" -> E!Do(<<Bump(x)>> \o body, Below(x, n))
                  [] kind = "for" -> E!For(<<Do(E!Assign("=", x, N(0)))>>, <<Below(x, n)>>, <<E!Assign("+=", x, N(1))>>, body)
                  [] kind = "of" -> E!Of("k", <<E!Num(1), E!Num(2)>>, <<Bump(x), Do(f(<<E!Name("k")>>))>> \o body)
                  [] kind = "in" -> E!In("k", <<E!Num(1), E!Num(2)>>, <<Bump(x), Do(f(<<E!Name("k")>>))>> \o body)
    IN  IF label = <<>> THEN loop ELSE E!Label(label[1], loop)
Kinds == {"for", "while", "do", "of", "in"}
Inner == <<WLeaves, {Guard(s) : s \in WLeaves},
           {E!If(E!Bin("===", a, N(2)), <<F(2)>>, <<<<s, F(4)>>>>) : s \in WLeaves},
           {E!Label("M", E!Block(<<Guard(s), F(5)>>)) : s \in WLeaves}, Tries, Switches,
           {LoopOf(k, l, "b", 2, <<Guard(s), F(5)>>) : k \in Kinds, l \in {<<>>, <<"M">>}, s \in WLeaves}>>
OfWalk(as, n, body) == [as |-> as, params |-> <<"a", "b", "x", "k">>, args |-> <<E!Num(n), E!Num(0)>>, body |-> body]
As == {"script", "program"}
MCWalks ==
    [i \in DOMAIN Inner |-> {OfWalk("function", 0, <<LoopOf(k, l, "a", 3, <<s, F(7)>>), F(9), E!Return(<<g>>)>>) :
                                k \in Kinds, l \in {<<>>, <<"L">>}, s \in Inner[i]}]
    \o [i \in DOMAIN Inner |-> {OfWalk("function", n, <<F(1), s>>) : s \in Inner[i], n \in 0..2}]
    \o [i \in DOMAIN Inner |-> {OfWalk(as, 0, <<s, F(9), t>>) :
                                as \in As, s \in Inner[i], t \in {F(10), E!Return(<<a>>), E!Throw(a)}}]
    \o [i \in DOMAIN Inner |-> {OfWalk(as, 0, <<LoopOf(k, <<"L">>, "a", 3, <<s, F(7)>>), F(9)>>) :
                                as \in As, k \in Kinds, s \in Inner[i]}]
=============================================================================
