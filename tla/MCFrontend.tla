------------------------------ MODULE MCFrontend ------------------------------
(* Programs by a grammar of their own, each with the tree it stands for,   *)
(* documents, and short texts in several surroundings.                     *)
EXTENDS Frontend

(* Characters of a lexeme, and a text with a blank between lexemes.        *)
Chars(x) ==
  CASE x = "->" -> <<"-", ">">> [] x = "=>" -> <<"=", ">">> [] x = "&&" -> <<"&", "&">>
    [] x = "<=" -> <<"<", "=">> [] x = "--" -> <<"-", "-">> [] x = "++" -> <<"+", "+">>
    [] x = "1.1" -> <<"1", ".", "1">> [] x = "a1" -> <<"a", "1">>
    [] x = "str" -> <<"\"", "a", "\"">>
    [] x = "/**/" -> <<"/", "*", "a", "*", "/">> [] x = "//" -> <<"/", "/", "a", "\n">>
    [] OTHER -> <<x>>
Spell(l) == FoldLeft(LAMBDA acc, x : acc \o (IF acc = <<>> THEN <<>> ELSE <<" ">>) \o Chars(x), <<>>, l)

T(x) == <<"text", x>>
Id(x) == [s |-> <<x>>, t |-> <<"id", T(x)>>]
Lit(x, text) == [s |-> <<x>>, t |-> <<"literal", T(text)>>]
BinT(op, l, r) == <<"bin", op, l, r>>
Bin(op, l, r) == [s |-> l.s \o <<op>> \o r.s, t |-> BinT(op, l.t, r.t)]

A == Id("a")  B == Id("b")  C == Id("c")

Prec(op) == CASE op = "=" -> 0 [] op \in {"<", "<=", "&&"} -> 10 [] op = "+" -> 20 [] OTHER -> 30

(* a o1 b o2 c: the operator that binds more has its operands.             *)
Two(o1, o2) ==
  [s |-> <<"a", o1, "b", o2, "c">>,
   t |-> IF Prec(o2) > Prec(o1) THEN BinT(o1, A.t, BinT(o2, B.t, C.t))
                                ELSE BinT(o2, BinT(o1, A.t, B.t), C.t)]

Simple ==
  { A, Bin("=", A, Lit("1", "1")),
    [s |-> <<"f", "(", "a", ",", "b", ")">>, t |-> <<"call", T("f"), A.t, B.t>>] }

Exprs == Simple \cup
  { Two(o1, o2) : o1, o2 \in {"=", "<", "<=", "+", "*", "&&"} } \cup
  { Bin("=", A, Lit("str", "s")), Bin("=", A, Lit("1.1", "1")), Id("a1"),
    [s |-> <<"-", "a", "+", "b">>, t |-> BinT("+", <<"unary", "-", A.t>>, B.t)],
    [s |-> <<"++", "a">>, t |-> <<"unary", "++", A.t>>],
    [s |-> <<"--", "a">>, t |-> <<"unary", "--", A.t>>],
    [s |-> <<"(", "a", "+", "b", ")", "*", "c">>, t |-> BinT("*", BinT("+", A.t, B.t), C.t)],
    [s |-> <<"f", "(", ")">>, t |-> <<"call", T("f")>>],
    [s |-> <<"a", ".", "b", ".", "f", "(", "c", ")">>,
     t |-> <<"dot", <<"dot", A.t, B.t>>, <<"call", T("f"), C.t>>>>],
    [s |-> <<"a", "=", "new", "T", "(", ")">>, t |-> BinT("=", A.t, <<"new", T("T")>>)],
    [s |-> <<"new", "T", "(", ")">>, t |-> <<"new", T("T")>>],
    [s |-> <<"a", "=", "b", "=>", "c">>,
     t |-> BinT("=", A.t, <<"lambda", T("b"), <<"block", C.t>>>>)] }

Type(x) == <<"type", T(x)>>
Ends == { <<";", "\n">>, <<"\n">>, <<";">>, <<"/**/", ";", "//">> }

Decls(E) ==
  { [s |-> <<"int", "x", "=">> \o e.s, t |-> <<"var", Type("int"), T("x"), e.t>>] : e \in E } \cup
  { [s |-> <<"int", "x">>, t |-> <<"var", Type("int"), T("x")>>],
    [s |-> <<"T", "@", "x">>, t |-> <<"var", Type("T"), T("x")>>],
    [s |-> <<"return">>, t |-> <<"return">>] }

Closed1(S, ends) == { [s |-> x.s \o e, t |-> x.t] : x \in S, e \in ends }
Blk(stmts) == <<"block">> \o stmts

(* Statements with a block; the bracket may stand on a line of its own.    *)
Nested(S, opens) == UNION { UNION {
  { [s |-> <<"if", "(">> \o A.s \o <<")">> \o o \o x.s \o <<"}", "\n">>,
     t |-> <<"if", A.t, Blk(<<x.t>>)>>],
    [s |-> <<"while", "(">> \o Two("<", "+").s \o <<")">> \o o \o x.s \o <<"}", "\n">>,
     t |-> <<"while", Two("<", "+").t, Blk(<<x.t>>)>>],
    [s |-> <<"for", "(", "int", "x", "=", "1", ";", "a", ";", "b", "=", "c", ")">> \o o \o x.s \o <<"}", "\n">>,
     t |-> <<"for", <<"var", Type("int"), T("x"), Lit("1", "1").t>>, A.t, BinT("=", B.t, C.t), Blk(<<x.t>>)>>] }
  : x \in S } : o \in opens }

NL == <<";", "\n">>
Opens == { <<"{", "\n">>, <<"\n", "{", "\n">> }
Small == Closed1({A, Bin("=", A, Lit("1", "1"))}, {NL}) \cup Closed1(Decls({}), {NL})
Stmts == Closed1(Exprs \cup Decls(Exprs), {NL}) \cup Closed1(Simple \cup Decls({A}), Ends)
         \cup Nested(Small, Opens) \cup Nested(Nested(Small, {<<"{", "\n">>}), {<<"{", "\n">>})
Pairs2 == { [s |-> x.s \o y.s, t |-> <<x.t, y.t>>] :
            x, y \in Small \cup Nested(Closed1({A}, {NL}), {<<"{", "\n">>}) }

Fn(name, body, ts, open) ==
  [s |-> <<"function", name, "(", ")">> \o open \o body \o <<"}", "\n">>,
   t |-> <<"fn", T(name), <<"params">>, Blk(ts)>>]

Fns == { Fn("f", x.s, <<x.t>>, o) : x \in Stmts, o \in {<<"{", "\n">>} }
       \cup { Fn("f", x.s, x.t, <<"\n", "{", "\n">>) : x \in Pairs2 }
       \cup { Fn("f", <<>>, <<>>, <<"{">>),
              [s |-> <<"function", "f", "(", "int", "a", ",", "array", "<", "int", ">", "b", ")", "->", "int", "{", "a", "\n", "}", "\n">>,
               t |-> <<"fn", T("f"), <<"params", <<"var", Type("int"), T("a")>>,
                                       <<"var", <<"type", T("array"), Type("int")>>, T("b")>>>>,
                      Type("int"), Blk(<<A.t>>)>>] }

Members ==
  { Fn("f", <<"a", ";">>, <<A.t>>, <<"{">>),
    [s |-> <<"a", ":", "T", "\n">>, t |-> <<"member", T("a"), Id("T").t>>],
    [s |-> <<"a", ":", "array", "<", "int", ">", "\n">>,
     t |-> <<"member", T("a"), <<"construct", Id("array").t, Id("int").t>>>>],
    [s |-> <<"let", "a", ":">> \o Two("+", "*").s \o <<"\n">>, t |-> <<"let", A.t, Two("+", "*").t>>],
    [s |-> <<"on", "a", ":", "{", "b", ";", "}", "\n">>, t |-> <<"on", A.t, Blk(<<B.t>>)>>],
    [s |-> <<"on", "a", ":", "f", "(", ")", "\n">>, t |-> <<"on", A.t, Blk(<<<<"call", T("f")>>>>)>>],
    [s |-> <<"enum", "T", "{", "a", ",", "b", "}", "\n">>, t |-> <<"enum", T("T"), T("a"), T("b")>>],
    [s |-> <<"public", ":", "\n", "a", ":", "T", "\n">>, t |-> <<"member", T("a"), Id("T").t>>],
    [s |-> <<"private">> \o Fn("f", <<>>, <<>>, <<"{">>).s, t |-> Fn("f", <<>>, <<>>, <<"{">>).t] }

(* An access level at the start of a line is one only at the start of the  *)
(* class or after a variable; elsewhere it is read as the name of a member.*)
Later == {m \in Members : m.s[1] \notin Levels}
Attributed == { [s |-> <<"[", "a", "]", "\n">> \o m.s, t |-> m.t] : m \in Later }

Class(ms) == [s |-> <<"App", ":", "class", "{", "\n">> \o FlattenSeq([n \in DOMAIN ms |-> ms[n].s]) \o <<"}", "\n">>,
              t |-> <<"class", T("App")>> \o [n \in DOMAIN ms |-> ms[n].t]]

Import == [s |-> <<"import", "T", "\n">>, t |-> <<"import", T("T")>>]
Units ==
  { <<Import, Class(<<f>>)>> : f \in Fns } \cup
  { <<Class(<<m1, m2>>)>> : m1 \in Members, m2 \in Later } \cup { <<Class(<<m>>)>> : m \in Attributed } \cup
  { << [s |-> <<"class", "A", ":", "public", "B", ",", "C", "{", "}", ";", "\n">>,
        t |-> <<"class", T("A"), T("B"), T("C")>>],
       [s |-> <<"struct", "A", "{", "a", ":", "T", "\n", "}", "\n">>,
        t |-> <<"class", T("A"), <<"member", T("a"), Id("T").t>>>>] >>,
    << [s |-> <<"template", "<", "T", ">", "A", ":", "class", "{", "}", "\n">>,
        t |-> <<"template", <<"class", T("A")>>>>], Fn("f", <<"a", "\n">>, <<A.t>>, <<"{">>), Class(<<>>) >>,
    << [s |-> <<"namespace", "A", "{">> \o Fn("f", <<>>, <<>>, <<"{">>).s
              \o <<"int", "g", "(", "int", "x", ")", "const", "{", "a", "\n", "}", "int", "h", "(", ")", ";", "int", "y", ";", "}", "\n">>,
        t |-> <<"namespace", T("A"), Fn("f", <<>>, <<>>, <<"{">>).t,
                <<"fn", Type("int"), T("g"), <<"var", Type("int"), T("x")>>, Blk(<<A.t>>)>>,
                <<"fn", Type("int"), T("h")>>, <<"var", Type("int"), T("y")>>>>] >> }

Source(s, document, regular, tree) ==
  [text |-> Spell(s), document |-> document, regular |-> regular, tree |-> tree]

Programs ==
  { Source(FlattenSeq([n \in DOMAIN u |-> u[n].s]), FALSE, TRUE, [n \in DOMAIN u |-> u[n].t]) : u \in Units }

(* Documents: an object with values of every kind, nested with an id.      *)
Str(x) == <<"string", T(x)>>
Field(x, v) == <<"field", T(x), v>>
DataValues ==
  { [s |-> <<"1">>, t |-> <<"int", T("1")>>], [s |-> <<"str">>, t |-> Str("s")], [s |-> <<"b">>, t |-> Str("b")],
    [s |-> <<"[", "1", ",", "a", "]">>, t |-> <<"array", <<"int", T("1")>>, Str("a")>>],
    [s |-> <<"T", "{", "a", ":", "1", "}">>, t |-> <<"object", Field("a", <<"int", T("1")>>), Field("typename", Str("T"))>>] }

Documents ==
  { Source(<<"App", "{", "a", ":">> \o v.s \o <<"b", ":">> \o w.s \o <<"}">>, TRUE, TRUE,
          << <<"object", Field("a", v.t), Field("b", w.t)>> >>) : v, w \in DataValues } \cup
  { Source(<<"a", ":">> \o v.s \o <<",">>, TRUE, TRUE, << <<"object", Field("a", v.t)>> >>) : v \in DataValues } \cup
  { Source(<<"App", "{", "T", "{", "id", ":", "1", "}", "}">>, TRUE, TRUE,
          << <<"object", <<"field", <<"int", T("1")>>,
               <<"object", Field("id", <<"int", T("1")>>), Field("typename", Str("T"))>>>>>> >>) }

(* Any two characters in the surroundings of a unit, a class, a block, an  *)
(* expression, a namespace, a document, that end or do not.                *)
Alphabet == {"a", "1", "\n", "{", "}", "(", ")", ":", ";", ",", ".", "=", "<", ">", "-", "[", "]", "@",
  "\"", "/", "*", "function", "class", "if", "for", "while", "do", "in", "new", "import",
  "namespace", "using", "let", "on", "enum", "public", "template"}
Around == { << <<>>, <<>> >>, << <<"class", "A", "{">>, <<"}">> >>,
            << <<"function", "f", "(", ")", "{">>, <<";", "}", "\n">> >>,
            << <<"namespace", "A", "{">>, <<"}">> >>, << <<"function", "f", "(", ")", "{">>, <<>> >>}
Second == {"a", "\n", "{", "("}
Texts ==
  { Source(c[1] \o <<x, y>> \o c[2], FALSE, FALSE, <<>>) :
      c \in Around, x \in Alphabet, y \in Second } \cup
  { Source(<<"App", "{">> \o <<x, y>> \o c, TRUE, FALSE, <<>>) : c \in {<<>>, <<"}">>},
      x \in {"a", "1", "{", "}", ":", ",", ".", "[", "]", "\""}, y \in Second }

Empty == { Source(<<>>, document, FALSE, <<>>) : document \in BOOLEAN }

MCInputs == Programs \cup Documents \cup Texts \cup Empty

=============================================================================
