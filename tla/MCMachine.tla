------------------------------- MODULE MCMachine ------------------------------
(***************************************************************************)
(* Methods for module Machine: a class with an int and a float field and   *)
(* a class with one field of each, and the statements and tests below in   *)
(* every branch and loop, two deep.  The names of the locals are names of  *)
(* fields too: the compiler declares no others.                            *)
(***************************************************************************)
EXTENDS Methods, TLC

MCFieldType == [n |-> "int32", r |-> "float", k |-> "float", o |-> "T", b |-> "int32", i |-> "float"]
MCMemberType == [w |-> "int32", z |-> "float"]

IntLit == <<"int">>
FloatLit == <<"float">>
Id(x) == <<"id", x>>
Dot(x, f) == <<"dot", x, f>>
Bin(op, l, r) == <<"bin", op, l, r>>
Minus(e) == <<"unary", "-", e>>

Set(id, lhs, rhs) == [kind |-> "assign", id |-> id, lhs |-> lhs, rhs |-> rhs]
Local(id, x, t) == [kind |-> "decl", id |-> id, name |-> x, type |-> t]
Var(id, x, t, rhs) == [kind |-> "init", id |-> id, name |-> x, type |-> t, rhs |-> rhs]
Incr(id, lhs) == [kind |-> "increment", id |-> id, lhs |-> lhs]
If(id, test, body) == [kind |-> "if", id |-> id, test |-> test, body |-> body]
While(id, test, body) == [kind |-> "while", id |-> id, test |-> test, body |-> body]
ForLoop(id, init, test, update, body) ==
  [kind |-> "for", id |-> id, init |-> init, test |-> test, update |-> update, body |-> body]

(* The values assigned: every operator, promotion on either side, nesting. *)
Sums == { Bin("+", Id("n"), IntLit), Bin("-", Id("r"), Id("n")), Bin("*", Id("n"), Id("r")),
          Bin("/", IntLit, Bin("-", Id("k"), FloatLit)), Minus(Bin("+", Id("n"), Id("k"))),
          Bin("-", Bin("-", Id("n"), Id("k")), Dot("o", "w")), Minus(Dot("o", "z")) }
Assigned == { Id("n"), Id("r"), Id("k"), Dot("o", "z") }
Tests == { Bin("<", Id("k"), IntLit), Bin(">", Bin("*", Id("k"), Id("r")), Id("n")),
           Bin("==", Id("r"), FloatLit), Bin("!=", Id("n"), Minus(Id("k"))) }
Test == Bin("<", Id("n"), Id("k"))

(* Bodies of branches and loops, with statements named after the prefix p. *)
One(p) == << Set(p \o "1", Id("n"), Bin("-", Id("n"), Id("k"))) >>
Blocks(p) ==
  { One(p),
    << Var(p \o "1", "b", "float", Id("n")), Set(p \o "2", Id("r"), Bin("*", Id("b"), Id("k"))) >>,
    << Local(p \o "1", "b", "int32"), If(p \o "2", Test, One(p \o "3")), Set(p \o "4", Id("b"), Id("n")) >>,
    << While(p \o "1", Test, << If(p \o "2", Test, One(p \o "3")) >>) >>,
    << ForLoop(p \o "1", Var(p \o "2", "b", "int32", IntLit), Test, Incr(p \o "3", Id("b")), One(p \o "4")) >> }

Compounds(id, test, body) ==
  { If(id, test, body), While(id, test, body),
    ForLoop(id, Var("f1", "i", "int32", IntLit), test, Incr("f2", Id("i")), body),
    ForLoop(id, Set("f1", Id("k"), FloatLit), test, Set("f2", Id("k"), Bin("+", Id("k"), IntLit)), body) }

Opening == << Var("k", "k", "int32", IntLit), Local("o", "o", "T") >>
MCPrograms ==
     { Opening \o << Set("a", t, e) >> : t \in Assigned, e \in Sums }
  \cup UNION { { Opening \o <<s>>, Opening \o << s, Set("z", Id("r"), Id("k")) >> } :
               s \in UNION { Compounds("t", test, One("x")) : test \in Tests } \cup
                    UNION { Compounds("t", Test, body) : body \in Blocks("x") } }

(* An if whose block is longer than an int8_t can jump, after as much code.*)
Long(p) == [n \in 1 .. 26 |-> Set(p \o ToString(n), Id("k"), IntLit)]
MCLong == { Opening \o Long("w") \o << If("t", Test, Long("x")), Set("z", Id("r"), Id("k")) >> }

(* A local that is read after it was given a value.                        *)
MCRead == { << Var("k", "k", "int32", IntLit), Var("b", "b", "int32", Id("k")) >> }

(***************************************************************************)
(* The expressions and blocks of these programs, with their parts: blocks  *)
(* are at most four deep, expressions three.                               *)
(***************************************************************************)
Heads(bodies) == {Head(body) : body \in bodies \ {<<>>}}
Rests(bodies) == UNION {{SubSeq(body, n, Len(body)) : n \in 1 .. Len(body) + 1} : body \in bodies}
Within(bodies) == bodies \cup Rests({s.body : s \in {s \in Heads(bodies) : s.kind \in Compound}})
AllBodies == Within(Within(Within(Rests(MCPrograms \cup MCLong \cup MCRead))))

Operands(es) == es \cup {e[3] : e \in {e \in es : e[1] \in {"unary", "bin"}}}
                   \cup {e[4] : e \in {e \in es : e[1] = "bin"}}
Written(s) ==
  NodesOf(s) \cup CASE s.kind = "assign" -> {s.lhs, s.rhs}
                    [] s.kind = "init" -> {s.rhs}
                    [] s.kind = "increment" -> {s.lhs}
                    [] s.kind \in Compound -> {s.test}
                    [] OTHER -> {}
Loops == {s \in Heads(AllBodies) : s.kind = "for"}
AllExpressions ==
  Operands(Operands(Operands(
    UNION {Written(s) : s \in Heads(AllBodies) \cup {s.init : s \in Loops} \cup {s.update : s \in Loops}})))

(* TLC computes the definition of a constant once, its value in a          *)
(* configuration at every use.                                             *)
MCExpressions == AllExpressions
MCBodies == AllBodies
MCExprDepth[e \in MCExpressions] ==
  CASE e[1] = "unary" -> 1 + MCExprDepth[e[3]]
    [] e[1] = "bin" -> 1 + Max({MCExprDepth[e[3]], MCExprDepth[e[4]]})
    [] OTHER -> 0
MCBodyDepth[body \in MCBodies] ==
  IF body = <<>> THEN 0
  ELSE 1 + Max({MCBodyDepth[Tail(body)],
                IF Head(body).kind \in Compound THEN MCBodyDepth[Head(body).body] ELSE 0})

(* What the theorems ask of a method holds of these.                       *)
ASSUME MCPrograms \subseteq Bodies /\ \A body \in MCPrograms : Means(body)

=============================================================================
