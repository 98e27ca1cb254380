-------------------------------- MODULE Meaning -------------------------------
(***************************************************************************)
(* What a method of a script says: the assignments and tests of its        *)
(* blocks, branches and loops, which follows which, and the value each     *)
(* expression stands for.  Values are terms over what a load yields for    *)
(* each variable; whether that is what the variable holds is not said here *)
(* but in LoadsTheLocal (module Machine).  What a test yields is not       *)
(* computed: it is true or false.                                          *)
(***************************************************************************)
EXTENDS Scripts, Terms

Relational == {">", ">=", "<", "<=", "==", "!=", "||", "&&"}

Places(x, L) == {n \in DOMAIN L : L[n][1] = x}
TypeOf(x, L) ==
  IF Places(x, L) = {} THEN FieldType[x]
  ELSE L[CHOOSE n \in Places(x, L) : \A m \in Places(x, L) : n >= m][2]

Join(t, u) == IF t = u THEN t ELSE "float"

LeafType(e, L) ==
  CASE e[1] = "int" -> "int32"
    [] e[1] = "float" -> "float"
    [] e[1] = "id" -> TypeOf(e[2], L)
    [] OTHER -> MemberType[e[3]]

Type[e \in Expressions] ==
  [L \in Scopes |->
     IF e[1] = "unary" THEN Type[e[3]][L]
     ELSE IF e[1] = "bin" THEN IF e[2] \in Relational THEN "bool" ELSE Join(Type[e[3]][L], Type[e[4]][L])
     ELSE LeafType(e, L)]

(* Where a variable and a member live.                                     *)
This == Leaf("this", Reads)
Variable(x, L, how) == IF Places(x, L) # {} THEN Leaf(x, how) ELSE Of(x, "field", This)
Member(x, member, L) == Of(member, "field", Variable(x, L, Reads))
Place(e, L) == IF e[1] = "id" THEN Variable(e[2], L, Writes) ELSE Member(e[2], e[3], L)

As(v, t, u) == IF t = u THEN v ELSE Converted(v, t, u)

LeafValue(e, L) ==
  CASE e[1] = "id" -> Variable(e[2], L, Reads)
    [] e[1] = "dot" -> Member(e[2], e[3], L)
    [] OTHER -> Leaf("literal", e[1])
BinaryValue(op, v, t, w, u) == Apply(op, Join(t, u), As(v, t, Join(t, u)), As(w, u, Join(t, u)))

Value[e \in Expressions] ==
  [L \in Scopes |->
     IF e[1] = "unary" THEN Of(e[2], Type[e[3]][L], Value[e[3]][L])
     ELSE IF e[1] = "bin"
          THEN BinaryValue(e[2], Value[e[3]][L], Type[e[3]][L], Value[e[4]][L], Type[e[4]][L])
     ELSE LeafValue(e, L)]

(***************************************************************************)
(* The order: which statement follows which.                               *)
(***************************************************************************)
First(body, after) ==
  IF body = <<>> THEN after
  ELSE IF Head(body).kind = "for" THEN Head(body).init.id ELSE Head(body).id

(* Where the block of a branch or a loop goes on.                          *)
Again(s, next) == CASE s.kind = "if" -> next [] s.kind = "for" -> s.update.id [] OTHER -> s.id

Edges[body \in Bodies] ==
  [after \in Labels |->
     IF body = <<>> THEN {}
     ELSE
     LET s == Head(body)
         next == First(Tail(body), after)
     IN Edges[Tail(body)][after]
        \cup (IF s.kind \in Compound
              THEN {<<s.id, "true", First(s.body, Again(s, next))>>, <<s.id, "false", next>>}
                   \cup Edges[s.body][Again(s, next)]
              ELSE {<<s.id, "done", next>>})
        \cup (IF s.kind = "for" THEN {<<s.init.id, "done", s.id>>, <<s.update.id, "done", s.id>>} ELSE {})]

After(s, L) == IF s.kind \in Declaring THEN Append(L, <<s.name, s.type>>) ELSE L

(* The statements of a block, its branches and loops, each with the locals *)
(* it sees.                                                                *)
Sites[body \in Bodies] ==
  [L \in Scopes |->
     IF body = <<>> THEN {}
     ELSE
     LET s == Head(body)
         inner == IF s.kind = "for" THEN After(s.init, L) ELSE L
     IN {<<s, inner>>} \cup Sites[Tail(body)][After(s, L)]
        \cup (IF s.kind \in Compound THEN Sites[s.body][inner] ELSE {})
        \cup (IF s.kind = "for" THEN {<<s.init, L>>, <<s.update, inner>>} ELSE {})]

(* What each statement does when it is executed.                           *)
Does(s, L) ==
  CASE s.kind = "assign" ->
         {Effect(s.id, "done", Place(s.lhs, L), As(Value[s.rhs][L], Type[s.rhs][L], Type[s.lhs][L]))}
    [] s.kind = "increment" -> {Effect(s.id, "done", Place(s.lhs, L), Leaf("increment", Type[s.lhs][L]))}
    [] s.kind = "decl" -> {Effect(s.id, "done", Leaf(s.name, Writes), Nowhere)}
    [] s.kind = "init" ->
         LET M == After(s, L)
         IN {Effect(s.id, "done", Leaf(s.name, Writes), As(Value[s.rhs][M], Type[s.rhs][M], s.type))}
    [] OTHER -> {Effect(s.id, how, Nowhere, Value[s.test][L]) : how \in {"true", "false"}}

(* A method: what it starts with, what follows what, and what it may do.   *)
Start(program) == First(program, "end")
Order(program) == Edges[program]["end"]
Effects(program) == UNION {Does(site[1], site[2]) : site \in Sites[program][Receiver]}

=============================================================================
