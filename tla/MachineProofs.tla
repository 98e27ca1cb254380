----------------------------- MODULE MachineProofs ----------------------------
(***************************************************************************)
(* The code of a method, run by the machine, follows the source of the     *)
(* method up to what OP_LOAD yields for a variable, for every method that  *)
(* modules Scripts and Methods admit.                                      *)
(*                                                                         *)
(* 1  induction on the depth of a tree, and recursion                      *)
(* 2  expressions and the functions on them                                *)
(* 3  the code of expressions is typed                                     *)
(* 4  certificates: what the stack and the last effect are at each position*)
(* 5  the instructions of expressions                                      *)
(* 6  variables and members                                                *)
(* 7  the code of an expression leaves its value                           *)
(* 8  blocks and the functions on them                                     *)
(* 9  assignments and declarations                                         *)
(* 10 blocks, branches and loops                                           *)
(* 11 a method                                                             *)
(* 12 the machine                                                          *)
(* 13 every action of the machine leads to the next point                  *)
(* 14 the theorems                                                         *)
(***************************************************************************)
EXTENDS Methods, WellFoundedInduction, SequenceTheorems, TLAPS

(***************************************************************************)
(* 1  Induction on the depth of a tree, and recursion.                     *)
(***************************************************************************)

(* What holds of a tree whenever it holds of the lower ones holds of all.  *)
LEMMA Induct ==
  ASSUME NEW D, NEW rank \in [D -> Nat], NEW T,
         \A x \in D : (\A y \in D : rank[y] < rank[x] => y \in T) => x \in T
  PROVE  D \subseteq T
<1>1. SUFFICES ASSUME NEW z \in D, z \notin T PROVE FALSE
  OBVIOUS
<1> DEFINE R == {rank[x] : x \in D \ T}
<1>2. R \subseteq Nat /\ R # {}
  BY <1>1
<1>3. PICK r \in R : \A q \in R : <<q, r>> \notin OpToRel(<, Nat)
  BY <1>2, NatLessThanWellFounded, WFMin, Zenon
<1>4. PICK x \in D \ T : r = rank[x]
  BY <1>3
<1>5. ASSUME NEW y \in D, rank[y] < rank[x] PROVE y \in T
  <2>1. SUFFICES ASSUME y \notin T PROVE FALSE
    OBVIOUS
  <2>2. rank[y] \in R /\ rank[y] \in Nat /\ rank[x] \in Nat
    BY <2>1
  <2>3. <<rank[y], r>> \notin OpToRel(<, Nat)
    BY <1>3, <2>2
  <2> QED BY <1>4, <1>5, <2>2, <2>3 DEF OpToRel
<1> QED BY <1>4, <1>5

(* A function that is given on each tree by its values on lower ones       *)
(* exists: f of rank below n for every n, and any two of them agree.       *)
Solves(G, rank, n, f) ==
  f \in DOMAIN G /\ \A x \in DOMAIN rank : rank[x] < n => f[x] = G[f][x]
Lowers(G, rank) ==
  \A x \in DOMAIN rank : \A f, g \in DOMAIN G :
    (\A y \in DOMAIN rank : rank[y] < rank[x] => f[y] = g[y]) => G[f][x] = G[g][x]

Recursion(D, V, rank, G) ==
  rank \in [D -> Nat] /\ G \in [[D -> V] -> [D -> V]] /\ Lowers(G, rank)

LEMMA SolvesAgree ==
  ASSUME NEW D, NEW V, NEW rank, NEW G, Recursion(D, V, rank, G),
         NEW n \in Nat, NEW m \in Nat, NEW f, NEW g, Solves(G, rank, n, f), Solves(G, rank, m, g)
  PROVE  \A x \in D : rank[x] < n /\ rank[x] < m => f[x] = g[x]
<1>0. rank \in [D -> Nat] /\ G \in [[D -> V] -> [D -> V]] /\ Lowers(G, rank)
  BY DEF Recursion
<1> USE <1>0
<1> DEFINE T == {x \in D : rank[x] < n /\ rank[x] < m => f[x] = g[x]}
<1>1. ASSUME NEW x \in D, \A y \in D : rank[y] < rank[x] => y \in T PROVE x \in T
  <2>1. SUFFICES ASSUME rank[x] < n, rank[x] < m PROVE f[x] = g[x]
    OBVIOUS
  <2>2. \A y \in D : rank[y] < rank[x] => f[y] = g[y]
    <3>1. ASSUME NEW y \in D, rank[y] < rank[x] PROVE f[y] = g[y]
      <4>1. rank[y] \in Nat /\ rank[x] \in Nat /\ rank[y] < n /\ rank[y] < m
        BY <2>1, <3>1
      <4> QED BY <1>1, <3>1, <4>1
    <3> QED BY <3>1
  <2>3. f \in [D -> V] /\ g \in [D -> V] /\ DOMAIN G = [D -> V] /\ DOMAIN rank = D
    BY DEF Solves
  <2>4. G[f][x] = G[g][x]
    BY <2>2, <2>3 DEF Lowers
  <2> QED BY <2>1, <2>3, <2>4 DEF Solves
<1>2. D \subseteq T
  <2> HIDE DEF T
  <2> QED BY <1>1, Induct
<1> QED BY <1>2

LEMMA SolvesExist ==
  ASSUME NEW D, NEW V, NEW rank, NEW G, Recursion(D, V, rank, G),
         [D -> V] # {}
  PROVE  \A n \in Nat : \E f : Solves(G, rank, n, f)
<1>0. rank \in [D -> Nat] /\ G \in [[D -> V] -> [D -> V]] /\ Lowers(G, rank)
  BY DEF Recursion
<1> USE <1>0
<1> DEFINE T == {n \in Nat : \E f : Solves(G, rank, n, f)}
           id == [n \in Nat |-> n]
<1>1. ASSUME NEW n \in Nat, \A k \in Nat : id[k] < id[n] => k \in T PROVE n \in T
  <2>0. DOMAIN G = [D -> V] /\ DOMAIN rank = D
    OBVIOUS
  <2>1. CASE n = 0
    <3>1. PICK f : f \in [D -> V]
      OBVIOUS
    <3>2. Solves(G, rank, 0, f)
      BY <2>0, <3>1 DEF Solves
    <3> QED BY <2>1, <3>2
  <2>2. CASE n # 0
    <3>1. n - 1 \in T
      <4>1. n - 1 \in Nat /\ id[n - 1] < id[n]
        BY <2>2
      <4> QED BY <1>1, <4>1
    <3>2. PICK f : Solves(G, rank, n - 1, f)
      BY <3>1
    <3>3. PICK g : g = G[f]
      OBVIOUS
    <3>4. f \in [D -> V] /\ g \in [D -> V]
      BY <2>0, <3>2, <3>3 DEF Solves
    <3>5. ASSUME NEW x \in D, rank[x] < n PROVE g[x] = G[g][x]
      <4>1. ASSUME NEW y \in D, rank[y] < rank[x] PROVE f[y] = g[y]
        <5>1. rank[y] \in Nat /\ rank[x] \in Nat /\ rank[y] < n - 1
          BY <3>5, <4>1
        <5> QED BY <2>0, <3>2, <3>3, <5>1 DEF Solves
      <4>2. G[f][x] = G[g][x]
        BY <2>0, <3>4, <4>1 DEF Lowers
      <4> QED BY <3>3, <4>2
    <3>6. Solves(G, rank, n, g)
      BY <2>0, <3>4, <3>5 DEF Solves
    <3> QED BY <3>6
  <2> QED BY <2>1, <2>2
<1>2. id \in [Nat -> Nat]
  OBVIOUS
<1>3. Nat \subseteq T
  <2> HIDE DEF T, id
  <2> QED BY <1>1, <1>2, Induct
<1> QED BY <1>3

LEMMA Fixpoint ==
  ASSUME NEW D, NEW V, NEW rank, NEW G, Recursion(D, V, rank, G),
         [D -> V] # {}
  PROVE  \E f \in [D -> V] : f = G[f]
<1> DEFINE F(n) == CHOOSE f : Solves(G, rank, n, f)
           h == [x \in D |-> F(rank[x] + 1)[x]]
<1>9. rank \in [D -> Nat] /\ G \in [[D -> V] -> [D -> V]] /\ Lowers(G, rank)
  BY DEF Recursion
<1> USE <1>9
<1>0. DOMAIN G = [D -> V] /\ DOMAIN rank = D
  OBVIOUS
<1>1. \A n \in Nat : Solves(G, rank, n, F(n))
  BY SolvesExist
<1>2. \A n \in Nat : F(n) \in [D -> V]
  BY <1>0, <1>1 DEF Solves
<1>3. \A n \in Nat, m \in Nat : \A x \in D : rank[x] < n /\ rank[x] < m => F(n)[x] = F(m)[x]
  <2>1. ASSUME NEW n \in Nat, NEW m \in Nat
        PROVE  \A x \in D : rank[x] < n /\ rank[x] < m => F(n)[x] = F(m)[x]
    <3>1. PICK f : f = F(n)
      OBVIOUS
    <3>2. PICK g : g = F(m)
      OBVIOUS
    <3>3. Solves(G, rank, n, f) /\ Solves(G, rank, m, g)
      BY <1>1, <3>1, <3>2
    <3>4. \A x \in D : rank[x] < n /\ rank[x] < m => f[x] = g[x]
      BY <3>3, SolvesAgree
    <3> QED BY <3>1, <3>2, <3>4
  <2> QED BY <2>1
<1> HIDE DEF F
<1>4. h \in [D -> V]
  <2>1. ASSUME NEW x \in D PROVE h[x] \in V
    <3>1. rank[x] + 1 \in Nat
      OBVIOUS
    <3>2. F(rank[x] + 1) \in [D -> V]
      BY <1>2, <3>1
    <3> QED BY <3>2
  <2> QED BY <2>1
<1>5. ASSUME NEW x \in D PROVE h[x] = G[h][x]
  <2>1. PICK n : n = rank[x] + 1
    OBVIOUS
  <2>2. n \in Nat /\ rank[x] < n
    BY <2>1
  <2>3. ASSUME NEW y \in D, rank[y] < rank[x] PROVE h[y] = F(n)[y]
    <3>1. rank[y] \in Nat /\ rank[y] + 1 \in Nat /\ rank[y] < rank[y] + 1 /\ rank[y] < n
      BY <2>1, <2>3
    <3>2. h[y] = F(rank[y] + 1)[y]
      OBVIOUS
    <3> QED BY <1>3, <2>2, <3>1, <3>2
  <2>4. F(n) \in [D -> V]
    BY <1>2, <2>2
  <2>5. G[h][x] = G[F(n)][x]
    <3> HIDE DEF h
    <3> QED BY <1>0, <1>4, <2>3, <2>4 DEF Lowers
  <2>6. F(n)[x] = G[F(n)][x]
    BY <1>0, <1>1, <2>2 DEF Solves
  <2> QED BY <2>1, <2>5, <2>6
<1>6. G[h] \in [D -> V]
  BY <1>4
<1>7. h = G[h]
  <2> HIDE DEF h
  <2> QED BY <1>4, <1>5, <1>6
<1> QED BY <1>4, <1>7

(***************************************************************************)
(* 2  Expressions: their parts, and the equations of the functions on them.*)
(***************************************************************************)
PartsOf(e) ==
  {p \in Expressions : \/ e[1] \in {"unary", "bin"} /\ p = e[3]
                       \/ e[1] = "bin" /\ p = e[4]}

LEMMA ExprNodes ==
  ASSUME NEW e \in Expressions
  PROVE  /\ e[1] \in {"int", "float", "id", "dot", "unary", "bin"}
         /\ e[1] = "id" => e[2] \in STRING
         /\ e[1] = "dot" => e[2] \in STRING /\ e[3] \in STRING
         /\ e[1] = "unary" => e[2] \in {"-", "++"}
         /\ e[1] \in {"unary", "bin"} => e[3] \in PartsOf(e)
         /\ e[1] = "bin" => e[2] \in Operators /\ e[4] \in PartsOf(e)
<1>1. \/ e = <<"int">> \/ e = <<"float">>
      \/ e \in {"id"} \X STRING
      \/ e \in {"dot"} \X STRING \X STRING
      \/ e \in {"unary"} \X {"-", "++"} \X Expressions
      \/ e \in {"bin"} \X Operators \X Expressions \X Expressions
  BY ExpressionAssumption
<1>2. CASE e = <<"int">> \/ e = <<"float">>
  BY <1>2
<1>3. CASE e \in {"id"} \X STRING
  BY <1>3
<1>4. CASE e \in {"dot"} \X STRING \X STRING
  BY <1>4
<1>5. CASE e \in {"unary"} \X {"-", "++"} \X Expressions
  BY <1>5 DEF PartsOf
<1>6. CASE e \in {"bin"} \X Operators \X Expressions \X Expressions
  BY <1>6 DEF PartsOf
<1> QED BY <1>1, <1>2, <1>3, <1>4, <1>5, <1>6

(* The parts of an expression are expressions, less deep.                  *)
LEMMA ExprParts ==
  ASSUME NEW e \in Expressions, NEW p \in PartsOf(e)
  PROVE  p \in Expressions /\ ExprDepth[p] < ExprDepth[e]
BY ExpressionAssumption DEF PartsOf

(* What holds of an expression whenever it holds of its parts.             *)
LEMMA ExprInduct ==
  ASSUME NEW T, \A e \in Expressions : PartsOf(e) \subseteq T => e \in T
  PROVE  Expressions \subseteq T
<1>1. ASSUME NEW e \in Expressions, \A y \in Expressions : ExprDepth[y] < ExprDepth[e] => y \in T
      PROVE  e \in T
  BY <1>1, ExprParts
<1>2. ExprDepth \in [Expressions -> Nat]
  BY ExpressionAssumption
<1> QED BY <1>1, <1>2, Induct

(* A function given on each expression by its values on the parts exists.  *)
ByParts(V, G) ==
  /\ G \in [[Expressions -> V] -> [Expressions -> V]]
  /\ \A e \in Expressions : \A f, g \in [Expressions -> V] :
       (\A p \in PartsOf(e) : f[p] = g[p]) => G[f][e] = G[g][e]

LEMMA ExprFixpoint ==
  ASSUME NEW V, NEW G, ByParts(V, G), NEW v \in V
  PROVE  \E f \in [Expressions -> V] : f = G[f]
<1>1. ExprDepth \in [Expressions -> Nat] /\ G \in [[Expressions -> V] -> [Expressions -> V]]
  BY ExpressionAssumption DEF ByParts
<1>2. Lowers(G, ExprDepth)
  <2>1. SUFFICES ASSUME NEW e \in Expressions, NEW f \in [Expressions -> V], NEW g \in [Expressions -> V],
                        \A y \in Expressions : ExprDepth[y] < ExprDepth[e] => f[y] = g[y]
                 PROVE  G[f][e] = G[g][e]
    BY <1>1 DEF Lowers
  <2>2. \A p \in PartsOf(e) : f[p] = g[p]
    BY <2>1, ExprParts
  <2> QED BY <2>2 DEF ByParts
<1>3. [e \in Expressions |-> v] \in [Expressions -> V]
  OBVIOUS
<1>4. Recursion(Expressions, V, ExprDepth, G) /\ [Expressions -> V] # {}
  BY <1>1, <1>2, <1>3 DEF Recursion
<1> QED BY <1>4, Fixpoint

(***************************************************************************)
(* The types the compiler resolves.                                        *)
(***************************************************************************)
TypeNames == {operandType(x[1], x[2]) : x \in Expressions \X Scopes} \cup {"bool", "float", ""}

TypeOfNode(f, e) ==
  [L \in Scopes |->
     IF e[1] = "unary" THEN f[e[3]][L]
     ELSE IF e[1] = "bin"
          THEN IF isRelational(e[2]) THEN "bool" ELSE resolvePromotedType(f[e[3]][L], f[e[4]][L])
     ELSE operandType(e, L)]

LEMMA TypeOfNodeIsByParts ==
  ASSUME NEW e \in Expressions, NEW f, NEW g, \A p \in PartsOf(e) : f[p] = g[p]
  PROVE  TypeOfNode(f, e) = TypeOfNode(g, e)
BY ExprNodes DEF TypeOfNode

LEMMA TypeOfNodeIsType ==
  ASSUME NEW e \in Expressions, NEW f, \A p \in PartsOf(e) : f[p] \in [Scopes -> TypeNames]
  PROVE  TypeOfNode(f, e) \in [Scopes -> TypeNames]
<1>1. ASSUME NEW L \in Scopes PROVE TypeOfNode(f, e)[L] \in TypeNames
  <2>1. CASE e[1] = "unary"
    BY <2>1, ExprNodes DEF TypeOfNode
  <2>2. CASE e[1] = "bin"
    <3>1. f[e[3]][L] \in TypeNames /\ f[e[4]][L] \in TypeNames
      BY <2>2, ExprNodes
    <3>2. "bool" \in TypeNames /\ "float" \in TypeNames /\ "" \in TypeNames
      BY DEF TypeNames
    <3> HIDE DEF TypeNames
    <3> QED BY <2>2, <3>1, <3>2 DEF TypeOfNode, resolvePromotedType
  <2>3. CASE e[1] # "unary" /\ e[1] # "bin"
    <3>1. <<e, L>> \in Expressions \X Scopes /\ <<e, L>>[1] = e /\ <<e, L>>[2] = L
      OBVIOUS
    <3>2. operandType(e, L) \in TypeNames
      BY <3>1 DEF TypeNames
    <3> QED BY <2>3, <3>2 DEF TypeOfNode
  <2> QED BY <2>1, <2>2, <2>3
<1> QED BY <1>1 DEF TypeOfNode

LEMMA ResolveEquation ==
  resolveQualifiedType = [e \in Expressions |-> TypeOfNode(resolveQualifiedType, e)]
<1> DEFINE V == [Scopes -> TypeNames]
           G == [f \in [Expressions -> V] |-> [e \in Expressions |-> TypeOfNode(f, e)]]
<1>1. G \in [[Expressions -> V] -> [Expressions -> V]]
  <2>1. ASSUME NEW f \in [Expressions -> V], NEW e \in Expressions PROVE TypeOfNode(f, e) \in V
    BY ExprParts, TypeOfNodeIsType
  <2> QED BY <2>1
<1>2. ByParts(V, G)
  <2>1. ASSUME NEW e \in Expressions, NEW f \in [Expressions -> V], NEW g \in [Expressions -> V],
               \A p \in PartsOf(e) : f[p] = g[p]
        PROVE  G[f][e] = G[g][e]
    <3>1. TypeOfNode(f, e) = TypeOfNode(g, e)
      BY <2>1, TypeOfNodeIsByParts
    <3> QED BY <3>1
  <2> HIDE DEF G, V
  <2> QED BY <1>1, <2>1 DEF ByParts
<1>3. [L \in Scopes |-> "bool"] \in V
  BY DEF TypeNames
<1>4. PICK f \in [Expressions -> V] : f = G[f]
  <2> HIDE DEF G, V
  <2> QED BY <1>2, <1>3, ExprFixpoint
<1>5. f = [e \in Expressions |-> TypeOfNode(f, e)]
  BY <1>4
<1>6. resolveQualifiedType = CHOOSE h : h = [e \in Expressions |-> TypeOfNode(h, e)]
  BY DEF resolveQualifiedType, TypeOfNode
<1> QED BY <1>5, <1>6

(***************************************************************************)
(* 3  The code of expressions is typed.                                    *)
(***************************************************************************)
Literals ==
  {"LOAD", "LOADADDR", "LOADK", "CONV", "INCREMENT", "UNARYSUB", "SET", "MOV", "JZ", "JMP", "DEBUG", "RETURN", "REFUSED",
   "ADD", "SUB", "MUL", "DIV", "GT", "LT", "GTE", "LTE", "EQ", "NEQ", "AND", "OR",
   "EBP", "THIS", "this", "", "int", "int32", "float", "bool", "ptr", "invalid", "down", "up",
   "OP_SET", "TRACE", "CANARYBEGIN", "CANARYEND", "FOR_STARTED", "FOR_ENDED", "FOR_CYCLE_START", "FOR_CYCLE_END"}
Words == STRING \cup Literals \cup Int
Instructions == [op : Words, a : Words, b : Words, kind : Words, metadata : Words]
Code == Seq(Instructions)

LEMMA LiteralsAreWords ==
  Literals \subseteq Words /\ STRING \subseteq Words /\ Int \subseteq Words
BY Zenon DEF Words

LEMMA InstructionTyped ==
  ASSUME NEW op \in Words, NEW a \in Words, NEW b \in Words, NEW kind \in Words
  PROVE  Instruction(op, a, b, kind) \in Instructions
<1>1. "" \in Words
  BY LiteralsAreWords DEF Literals
<1> QED BY <1>1 DEF Instruction, Instructions

LEMMA Single ==
  ASSUME NEW S, NEW i \in S
  PROVE  <<i>> \in Seq(S) /\ Len(<<i>>) = 1 /\ <<i>>[1] = i
<1>1. <<i>> \in Seq(S)
  OBVIOUS
<1>2. Len(<<i>>) = 1 /\ <<i>>[1] = i
  OBVIOUS
<1> QED BY <1>1, <1>2

LEMMA InstrIsCode ==
  ASSUME NEW op \in Words, NEW a \in Words, NEW b \in Words, NEW kind \in Words
  PROVE  /\ Instr(op, a, b, kind) \in Code
         /\ Len(Instr(op, a, b, kind)) = 1
         /\ Instr(op, a, b, kind)[1] = Instruction(op, a, b, kind)
BY InstructionTyped, Single DEF Instr, Code

LEMMA ConcatIsCode ==
  ASSUME NEW c \in Code, NEW d \in Code
  PROVE  c \o d \in Code /\ Len(c \o d) = Len(c) + Len(d)
BY DEF Code

LEMMA EmptyIsCode == <<>> \in Code /\ Len(<<>>) = 0
BY DEF Code

LEMMA KindsAreWords ==
  ASSUME NEW t
  PROVE  /\ Kind(t) \in Words /\ LocalKind(t) \in Words /\ unaryKind(t) \in Words
         /\ resolvePrimitiveConstantFromType(t) \in Words
<1>1. {"int32", "float", "ptr", "invalid"} \subseteq Words
  BY LiteralsAreWords DEF Literals
<1> HIDE DEF Words
<1> QED BY <1>1 DEF Kind, LocalKind, unaryKind, resolvePrimitiveConstantFromType

LEMMA VarExprIsCode ==
  ASSUME NEW x \in Words, NEW context, NEW L
  PROVE  /\ emitVarExpr(x, context, L) \in Code
         /\ loadMemberVariable(x, L) \in Code
         /\ loadMemberAddress(x) \in Code
<1>0. {"LOAD", "LOADADDR", "EBP", "THIS", "this", "", "ptr"} \subseteq Words
  BY LiteralsAreWords DEF Literals
<1>1. emitPushThis \in Code
  BY <1>0, InstrIsCode DEF emitPushThis
<1>2. /\ Instr("LOADADDR", "THIS", x, "") \in Code
      /\ Instr("LOAD", "THIS", x, Kind(getVariable(x, L).type)) \in Code
      /\ Instr("LOAD", "EBP", x, LocalKind(getVariable(x, L).type)) \in Code
      /\ Instr("LOADADDR", "EBP", x, "") \in Code
  BY <1>0, InstrIsCode, KindsAreWords
<1>3. loadMemberAddress(x) \in Code /\ loadMemberVariable(x, L) \in Code
  BY <1>1, <1>2, ConcatIsCode DEF loadMemberAddress, loadMemberVariable
<1>4. emitVarExpr(x, context, L) \in Code
  BY <1>2, <1>3, EmptyIsCode DEF emitVarExpr
<1> QED BY <1>3, <1>4

LEMMA MemberOpIsCode ==
  ASSUME NEW x \in Words, NEW member \in Words, NEW context, NEW L
  PROVE  emitMemberOp(x, member, context, L) \in Code
<1>0. {"LOAD", "LOADADDR", "THIS", "int32"} \subseteq Words
  BY LiteralsAreWords DEF Literals
<1>1. /\ Instr("LOAD", "THIS", member, "int32") \in Code
      /\ Instr("LOADADDR", "THIS", member, "int32") \in Code
  BY <1>0, InstrIsCode
<1> QED BY <1>1, VarExprIsCode, ConcatIsCode, EmptyIsCode DEF emitMemberOp

LEMMA OperandIsCode ==
  ASSUME NEW e \in Expressions, e[1] \notin {"unary", "bin"}, NEW context, NEW L
  PROVE  emitOperand(e, context, L) \in Code
<1>1. CASE e[1] = "id"
  <2>1. e[2] \in Words
    BY <1>1, ExprNodes, LiteralsAreWords
  <2> QED BY <1>1, <2>1, VarExprIsCode DEF emitOperand
<1>2. CASE e[1] = "dot"
  <2>1. e[2] \in Words /\ e[3] \in Words
    BY <1>2, ExprNodes, LiteralsAreWords
  <2> QED BY <1>2, <2>1, MemberOpIsCode DEF emitOperand
<1>3. CASE e[1] \in {"int", "float"}
  <2>1. emitOperand(e, context, L) = Instr("LOADK", e[1], "", "")
    BY <1>3 DEF emitOperand, emitLoadLiteral
  <2>2. {"LOADK", "int", "float", ""} \subseteq Words
    BY LiteralsAreWords DEF Literals
  <2>3. e[1] \in Words
    BY <1>3, <2>2
  <2>4. "LOADK" \in Words /\ "" \in Words
    BY <2>2
  <2>5. Instr("LOADK", e[1], "", "") \in Code
    BY <2>3, <2>4, InstrIsCode
  <2> QED BY <2>1, <2>5
<1>4. e[1] \in {"int", "float", "id", "dot", "unary", "bin"}
  BY ExprNodes
<1> QED BY <1>1, <1>2, <1>3, <1>4

LEMMA ConversionIsCode ==
  ASSUME NEW t, NEW u
  PROVE  performConversion(t, u) \in Code
<1>1. {"CONV", "int32", "float", ""} \subseteq Words
  BY LiteralsAreWords DEF Literals
<1>2. Instr("CONV", "int32", "float", "") \in Code /\ Instr("CONV", "float", "int32", "") \in Code
  BY <1>1, InstrIsCode
<1> QED BY <1>2, EmptyIsCode DEF performConversion

LEMMA OpcodesAreWords ==
  ASSUME NEW op \in Operators
  PROVE  Opcode[op] \in Words
<1>1. Opcode[op] \in {"ADD", "SUB", "MUL", "DIV", "GT", "LT", "GTE", "LTE", "EQ", "NEQ", "AND", "OR"}
  BY DEF Opcode, Operators
<1> QED BY <1>1, LiteralsAreWords DEF Literals

LEMMA UnaryIsCode ==
  ASSUME NEW e, NEW operand \in Code, NEW L
  PROVE  compileUnaryOperation(e, operand, L) \in Code
<1> DEFINE t == unaryKind(resolveQualifiedType[e[3]][L])
<1>0. 0 \in Words /\ 1 \in Words
  BY LiteralsAreWords
<1>1. {"INCREMENT", "UNARYSUB", ""} \subseteq Words
  BY LiteralsAreWords DEF Literals
<1>2. t \in Words
  BY KindsAreWords
<1> HIDE DEF t
<1>3. Instr("INCREMENT", t, 0, "") \in Code /\ Instr("UNARYSUB", t, 1, "") \in Code
  BY <1>0, <1>1, <1>2, InstrIsCode
<1>4. operand \o Instr("INCREMENT", t, 0, "") \in Code /\ operand \o Instr("UNARYSUB", t, 1, "") \in Code
  BY <1>3, ConcatIsCode
<1> QED BY <1>4 DEF compileUnaryOperation, t

LEMMA ArithmeticIsCode ==
  ASSUME NEW e, e[2] \in Operators, NEW lhs \in Code, NEW rhs \in Code, NEW L
  PROVE  emitArithmeticOp(e, lhs, rhs, L) \in Code
<1> DEFINE lhsType == resolveQualifiedType[e[3]][L]
           rhsType == resolveQualifiedType[e[4]][L]
           promoted == resolvePromotedType(lhsType, rhsType)
           type == IF lhsType = rhsType THEN lhsType
                   ELSE IF {lhsType, rhsType} \subseteq Primitive THEN promoted ELSE ""
           operands == CASE lhsType = rhsType -> lhs \o rhs
                         [] lhsType # rhsType /\ {lhsType, rhsType} \subseteq Primitive ->
                              lhs \o performConversion(lhsType, promoted)
                                  \o rhs \o performConversion(rhsType, promoted)
                         [] OTHER -> <<>>
           operation == Instr(Opcode[e[2]], resolvePrimitiveConstantFromType(type), "", "")
<1>1. operands \in Code
  <2>1. lhs \o rhs \in Code
    BY ConcatIsCode
  <2>2. lhs \o performConversion(lhsType, promoted) \o rhs \o performConversion(rhsType, promoted) \in Code
    <3>1. PICK x \in Code : x = performConversion(lhsType, promoted)
      BY ConversionIsCode
    <3>2. PICK y \in Code : y = performConversion(rhsType, promoted)
      BY ConversionIsCode
    <3>3. lhs \o x \o rhs \o y \in Code
      BY ConcatIsCode
    <3> QED BY <3>1, <3>2, <3>3
  <2> QED BY <2>1, <2>2, EmptyIsCode
<1>2. operation \in Code
  <2>1. "" \in Words
    BY LiteralsAreWords DEF Literals
  <2> HIDE DEF type
  <2> QED BY <2>1, InstrIsCode, OpcodesAreWords, KindsAreWords
<1>3. emitArithmeticOp(e, lhs, rhs, L) = operands \o operation
  BY Zenon DEF emitArithmeticOp
<1> HIDE DEF operands, operation
<1> QED BY <1>1, <1>2, <1>3, ConcatIsCode

(***************************************************************************)
(* The equation of emitExpressionEval.                                     *)
(***************************************************************************)
EvalOfNode(f, e) ==
  [context \in Contexts |-> [L \in Scopes |->
     IF e[1] = "unary"
     THEN compileUnaryOperation(e, f[e[3]][operandContext(e[2])][L], L)
     ELSE IF e[1] = "bin"
     THEN emitArithmeticOp(e, f[e[3]]["rvalue"][L], f[e[4]]["rvalue"][L], L)
     ELSE emitOperand(e, context, L)]]
Evals == [Contexts -> [Scopes -> Code]]

LEMMA EvalOfNodeIsByParts ==
  ASSUME NEW e \in Expressions, NEW f, NEW g, \A p \in PartsOf(e) : f[p] = g[p]
  PROVE  EvalOfNode(f, e) = EvalOfNode(g, e)
BY ExprNodes DEF EvalOfNode

LEMMA EvalOfNodeIsCode ==
  ASSUME NEW e \in Expressions, NEW f, \A p \in PartsOf(e) : f[p] \in Evals
  PROVE  EvalOfNode(f, e) \in Evals
<1>1. ASSUME NEW context \in Contexts, NEW L \in Scopes PROVE EvalOfNode(f, e)[context][L] \in Code
  <2>1. CASE e[1] = "unary"
    <3>1. operandContext(e[2]) \in Contexts
      BY DEF operandContext, Contexts
    <3>2. f[e[3]][operandContext(e[2])][L] \in Code
      BY <2>1, <3>1, ExprNodes DEF Evals
    <3> QED BY <2>1, <3>2, UnaryIsCode DEF EvalOfNode
  <2>2. CASE e[1] = "bin"
    <3>1. f[e[3]]["rvalue"][L] \in Code /\ f[e[4]]["rvalue"][L] \in Code /\ e[2] \in Operators
      BY <2>2, ExprNodes DEF Evals, Contexts
    <3> QED BY <2>2, <3>1, ArithmeticIsCode DEF EvalOfNode
  <2>3. CASE e[1] \notin {"unary", "bin"}
    BY <2>3, OperandIsCode DEF EvalOfNode
  <2> QED BY <2>1, <2>2, <2>3
<1> QED BY <1>1 DEF EvalOfNode, Evals

LEMMA EvalEquation ==
  /\ emitExpressionEval = [e \in Expressions |-> EvalOfNode(emitExpressionEval, e)]
  /\ emitExpressionEval \in [Expressions -> Evals]
<1> DEFINE G == [f \in [Expressions -> Evals] |-> [e \in Expressions |-> EvalOfNode(f, e)]]
<1>1. G \in [[Expressions -> Evals] -> [Expressions -> Evals]]
  <2>1. ASSUME NEW f \in [Expressions -> Evals], NEW e \in Expressions PROVE EvalOfNode(f, e) \in Evals
    BY ExprParts, EvalOfNodeIsCode
  <2> QED BY <2>1
<1>2. ByParts(Evals, G)
  <2>1. ASSUME NEW e \in Expressions, NEW f \in [Expressions -> Evals], NEW g \in [Expressions -> Evals],
               \A p \in PartsOf(e) : f[p] = g[p]
        PROVE  G[f][e] = G[g][e]
    <3>1. EvalOfNode(f, e) = EvalOfNode(g, e)
      BY <2>1, EvalOfNodeIsByParts
    <3> QED BY <3>1
  <2> HIDE DEF G
  <2> QED BY <1>1, <2>1 DEF ByParts
<1>3. [context \in Contexts |-> [L \in Scopes |-> <<>>]] \in Evals
  BY EmptyIsCode DEF Evals
<1>4. PICK f \in [Expressions -> Evals] : f = G[f]
  <2> HIDE DEF G
  <2> QED BY <1>2, <1>3, ExprFixpoint
<1>5. f = [e \in Expressions |-> EvalOfNode(f, e)]
  BY <1>4
<1>6. emitExpressionEval = CHOOSE h : h = [e \in Expressions |-> EvalOfNode(h, e)]
  BY DEF emitExpressionEval, EvalOfNode
<1>7. emitExpressionEval = [e \in Expressions |-> EvalOfNode(emitExpressionEval, e)]
  BY <1>5, <1>6
<1>8. Expressions \subseteq {e \in Expressions : emitExpressionEval[e] \in Evals}
  <2> DEFINE T == {e \in Expressions : emitExpressionEval[e] \in Evals}
  <2>1. ASSUME NEW e \in Expressions, PartsOf(e) \subseteq T PROVE e \in T
    <3>1. EvalOfNode(emitExpressionEval, e) \in Evals
      BY <2>1, EvalOfNodeIsCode
    <3>2. emitExpressionEval[e] = EvalOfNode(emitExpressionEval, e)
      BY <1>7
    <3> QED BY <3>1, <3>2
  <2> HIDE DEF T
  <2>2. Expressions \subseteq T
    BY <2>1, ExprInduct
  <2> QED BY <2>2 DEF T
<1>9. emitExpressionEval \in [Expressions -> Evals]
  BY <1>7, <1>8
<1> QED BY <1>7, <1>9

(***************************************************************************)
(* The equations of Type and of Meaningful.                                *)
(***************************************************************************)
SaidTypes == {LeafType(x[1], x[2]) : x \in Expressions \X Scopes} \cup {"bool", "float"}

SaidOfNode(f, e) ==
  [L \in Scopes |->
     IF e[1] = "unary" THEN f[e[3]][L]
     ELSE IF e[1] = "bin" THEN IF e[2] \in Relational THEN "bool" ELSE Join(f[e[3]][L], f[e[4]][L])
     ELSE LeafType(e, L)]

LEMMA SaidOfNodeIsByParts ==
  ASSUME NEW e \in Expressions, NEW f, NEW g, \A p \in PartsOf(e) : f[p] = g[p]
  PROVE  SaidOfNode(f, e) = SaidOfNode(g, e)
BY ExprNodes DEF SaidOfNode

LEMMA SaidOfNodeIsType ==
  ASSUME NEW e \in Expressions, NEW f, \A p \in PartsOf(e) : f[p] \in [Scopes -> SaidTypes]
  PROVE  SaidOfNode(f, e) \in [Scopes -> SaidTypes]
<1>1. ASSUME NEW L \in Scopes PROVE SaidOfNode(f, e)[L] \in SaidTypes
  <2>1. CASE e[1] = "unary"
    BY <2>1, ExprNodes DEF SaidOfNode
  <2>2. CASE e[1] = "bin"
    <3>1. f[e[3]][L] \in SaidTypes /\ f[e[4]][L] \in SaidTypes
      BY <2>2, ExprNodes
    <3>2. "bool" \in SaidTypes /\ "float" \in SaidTypes
      BY DEF SaidTypes
    <3> QED BY <2>2, <3>1, <3>2 DEF SaidOfNode, Join
  <2>3. CASE e[1] # "unary" /\ e[1] # "bin"
    <3>1. <<e, L>> \in Expressions \X Scopes /\ <<e, L>>[1] = e /\ <<e, L>>[2] = L
      OBVIOUS
    <3>2. LeafType(e, L) \in SaidTypes
      BY <3>1 DEF SaidTypes
    <3> QED BY <2>3, <3>2 DEF SaidOfNode
  <2> QED BY <2>1, <2>2, <2>3
<1> QED BY <1>1 DEF SaidOfNode

LEMMA TypeEquation ==
  Type = [e \in Expressions |-> SaidOfNode(Type, e)]
<1> DEFINE V == [Scopes -> SaidTypes]
           G == [f \in [Expressions -> V] |-> [e \in Expressions |-> SaidOfNode(f, e)]]
<1>1. G \in [[Expressions -> V] -> [Expressions -> V]]
  <2>1. ASSUME NEW f \in [Expressions -> V], NEW e \in Expressions PROVE SaidOfNode(f, e) \in V
    BY ExprParts, SaidOfNodeIsType
  <2> QED BY <2>1
<1>2. ByParts(V, G)
  <2>1. ASSUME NEW e \in Expressions, NEW f \in [Expressions -> V], NEW g \in [Expressions -> V],
               \A p \in PartsOf(e) : f[p] = g[p]
        PROVE  G[f][e] = G[g][e]
    <3>1. SaidOfNode(f, e) = SaidOfNode(g, e)
      BY <2>1, SaidOfNodeIsByParts
    <3> QED BY <3>1
  <2> HIDE DEF G, V
  <2> QED BY <1>1, <2>1 DEF ByParts
<1>3. [L \in Scopes |-> "bool"] \in V
  BY DEF SaidTypes
<1>4. PICK f \in [Expressions -> V] : f = G[f]
  <2> HIDE DEF G, V
  <2> QED BY <1>2, <1>3, ExprFixpoint
<1>5. f = [e \in Expressions |-> SaidOfNode(f, e)]
  BY <1>4
<1>6. Type = CHOOSE h : h = [e \in Expressions |-> SaidOfNode(h, e)]
  BY DEF Type, SaidOfNode
<1> QED BY <1>5, <1>6

MeaningfulNode(f, e) ==
  {L \in Scopes :
     IF e[1] = "unary"
     THEN e[2] = "-" /\ L \in f[e[3]] /\ Type[e[3]][L] \in Numeric
     ELSE IF e[1] = "bin"
     THEN /\ e[2] \in {"+", "-", "*", "/", "<", ">", "==", "!="}
          /\ L \in f[e[3]] /\ Type[e[3]][L] \in Numeric
          /\ L \in f[e[4]] /\ Type[e[4]][L] \in Numeric
     ELSE LeafMeans(e, L)}

LEMMA MeaningfulNodeIsByParts ==
  ASSUME NEW e \in Expressions, NEW f, NEW g, \A p \in PartsOf(e) : f[p] = g[p]
  PROVE  MeaningfulNode(f, e) = MeaningfulNode(g, e)
BY ExprNodes DEF MeaningfulNode

LEMMA MeaningfulEquation ==
  Meaningful = [e \in Expressions |-> MeaningfulNode(Meaningful, e)]
<1> DEFINE V == SUBSET Scopes
           G == [f \in [Expressions -> V] |-> [e \in Expressions |-> MeaningfulNode(f, e)]]
<1>1. G \in [[Expressions -> V] -> [Expressions -> V]]
  <2>1. ASSUME NEW f \in [Expressions -> V], NEW e \in Expressions PROVE MeaningfulNode(f, e) \in V
    BY DEF MeaningfulNode
  <2> QED BY <2>1
<1>2. ByParts(V, G)
  <2>1. ASSUME NEW e \in Expressions, NEW f \in [Expressions -> V], NEW g \in [Expressions -> V],
               \A p \in PartsOf(e) : f[p] = g[p]
        PROVE  G[f][e] = G[g][e]
    <3>1. MeaningfulNode(f, e) = MeaningfulNode(g, e)
      BY <2>1, MeaningfulNodeIsByParts
    <3> QED BY <3>1
  <2> HIDE DEF G, V
  <2> QED BY <1>1, <2>1 DEF ByParts
<1>3. {} \in V
  OBVIOUS
<1>4. PICK f \in [Expressions -> V] : f = G[f]
  <2> HIDE DEF G, V
  <2> QED BY <1>2, <1>3, ExprFixpoint
<1>5. f = [e \in Expressions |-> MeaningfulNode(f, e)]
  BY <1>4
<1>6. Meaningful = CHOOSE h : h = [e \in Expressions |-> MeaningfulNode(h, e)]
  BY DEF Meaningful, MeaningfulNode
<1> QED BY <1>5, <1>6

(***************************************************************************)
(* The compiler resolves the type the source says, for what has a meaning. *)
(***************************************************************************)
LEMMA LeafTypesAgree ==
  ASSUME NEW e \in Expressions, NEW L
  PROVE  operandType(e, L) = LeafType(e, L)
<1>1. \A x : getVariable(x, L).type = TypeOf(x, L)
  BY DEF getVariable, TypeOf, Places, Max
<1> QED BY <1>1 DEF operandType, LeafType

LEMMA TypesAgree ==
  ASSUME NEW e \in Expressions, NEW L \in Meaningful[e]
  PROVE  resolveQualifiedType[e][L] = Type[e][L] /\ L \in Scopes
<1> DEFINE T == {x \in Expressions : \A M \in Meaningful[x] :
                   M \in Scopes /\ resolveQualifiedType[x][M] = Type[x][M]}
<1>1. ASSUME NEW x \in Expressions, PartsOf(x) \subseteq T PROVE x \in T
  <2>1. SUFFICES ASSUME NEW M \in Meaningful[x]
                 PROVE  M \in Scopes /\ resolveQualifiedType[x][M] = Type[x][M]
    OBVIOUS
  <2>2. M \in MeaningfulNode(Meaningful, x)
    BY MeaningfulEquation
  <2>3. M \in Scopes
    BY <2>2 DEF MeaningfulNode
  <2>4. resolveQualifiedType[x][M] = TypeOfNode(resolveQualifiedType, x)[M]
        /\ Type[x][M] = SaidOfNode(Type, x)[M]
    BY ResolveEquation, TypeEquation
  <2>5. CASE x[1] = "unary"
    <3>1. x[3] \in T /\ M \in Meaningful[x[3]]
      BY <1>1, <2>2, <2>5, ExprNodes DEF MeaningfulNode
    <3> QED BY <2>3, <2>4, <2>5, <3>1 DEF TypeOfNode, SaidOfNode
  <2>6. CASE x[1] = "bin"
    <3>1. x[3] \in T /\ M \in Meaningful[x[3]] /\ x[4] \in T /\ M \in Meaningful[x[4]]
      BY <1>1, <2>2, <2>6, ExprNodes DEF MeaningfulNode
    <3>2. Type[x[3]][M] \in Numeric /\ Type[x[4]][M] \in Numeric
      BY <2>2, <2>6 DEF MeaningfulNode
    <3>3. resolvePromotedType(Type[x[3]][M], Type[x[4]][M]) = Join(Type[x[3]][M], Type[x[4]][M])
      BY <3>2 DEF resolvePromotedType, Join, Numeric
    <3> QED BY <2>3, <2>4, <2>6, <3>1, <3>3 DEF TypeOfNode, SaidOfNode, isRelational, Relational
  <2>7. CASE x[1] # "unary" /\ x[1] # "bin"
    BY <2>3, <2>4, <2>7, LeafTypesAgree DEF TypeOfNode, SaidOfNode
  <2> QED BY <2>3, <2>5, <2>6, <2>7
<1> HIDE DEF T
<1>2. Expressions \subseteq T
  BY <1>1, ExprInduct
<1> QED BY <1>2 DEF T

(***************************************************************************)
(* The equation of Value.  No set is known to hold the values, so the      *)
(* functions that are right up to a depth are put together here.           *)
(***************************************************************************)
ValueOfNode(f, e) ==
  [L \in Scopes |->
     IF e[1] = "unary" THEN Of(e[2], Type[e[3]][L], f[e[3]][L])
     ELSE IF e[1] = "bin"
          THEN BinaryValue(e[2], f[e[3]][L], Type[e[3]][L], f[e[4]][L], Type[e[4]][L])
     ELSE LeafValue(e, L)]

RightTo(n, f) ==
  /\ f = [e \in Expressions |-> f[e]]
  /\ \A e \in Expressions : ExprDepth[e] < n => f[e] = ValueOfNode(f, e)

LEMMA ValueOfNodeIsByParts ==
  ASSUME NEW e \in Expressions, NEW f, NEW g, \A p \in PartsOf(e) : f[p] = g[p]
  PROVE  ValueOfNode(f, e) = ValueOfNode(g, e)
BY ExprNodes DEF ValueOfNode

LEMMA RightToAgree ==
  ASSUME NEW n \in Nat, NEW m \in Nat, NEW f, NEW g, RightTo(n, f), RightTo(m, g)
  PROVE  \A e \in Expressions : ExprDepth[e] < n /\ ExprDepth[e] < m => f[e] = g[e]
<1> DEFINE T == {e \in Expressions : ExprDepth[e] < n /\ ExprDepth[e] < m => f[e] = g[e]}
<1>0. ExprDepth \in [Expressions -> Nat]
  BY ExpressionAssumption
<1>1. ASSUME NEW e \in Expressions, PartsOf(e) \subseteq T PROVE e \in T
  <2>1. SUFFICES ASSUME ExprDepth[e] < n, ExprDepth[e] < m PROVE f[e] = g[e]
    OBVIOUS
  <2>2. ASSUME NEW p \in PartsOf(e) PROVE f[p] = g[p]
    <3>1. p \in Expressions /\ ExprDepth[p] < ExprDepth[e] /\ p \in T
      BY <1>1, ExprParts
    <3>2. ExprDepth[p] \in Nat /\ ExprDepth[e] \in Nat
      BY <1>0, <3>1
    <3> QED BY <2>1, <3>1, <3>2
  <2>3. ValueOfNode(f, e) = ValueOfNode(g, e)
    BY <2>2, ValueOfNodeIsByParts
  <2> QED BY <2>1, <2>3 DEF RightTo
<1> HIDE DEF T
<1>2. Expressions \subseteq T
  BY <1>1, ExprInduct
<1> QED BY <1>2 DEF T

LEMMA RightToExist == \A n \in Nat : \E f : RightTo(n, f)
<1> DEFINE T == {n \in Nat : \E f : RightTo(n, f)}
           id == [n \in Nat |-> n]
<1>0. ExprDepth \in [Expressions -> Nat]
  BY ExpressionAssumption
<1>1. ASSUME NEW n \in Nat, \A k \in Nat : id[k] < id[n] => k \in T PROVE n \in T
  <2>1. CASE n = 0
    <3>1. RightTo(0, [e \in Expressions |-> 0])
      BY <1>0 DEF RightTo
    <3> QED BY <2>1, <3>1
  <2>2. CASE n # 0
    <3>1. n - 1 \in T
      <4>1. n - 1 \in Nat /\ id[n - 1] < id[n]
        BY <2>2
      <4> QED BY <1>1, <4>1
    <3>2. PICK f : RightTo(n - 1, f)
      BY <3>1
    <3>3. PICK g : g = [e \in Expressions |-> ValueOfNode(f, e)]
      OBVIOUS
    <3>4. ASSUME NEW e \in Expressions, ExprDepth[e] < n PROVE g[e] = ValueOfNode(g, e)
      <4>1. ASSUME NEW p \in PartsOf(e) PROVE f[p] = g[p]
        <5>1. p \in Expressions /\ ExprDepth[p] < ExprDepth[e]
          BY ExprParts
        <5>2. ExprDepth[p] \in Nat /\ ExprDepth[e] \in Nat /\ ExprDepth[p] < n - 1
          BY <1>0, <3>4, <5>1
        <5> QED BY <3>2, <3>3, <5>1, <5>2 DEF RightTo
      <4>2. ValueOfNode(f, e) = ValueOfNode(g, e)
        BY <4>1, ValueOfNodeIsByParts
      <4> QED BY <3>3, <4>2
    <3>5. g = [e \in Expressions |-> g[e]]
      BY <3>3
    <3>6. RightTo(n, g)
      BY <3>4, <3>5 DEF RightTo
    <3> QED BY <3>6
  <2> QED BY <2>1, <2>2
<1>2. id \in [Nat -> Nat]
  OBVIOUS
<1>3. Nat \subseteq T
  <2> HIDE DEF T, id
  <2> QED BY <1>1, <1>2, Induct
<1> QED BY <1>3

LEMMA ValueEquation ==
  Value = [e \in Expressions |-> ValueOfNode(Value, e)]
<1> DEFINE F(n) == CHOOSE f : RightTo(n, f)
           D(e) == ExprDepth[e] + 1
<1>0. \A e \in Expressions : ExprDepth[e] \in Nat /\ D(e) \in Nat /\ ExprDepth[e] < D(e)
  BY ExpressionAssumption
<1>1. \A n \in Nat : RightTo(n, F(n))
  BY RightToExist
<1> HIDE DEF F, D
<1>2. PICK h : h = [e \in Expressions |-> F(D(e))[e]]
  OBVIOUS
<1>3. ASSUME NEW e \in Expressions PROVE h[e] = ValueOfNode(h, e)
  <2>1. PICK f : f = F(D(e))
    OBVIOUS
  <2>2. RightTo(D(e), f)
    BY <1>0, <1>1, <2>1
  <2>3. ASSUME NEW p \in PartsOf(e) PROVE f[p] = h[p]
    <3>1. p \in Expressions /\ ExprDepth[p] < ExprDepth[e]
      BY ExprParts
    <3>2. PICK g : g = F(D(p))
      OBVIOUS
    <3>3. RightTo(D(p), g)
      BY <1>0, <1>1, <3>1, <3>2
    <3>4. D(e) \in Nat /\ D(p) \in Nat /\ ExprDepth[p] < D(p) /\ ExprDepth[p] < D(e)
      BY <1>0, <3>1
    <3>5. f[p] = g[p]
      BY <2>2, <3>1, <3>3, <3>4, RightToAgree
    <3> QED BY <1>2, <3>1, <3>2, <3>5
  <2>4. ValueOfNode(f, e) = ValueOfNode(h, e)
    BY <2>3, ValueOfNodeIsByParts
  <2>5. f[e] = ValueOfNode(f, e)
    BY <1>0, <2>2 DEF RightTo
  <2> QED BY <1>2, <2>1, <2>4, <2>5
<1>4. h = [e \in Expressions |-> ValueOfNode(h, e)]
  BY <1>2, <1>3
<1>5. Value = CHOOSE g : g = [e \in Expressions |-> ValueOfNode(g, e)]
  BY DEF Value, ValueOfNode
<1> QED BY <1>4, <1>5

(***************************************************************************)
(* 4  Certificates.  A piece of code has one from A to B when every        *)
(* position of it has a point, the stack and the statement that is to come *)
(* next, such that the instruction there, executed at that point, leads to *)
(* the point where the machine goes on.  E is the order of the statements, *)
(* X what they may do.                                                     *)
(***************************************************************************)
Point(stk, next) == [stack |-> stk, next |-> next]
IsSeq(s) == \E S : s \in Seq(S)
TopOf(s) == s[Len(s)]
BelowOf(s) == s[Len(s) - 1]
Less(s, n) == SubSeq(s, 1, Len(s) - n)

LEMMA PushIsSeq ==
  ASSUME NEW s, IsSeq(s), NEW v
  PROVE  /\ IsSeq(Append(s, v)) /\ Len(Append(s, v)) = Len(s) + 1 /\ Len(s) \in Nat
         /\ TopOf(Append(s, v)) = v
         /\ Less(Append(s, v), 1) = s
         /\ \A n \in 1 .. Len(s) : Append(s, v)[n] = s[n]
<1>1. PICK S : s \in Seq(S)
  BY DEF IsSeq
<1> DEFINE V == S \cup {v}
<1>2. s \in Seq(V)
  BY <1>1
<1>3. v \in V
  OBVIOUS
<1> HIDE DEF V
<1>4. Append(s, v) \in Seq(V) /\ Len(Append(s, v)) = Len(s) + 1 /\ Len(s) \in Nat
  BY <1>2, <1>3
<1>5. Append(s, v)[Len(s) + 1] = v /\ \A n \in 1 .. Len(s) : Append(s, v)[n] = s[n]
  BY <1>2, <1>3
<1>6. SubSeq(Append(s, v), 1, Len(s)) = s
  BY <1>2, <1>3, <1>4, <1>5
<1> QED BY <1>4, <1>5, <1>6 DEF IsSeq, TopOf, Less

LEMMA PushTwice ==
  ASSUME NEW s, IsSeq(s), NEW v, NEW w
  PROVE  /\ IsSeq(Append(Append(s, v), w))
         /\ Len(Append(Append(s, v), w)) = Len(s) + 2 /\ Len(s) \in Nat
         /\ TopOf(Append(Append(s, v), w)) = w
         /\ BelowOf(Append(Append(s, v), w)) = v
         /\ Less(Append(Append(s, v), w), 2) = s
<1>1. PICK S : s \in Seq(S)
  BY DEF IsSeq
<1> DEFINE V == S \cup {v, w}
<1>2. s \in Seq(V)
  BY <1>1
<1>3. v \in V /\ w \in V
  OBVIOUS
<1> HIDE DEF V
<1>4. PICK t : t = Append(s, v)
  OBVIOUS
<1>5. t \in Seq(V) /\ Len(t) = Len(s) + 1 /\ Len(s) \in Nat /\ t[Len(s) + 1] = v
      /\ \A n \in 1 .. Len(s) : t[n] = s[n]
  BY <1>2, <1>3, <1>4
<1>6. PICK u : u = Append(t, w)
  OBVIOUS
<1>7. u \in Seq(V) /\ Len(u) = Len(s) + 2 /\ u[Len(s) + 2] = w /\ \A n \in 1 .. Len(t) : u[n] = t[n]
  BY <1>3, <1>5, <1>6
<1>8. u[Len(s) + 1] = v
  BY <1>5, <1>7
<1>9. SubSeq(u, 1, Len(s)) = s
  <2>1. SubSeq(u, 1, Len(s)) \in Seq(V) /\ Len(SubSeq(u, 1, Len(s))) = Len(s)
    BY <1>2, <1>5, <1>7
  <2>2. \A n \in 1 .. Len(s) : SubSeq(u, 1, Len(s))[n] = s[n]
    BY <1>2, <1>5, <1>7
  <2> QED BY <1>2, <2>1, <2>2
<1> QED BY <1>4, <1>5, <1>6, <1>7, <1>8, <1>9 DEF IsSeq, TopOf, BelowOf, Less

(***************************************************************************)
(* What the instructions that only compute pop, and what they leave.       *)
(***************************************************************************)
Computing ==
  {"LOAD", "LOADADDR", "LOADK", "UNARYSUB", "CONV"} \cup DOMAIN Commuting \cup DOMAIN Sided

Pops(i) ==
  IF i.op = "LOADK" \/ (i.op \in {"LOAD", "LOADADDR"} /\ i.a = "EBP") THEN 0
  ELSE IF i.op \in {"LOAD", "LOADADDR", "UNARYSUB", "CONV"} THEN 1 ELSE 2

LoadResult(i, s) ==
  IF i.a = "EBP" THEN Leaf(i.b, Reads)
  ELSE IF i.kind = "ptr" THEN Uninitialised ELSE Of(i.b, "field", TopOf(s))
LoadAddrResult(i, s) ==
  IF i.a = "EBP" THEN Address(Leaf(i.b, Writes)) ELSE Address(Of(i.b, "field", TopOf(s)))
CommutingResult(i, s) ==
  LET b == IF i.op \in {"AND", "OR"} /\ i.a = "int32" THEN TopOf(s) ELSE BelowOf(s)
  IN Computed(i.a, TopOf(s), AsFloat(i.op, i.a, Apply(Commuting[i.op], i.a, b, TopOf(s))))
SidedResult(i, s) ==
  Computed(i.a, BelowOf(s), AsFloat(i.op, i.a, Apply(Sided[i.op], i.a, BelowOf(s), TopOf(s))))

Result(i, s) ==
  IF i.op = "LOAD" THEN LoadResult(i, s)
  ELSE IF i.op = "LOADADDR" THEN LoadAddrResult(i, s)
  ELSE IF i.op = "LOADK" THEN Leaf("literal", i.a)
  ELSE IF i.op = "UNARYSUB" THEN Computed(i.a, TopOf(s), Of("-", i.a, TopOf(s)))
  ELSE IF i.op = "CONV" THEN Converted(TopOf(s), i.a, i.b)
  ELSE IF i.op \in DOMAIN Commuting THEN CommutingResult(i, s)
  ELSE SidedResult(i, s)

Computes(i, p, q) ==
  /\ i.op \in {"LOAD", "LOADADDR"} => i.a \in {"EBP", "THIS"}
  /\ Len(p.stack) >= Pops(i)
  /\ q = Point(Append(Less(p.stack, Pops(i)), Result(i, p.stack)), p.next)

(* The instructions that complete a statement, or declare or release.      *)
Assigns(E, X, i, p, q, pops, target, value) ==
  /\ Len(p.stack) >= pops
  /\ i.metadata = p.next
  /\ Effect(p.next, "done", target, value) \in X
  /\ <<p.next, "done", q.next>> \in E
Sets(E, X, i, p, q) ==
  /\ Assigns(E, X, i, p, q, 2, Pointee(BelowOf(p.stack)), TopOf(p.stack))
  /\ q.stack = Less(p.stack, 2)
Increments(E, X, i, p, q) ==
  /\ i.a = "int32"
  /\ Assigns(E, X, i, p, q, 1, Pointee(TopOf(p.stack)), Leaf("increment", "int32"))
  /\ q.stack = Less(p.stack, 1)
Declares(E, X, i, p, q) ==
  /\ i.a = "down"
  /\ q.stack = Append(p.stack, Slot(i.b))
  /\ IF i.metadata = "" THEN q.next = p.next
     ELSE Assigns(E, X, i, p, q, 0, Leaf(i.b, Writes), Nowhere)
Releases(i, p, q) ==
  /\ i.a = "up"
  /\ Len(p.stack) >= 1 /\ TopOf(p.stack) = Slot(i.b)
  /\ q = Point(Less(p.stack, 1), p.next)
Traces(i, p, q) ==
  /\ i.a # "OP_SET" => \A n \in DOMAIN p.stack : p.stack[n][2] = "slot"
  /\ q = p

Straight(E, X, i, p, q) ==
  \/ i.op \in Computing /\ Computes(i, p, q)
  \/ i.op = "SET" /\ Sets(E, X, i, p, q)
  \/ i.op = "INCREMENT" /\ Increments(E, X, i, p, q)
  \/ i.op = "MOV" /\ (Declares(E, X, i, p, q) \/ Releases(i, p, q))
  \/ i.op = "DEBUG" /\ Traces(i, p, q)

(* The instructions that go elsewhere; len is the length of the code.      *)
TestsTo(E, X, i, p, t, f) ==
  LET v == Tested(TopOf(p.stack))
  IN /\ Len(p.stack) >= 1
     /\ i.metadata = p.next
     /\ {Effect(p.next, "true", Nowhere, v), Effect(p.next, "false", Nowhere, v)} \subseteq X
     /\ {<<p.next, "true", t>>, <<p.next, "false", f>>} \subseteq E
Within(len, n) == n \in 1 .. len + 1
Branches(E, X, i, m, n, len) ==
  /\ i.a \in Int /\ Within(len, n + i.a + 1)
  /\ \E t, f : /\ TestsTo(E, X, i, m[n], t, f)
               /\ m[n + 1] = Point(Less(m[n].stack, 1), t)
               /\ m[n + i.a + 1] = Point(Less(m[n].stack, 1), f)
Jumps(i, m, n, len) ==
  /\ i.a \in Int /\ Within(len, n + i.a + 1)
  /\ m[n + i.a + 1] = m[n]

Local(E, X, i, m, n, len) ==
  /\ IsSeq(m[n].stack)
  /\ IF i.op = "JZ" THEN Branches(E, X, i, m, n, len)
     ELSE IF i.op = "JMP" THEN Jumps(i, m, n, len)
     ELSE Straight(E, X, i, m[n], m[n + 1])

Certifies(E, X, c, m, A, B) ==
  /\ m[1] = A
  /\ m[Len(c) + 1] = B
  /\ \A n \in 1 .. Len(c) : Local(E, X, c[n], m, n, Len(c))

Runs(E, X, c, A, B) == \E m : Certifies(E, X, c, m, A, B)

(* A certificate goes where its code goes.                                 *)
LEMMA LocalShift ==
  ASSUME NEW E, NEW X, NEW i, NEW m, NEW M, NEW len \in Nat, NEW Len2 \in Nat, NEW k \in Nat,
         len + k <= Len2, NEW n \in 1 .. len, Local(E, X, i, m, n, len),
         \A j \in 1 .. len + 1 : M[j + k] = m[j]
  PROVE  Local(E, X, i, M, n + k, Len2)
<1>1. n \in 1 .. len + 1 /\ n + 1 \in 1 .. len + 1 /\ (n + 1) + k = (n + k) + 1
  OBVIOUS
<1>2. M[n + k] = m[n] /\ M[(n + k) + 1] = m[n + 1]
  BY <1>1
<1>3. IsSeq(M[n + k].stack)
  BY <1>2 DEF Local
<1>4. CASE i.op = "JZ"
  <2>1. i.a \in Int /\ n + i.a + 1 \in 1 .. len + 1
    BY <1>4 DEF Local, Branches, Within
  <2>2. (n + k) + i.a + 1 = (n + i.a + 1) + k /\ (n + k) + i.a + 1 \in 1 .. Len2 + 1
    BY <2>1
  <2>3. M[(n + k) + i.a + 1] = m[n + i.a + 1]
    BY <2>1, <2>2
  <2>4. Branches(E, X, i, M, n + k, Len2)
    BY <1>2, <1>4, <2>1, <2>2, <2>3 DEF Local, Branches, Within
  <2> QED BY <1>3, <1>4, <2>4 DEF Local
<1>5. CASE i.op = "JMP"
  <2>1. i.a \in Int /\ n + i.a + 1 \in 1 .. len + 1
    BY <1>5 DEF Local, Jumps, Within
  <2>2. (n + k) + i.a + 1 = (n + i.a + 1) + k /\ (n + k) + i.a + 1 \in 1 .. Len2 + 1
    BY <2>1
  <2>3. M[(n + k) + i.a + 1] = m[n + i.a + 1]
    BY <2>1, <2>2
  <2>4. Jumps(i, M, n + k, Len2)
    BY <1>2, <1>5, <2>1, <2>2, <2>3 DEF Local, Jumps, Within
  <2> QED BY <1>3, <1>5, <2>4 DEF Local
<1>6. CASE i.op # "JZ" /\ i.op # "JMP"
  BY <1>2, <1>3, <1>6 DEF Local
<1> QED BY <1>4, <1>5, <1>6

LEMMA RunsEmpty ==
  ASSUME NEW E, NEW X, NEW A
  PROVE  Runs(E, X, <<>>, A, A)
<1>1. PICK m : m = [n \in {1} |-> A]
  OBVIOUS
<1>2. Certifies(E, X, <<>>, m, A, A)
  BY <1>1 DEF Certifies
<1> QED BY <1>2 DEF Runs

LEMMA RunsStep ==
  ASSUME NEW E, NEW X, NEW A, NEW B, NEW i \in Instructions, i.op # "JZ", i.op # "JMP",
         IsSeq(A.stack), Straight(E, X, i, A, B)
  PROVE  Runs(E, X, <<i>>, A, B)
<1>1. PICK m : m = [n \in 1 .. 2 |-> IF n = 1 THEN A ELSE B]
  OBVIOUS
<1>2. m[1] = A /\ m[1 + 1] = B
  BY <1>1
<1>3. Local(E, X, i, m, 1, 1)
  BY <1>2 DEF Local
<1>4. Len(<<i>>) = 1 /\ <<i>>[1] = i
  BY Single
<1>5. Certifies(E, X, <<i>>, m, A, B)
  <2>1. \A n \in 1 .. 1 : n = 1
    OBVIOUS
  <2> QED BY <1>2, <1>3, <1>4, <2>1 DEF Certifies
<1> QED BY <1>5 DEF Runs

LEMMA RunsConcat ==
  ASSUME NEW E, NEW X, NEW c \in Code, NEW d \in Code, NEW A, NEW B, NEW C,
         Runs(E, X, c, A, B), Runs(E, X, d, B, C)
  PROVE  Runs(E, X, c \o d, A, C)
<1>1. PICK m : Certifies(E, X, c, m, A, B)
  BY DEF Runs
<1>2. PICK k : Certifies(E, X, d, k, B, C)
  BY DEF Runs
<1>3. PICK x \in Nat : x = Len(c)
  BY DEF Code
<1>4. PICK y \in Nat : y = Len(d)
  BY DEF Code
<1>5. Len(c \o d) = x + y /\ (\A n \in 1 .. x : (c \o d)[n] = c[n]) /\ \A n \in 1 .. y : (c \o d)[n + x] = d[n]
  BY <1>3, <1>4 DEF Code
<1>6. PICK M : M = [n \in 1 .. x + y + 1 |-> IF n <= x THEN m[n] ELSE k[n - x]]
  OBVIOUS
<1>7. m[1] = A /\ m[x + 1] = B /\ k[1] = B /\ k[y + 1] = C
  BY <1>1, <1>2, <1>3, <1>4 DEF Certifies
<1>8. ASSUME NEW j \in 1 .. x + 1 PROVE M[j + 0] = m[j]
  <2>1. CASE j <= x
    BY <1>6, <2>1
  <2>2. CASE j = x + 1
    <3>1. M[x + 1] = k[(x + 1) - x] /\ (x + 1) - x = 1
      BY <1>6
    <3> QED BY <1>7, <2>2, <3>1
  <2> QED BY <2>1, <2>2
<1>9. ASSUME NEW j \in 1 .. y + 1 PROVE M[j + x] = k[j]
  <2>1. j + x \in 1 .. x + y + 1 /\ ~ (j + x <= x) /\ (j + x) - x = j
    OBVIOUS
  <2> QED BY <1>6, <2>1
<1>10. ASSUME NEW n \in 1 .. x + y PROVE Local(E, X, (c \o d)[n], M, n, x + y)
  <2>1. CASE n <= x
    <3>1. n \in 1 .. x /\ Local(E, X, c[n], m, n, x)
      BY <1>1, <1>3, <2>1 DEF Certifies
    <3>2. Local(E, X, c[n], M, n + 0, x + y)
      <4> HIDE DEF Local
      <4>1. x + 0 <= x + y
        OBVIOUS
      <4> QED BY <1>8, <3>1, <4>1, LocalShift
    <3> QED BY <1>5, <3>1, <3>2
  <2>2. CASE n > x
    <3>1. PICK j \in 1 .. y : j + x = n
      <4>1. n - x \in 1 .. y /\ (n - x) + x = n
        BY <2>2
      <4> QED BY <4>1
    <3>2. Local(E, X, d[j], k, j, y)
      BY <1>2, <1>4, <3>1 DEF Certifies
    <3>3. Local(E, X, d[j], M, j + x, x + y)
      <4>1. y + x <= x + y
        OBVIOUS
      <4> QED BY <1>9, <3>1, <3>2, <4>1, LocalShift
    <3> QED BY <1>5, <3>1, <3>3
  <2>3. n <= x \/ n > x
    OBVIOUS
  <2> QED BY <2>1, <2>2, <2>3
<1>11. M[1] = A
  <2>1. 1 \in 1 .. x + 1 /\ 1 + 0 = 1
    OBVIOUS
  <2> QED BY <1>7, <1>8, <2>1
<1>12. M[(x + y) + 1] = C
  <2>1. y + 1 \in 1 .. y + 1 /\ (y + 1) + x = (x + y) + 1
    OBVIOUS
  <2> QED BY <1>7, <1>9, <2>1
<1>13. Certifies(E, X, c \o d, M, A, C)
  BY <1>5, <1>10, <1>11, <1>12 DEF Certifies
<1> QED BY <1>13 DEF Runs

(* A test, with the code it jumps over.                                    *)
LEMMA RunsBranch ==
  ASSUME NEW E, NEW X, NEW i \in Instructions, NEW c \in Code, NEW A, NEW t, NEW f,
         i.op = "JZ", i.a = Len(c), IsSeq(A.stack), TestsTo(E, X, i, A, t, f),
         Runs(E, X, c, Point(Less(A.stack, 1), t), Point(Less(A.stack, 1), f))
  PROVE  Runs(E, X, <<i>> \o c, A, Point(Less(A.stack, 1), f))
<1> DEFINE B == Point(Less(A.stack, 1), t)
           C == Point(Less(A.stack, 1), f)
<1>0. PICK k : Certifies(E, X, c, k, B, C)
  BY DEF Runs
<1>1. PICK y \in Nat : y = Len(c)
  BY DEF Code
<1>2. /\ Len(<<i>> \o c) = y + 1 /\ (<<i>> \o c)[1] = i
      /\ \A n \in 1 .. y : (<<i>> \o c)[n + 1] = c[n]
  <2>1. <<i>> \in Seq(Instructions) /\ Len(<<i>>) = 1 /\ <<i>>[1] = i
    BY Single
  <2> QED BY <1>1, <2>1 DEF Code
<1>3. PICK M : M = [n \in 1 .. y + 2 |-> IF n = 1 THEN A ELSE k[n - 1]]
  OBVIOUS
<1>4. k[1] = B /\ k[y + 1] = C
  BY <1>0, <1>1 DEF Certifies
<1>5. M[1] = A
  BY <1>3
<1>6. ASSUME NEW j \in 1 .. y + 1 PROVE M[j + 1] = k[j]
  <2>1. j + 1 \in 1 .. y + 2 /\ j + 1 # 1 /\ (j + 1) - 1 = j
    OBVIOUS
  <2> QED BY <1>3, <2>1
<1>7. M[1 + 1] = B /\ M[1 + i.a + 1] = C
  <2>1. 1 \in 1 .. y + 1 /\ y + 1 \in 1 .. y + 1 /\ 1 + i.a + 1 = (y + 1) + 1
    BY <1>1
  <2> QED BY <1>4, <1>6, <2>1
<1>8. Local(E, X, i, M, 1, y + 1)
  <2>1. i.a \in Int /\ 1 + i.a + 1 \in 1 .. (y + 1) + 1
    BY <1>1
  <2>2. Branches(E, X, i, M, 1, y + 1)
    BY <1>5, <1>7, <2>1 DEF Branches, Within
  <2> QED BY <1>5, <2>2 DEF Local
<1>9. ASSUME NEW n \in 1 .. y + 1 PROVE Local(E, X, (<<i>> \o c)[n], M, n, y + 1)
  <2>1. CASE n = 1
    BY <1>2, <1>8, <2>1
  <2>2. CASE n # 1
    <3>1. PICK j \in 1 .. y : j + 1 = n
      <4>1. n - 1 \in 1 .. y /\ (n - 1) + 1 = n
        BY <2>2
      <4> QED BY <4>1
    <3>2. Local(E, X, c[j], k, j, y)
      BY <1>0, <1>1, <3>1 DEF Certifies
    <3>3. Local(E, X, c[j], M, j + 1, y + 1)
      <4>1. y + 1 <= y + 1 /\ 1 \in Nat /\ y + 1 \in Nat
        OBVIOUS
      <4> QED BY <1>6, <3>1, <3>2, <4>1, LocalShift
    <3> QED BY <1>2, <3>1, <3>3
  <2> QED BY <2>1, <2>2
<1>10. M[(y + 1) + 1] = C
  <2>1. y + 1 \in 1 .. y + 1
    OBVIOUS
  <2> QED BY <1>4, <1>6, <2>1
<1>11. Certifies(E, X, <<i>> \o c, M, A, C)
  BY <1>2, <1>5, <1>9, <1>10 DEF Certifies
<1> QED BY <1>11 DEF Runs

LEMMA ConcatElements ==
  ASSUME NEW S, NEW c \in Seq(S), NEW d \in Seq(S), NEW x, x = Len(c)
  PROVE  /\ c \o d \in Seq(S) /\ x \in Nat /\ Len(c \o d) = x + Len(d)
         /\ \A n \in 1 .. x : (c \o d)[n] = c[n]
         /\ \A n \in 1 .. Len(d) : (c \o d)[n + x] = d[n]
OBVIOUS

(* A loop: the test, the jump over the body, and the jump back.            *)
LEMMA RunsLoop ==
  ASSUME NEW E, NEW X, NEW c \in Code, NEW i \in Instructions, NEW d \in Code, NEW j \in Instructions,
         NEW A, NEW B, NEW t, NEW f,
         i.op = "JZ", i.a = Len(d) + 1, IsSeq(B.stack), TestsTo(E, X, i, B, t, f),
         j.op = "JMP", j.a = -(Len(c) + 1 + Len(d) + 1), IsSeq(A.stack),
         Runs(E, X, c, A, B), Runs(E, X, d, Point(Less(B.stack, 1), t), A)
  PROVE  Runs(E, X, c \o <<i>> \o d \o <<j>>, A, Point(Less(B.stack, 1), f))
<1> DEFINE P == Point(Less(B.stack, 1), t)
           Q == Point(Less(B.stack, 1), f)
           all == c \o <<i>> \o d \o <<j>>
<1>1. PICK x \in Nat : x = Len(c)
  BY DEF Code
<1>2. PICK y \in Nat : y = Len(d)
  BY DEF Code
<1>3. PICK m : Certifies(E, X, c, m, A, B)
  BY DEF Runs
<1>4. PICK k : Certifies(E, X, d, k, P, A)
  BY DEF Runs
<1>5. /\ Len(all) = x + y + 2
      /\ \A n \in 1 .. x : all[n] = c[n]
      /\ all[x + 1] = i
      /\ \A n \in 1 .. y : all[n + (x + 1)] = d[n]
      /\ all[x + y + 2] = j
  <2>1. /\ <<i>> \in Seq(Instructions) /\ Len(<<i>>) = 1 /\ <<i>>[1] = i
        /\ <<j>> \in Seq(Instructions) /\ Len(<<j>>) = 1 /\ <<j>>[1] = j
    BY Single
  <2>2. PICK u : u = c \o <<i>>
    OBVIOUS
  <2>3. /\ u \in Seq(Instructions) /\ Len(u) = x + 1 /\ u[x + 1] = i
        /\ \A n \in 1 .. x : u[n] = c[n]
    BY <1>1, <2>1, <2>2 DEF Code
  <2>4. PICK v : v = u \o d
    OBVIOUS
  <2>5. /\ v \in Seq(Instructions) /\ Len(v) = x + 1 + y
        /\ \A n \in 1 .. x + 1 : v[n] = u[n]
        /\ \A n \in 1 .. y : v[n + (x + 1)] = d[n]
    <3>1. d \in Seq(Instructions) /\ x + 1 = Len(u)
      BY <2>3 DEF Code
    <3>2. PICK z : z = x + 1
      OBVIOUS
    <3>3. /\ v \in Seq(Instructions) /\ Len(v) = z + Len(d)
          /\ \A n \in 1 .. z : v[n] = u[n]
          /\ \A n \in 1 .. Len(d) : v[n + z] = d[n]
      <4>1. u \in Seq(Instructions) /\ z = Len(u)
        BY <2>3, <3>2
      <4>2. /\ u \o d \in Seq(Instructions) /\ Len(u \o d) = z + Len(d)
            /\ \A n \in 1 .. z : (u \o d)[n] = u[n]
            /\ \A n \in 1 .. Len(d) : (u \o d)[n + z] = d[n]
        BY <3>1, <4>1, ConcatElements
      <4> QED BY <2>4, <4>2
    <3> QED BY <1>2, <3>2, <3>3
  <2>6. PICK w : w = v \o <<j>>
    OBVIOUS
  <2>7. /\ Len(w) = x + y + 2 /\ w[x + y + 2] = j
        /\ \A n \in 1 .. x + 1 + y : w[n] = v[n]
    <3>1. /\ Len(w) = x + 1 + y + 1 /\ w[1 + (x + 1 + y)] = <<j>>[1]
          /\ \A n \in 1 .. x + 1 + y : w[n] = v[n]
      BY <2>1, <2>5, <2>6, ConcatElements
    <3>2. 1 + (x + 1 + y) = x + y + 2 /\ x + 1 + y + 1 = x + y + 2
      OBVIOUS
    <3> QED BY <2>1, <3>1, <3>2
  <2>8. \A n \in 1 .. x : w[n] = c[n]
    BY <2>3, <2>5, <2>7
  <2>9. w[x + 1] = i
    BY <2>3, <2>5, <2>7
  <2>10. ASSUME NEW n \in 1 .. y PROVE w[n + (x + 1)] = d[n]
    <3>1. n + (x + 1) \in 1 .. x + 1 + y
      OBVIOUS
    <3> QED BY <2>5, <2>7, <3>1
  <2> QED BY <2>2, <2>4, <2>6, <2>7, <2>8, <2>9, <2>10
<1> HIDE DEF all
<1>6. PICK M : M = [n \in 1 .. x + y + 3 |->
                      IF n <= x + 1 THEN m[n] ELSE IF n <= x + y + 2 THEN k[n - (x + 1)] ELSE Q]
  OBVIOUS
<1>7. m[1] = A /\ m[x + 1] = B /\ k[1] = P /\ k[y + 1] = A
  BY <1>1, <1>2, <1>3, <1>4 DEF Certifies
<1>8. ASSUME NEW n \in 1 .. x + 1 PROVE M[n + 0] = m[n]
  BY <1>6
<1>9. ASSUME NEW n \in 1 .. y + 1 PROVE M[n + (x + 1)] = k[n]
  <2>1. /\ n + (x + 1) \in 1 .. x + y + 3 /\ ~ (n + (x + 1) <= x + 1) /\ n + (x + 1) <= x + y + 2
        /\ (n + (x + 1)) - (x + 1) = n
    OBVIOUS
  <2> QED BY <1>6, <2>1
<1>10. M[1] = A /\ M[x + 1] = B
  <2>1. 1 \in 1 .. x + 1 /\ x + 1 \in 1 .. x + 1 /\ 1 + 0 = 1 /\ (x + 1) + 0 = x + 1
    OBVIOUS
  <2> QED BY <1>7, <1>8, <2>1
<1>11. M[(x + 1) + 1] = P /\ M[x + y + 2] = A
  <2>1. /\ 1 \in 1 .. y + 1 /\ y + 1 \in 1 .. y + 1
        /\ 1 + (x + 1) = (x + 1) + 1 /\ (y + 1) + (x + 1) = x + y + 2
    OBVIOUS
  <2> QED BY <1>7, <1>9, <2>1
<1>12. M[x + y + 3] = Q
  <2>1. x + y + 3 \in 1 .. x + y + 3 /\ ~ (x + y + 3 <= x + 1) /\ ~ (x + y + 3 <= x + y + 2)
    OBVIOUS
  <2> QED BY <1>6, <2>1
<1>13. Local(E, X, i, M, x + 1, x + y + 2)
  <2>1. /\ i.a \in Int /\ (x + 1) + i.a + 1 = x + y + 3
        /\ (x + 1) + i.a + 1 \in 1 .. (x + y + 2) + 1
    BY <1>2
  <2>2. Branches(E, X, i, M, x + 1, x + y + 2)
    BY <1>10, <1>11, <1>12, <2>1 DEF Branches, Within
  <2> QED BY <1>10, <2>2 DEF Local
<1>14. Local(E, X, j, M, x + y + 2, x + y + 2)
  <2>1. /\ j.a \in Int /\ (x + y + 2) + j.a + 1 = 1
        /\ (x + y + 2) + j.a + 1 \in 1 .. (x + y + 2) + 1
    BY <1>1, <1>2
  <2>2. Jumps(j, M, x + y + 2, x + y + 2)
    BY <1>10, <1>11, <2>1 DEF Jumps, Within
  <2> QED BY <1>11, <2>2 DEF Local
<1>15. ASSUME NEW n \in 1 .. x + y + 2 PROVE Local(E, X, all[n], M, n, x + y + 2)
  <2>1. CASE n <= x
    <3>1. n \in 1 .. x /\ Local(E, X, c[n], m, n, x)
      BY <1>1, <1>3, <2>1 DEF Certifies
    <3>2. Local(E, X, c[n], M, n + 0, x + y + 2)
      <4>1. x + 0 <= x + y + 2 /\ x + y + 2 \in Nat /\ 0 \in Nat
        OBVIOUS
      <4> QED BY <1>8, <3>1, <4>1, LocalShift
    <3> QED BY <1>5, <3>1, <3>2
  <2>2. CASE n = x + 1
    BY <1>5, <1>13, <2>2
  <2>3. CASE n > x + 1 /\ n <= x + y + 1
    <3>1. PICK h \in 1 .. y : h + (x + 1) = n
      <4>1. n - (x + 1) \in 1 .. y /\ (n - (x + 1)) + (x + 1) = n
        BY <2>3
      <4> QED BY <4>1
    <3>2. Local(E, X, d[h], k, h, y)
      BY <1>2, <1>4, <3>1 DEF Certifies
    <3>3. Local(E, X, d[h], M, h + (x + 1), x + y + 2)
      <4>1. y + (x + 1) <= x + y + 2 /\ x + 1 \in Nat /\ x + y + 2 \in Nat
        OBVIOUS
      <4> QED BY <1>9, <3>1, <3>2, <4>1, LocalShift
    <3> QED BY <1>5, <3>1, <3>3
  <2>4. CASE n = x + y + 2
    BY <1>5, <1>14, <2>4
  <2>5. n <= x \/ n = x + 1 \/ (n > x + 1 /\ n <= x + y + 1) \/ n = x + y + 2
    OBVIOUS
  <2> QED BY <2>1, <2>2, <2>3, <2>4, <2>5
<1>16. Certifies(E, X, all, M, A, Q)
  <2>1. x + y + 2 + 1 = x + y + 3
    OBVIOUS
  <2> QED BY <1>5, <1>10, <1>12, <1>15, <2>1 DEF Certifies
<1>17. Runs(E, X, all, A, Q)
  BY <1>16 DEF Runs
<1> QED BY <1>17 DEF all

(***************************************************************************)
(* 5  The instructions of expressions, one at a time.                      *)
(***************************************************************************)
LEMMA PointParts ==
  ASSUME NEW s, NEW next
  PROVE  Point(s, next).stack = s /\ Point(s, next).next = next
BY DEF Point

LEMMA ComputeRuns ==
  ASSUME NEW E, NEW X, NEW i \in Instructions, i.op \in Computing, NEW s, NEW next, IsSeq(s),
         i.op \in {"LOAD", "LOADADDR"} => i.a \in {"EBP", "THIS"}, Len(s) >= Pops(i)
  PROVE  Runs(E, X, <<i>>, Point(s, next), Point(Append(Less(s, Pops(i)), Result(i, s)), next))
<1> DEFINE q == Point(Append(Less(s, Pops(i)), Result(i, s)), next)
<1>1. Computes(i, Point(s, next), q)
  BY PointParts DEF Computes
<1>2. Straight(E, X, i, Point(s, next), q)
  BY <1>1 DEF Straight
<1>3. i.op # "JZ" /\ i.op # "JMP"
  BY DEF Computing, Commuting, Sided
<1>4. IsSeq(Point(s, next).stack)
  BY PointParts
<1> HIDE DEF q
<1>5. Runs(E, X, <<i>>, Point(s, next), q)
  BY <1>2, <1>3, <1>4, RunsStep
<1> QED BY <1>5 DEF q

LEMMA LessNone ==
  ASSUME NEW s, IsSeq(s)
  PROVE  Less(s, 0) = s /\ Len(s) >= 0 /\ Len(s) \in Nat
<1>1. PICK S : s \in Seq(S)
  BY DEF IsSeq
<1>2. Len(s) \in Nat /\ Len(s) - 0 = Len(s)
  BY <1>1
<1>3. SubSeq(s, 1, Len(s)) = s
  BY <1>1
<1> QED BY <1>2, <1>3 DEF Less

(* An instruction that pops nothing, one value or two values.              *)
LEMMA PushRuns ==
  ASSUME NEW E, NEW X, NEW i \in Instructions, i.op \in Computing, NEW s, NEW next, IsSeq(s),
         i.op \in {"LOAD", "LOADADDR"} => i.a \in {"EBP", "THIS"}, Pops(i) = 0, NEW v, v = Result(i, s)
  PROVE  Runs(E, X, <<i>>, Point(s, next), Point(Append(s, v), next))
BY ComputeRuns, LessNone

LEMMA ReplaceRuns ==
  ASSUME NEW E, NEW X, NEW i \in Instructions, i.op \in Computing, NEW s, NEW next, IsSeq(s), NEW a,
         i.op \in {"LOAD", "LOADADDR"} => i.a \in {"EBP", "THIS"}, Pops(i) = 1,
         NEW v, v = Result(i, Append(s, a))
  PROVE  Runs(E, X, <<i>>, Point(Append(s, a), next), Point(Append(s, v), next))
<1>1. PICK t : t = Append(s, a)
  OBVIOUS
<1>2. IsSeq(t) /\ Len(t) >= Pops(i) /\ Less(t, Pops(i)) = s /\ v = Result(i, t)
  BY <1>1, PushIsSeq
<1>3. Runs(E, X, <<i>>, Point(t, next), Point(Append(Less(t, Pops(i)), Result(i, t)), next))
  BY <1>2, ComputeRuns
<1> QED BY <1>1, <1>2, <1>3

LEMMA OperateRuns ==
  ASSUME NEW E, NEW X, NEW i \in Instructions, i.op \in Computing, NEW s, NEW next, IsSeq(s), NEW a, NEW b,
         i.op \in {"LOAD", "LOADADDR"} => i.a \in {"EBP", "THIS"}, Pops(i) = 2,
         NEW v, v = Result(i, Append(Append(s, a), b))
  PROVE  Runs(E, X, <<i>>, Point(Append(Append(s, a), b), next), Point(Append(s, v), next))
<1>1. PICK t : t = Append(Append(s, a), b)
  OBVIOUS
<1>2. IsSeq(t) /\ Len(t) >= Pops(i) /\ Less(t, Pops(i)) = s /\ v = Result(i, t)
  BY <1>1, PushTwice
<1>3. Runs(E, X, <<i>>, Point(t, next), Point(Append(Less(t, Pops(i)), Result(i, t)), next))
  BY <1>2, ComputeRuns
<1> QED BY <1>1, <1>2, <1>3

LEMMA LoadRuns ==
  ASSUME NEW E, NEW X, NEW s, NEW next, IsSeq(s), NEW x \in Words, NEW kind \in Words
  PROVE  /\ Runs(E, X, Instr("LOAD", "EBP", x, kind), Point(s, next), Point(Append(s, Leaf(x, Reads)), next))
         /\ \A a : kind # "ptr" =>
              Runs(E, X, Instr("LOAD", "THIS", x, kind), Point(Append(s, a), next),
                   Point(Append(s, Of(x, "field", a)), next))
<1>1. {"LOAD", "EBP", "THIS"} \subseteq Words
  BY LiteralsAreWords DEF Literals
<1>2. "LOAD" \in Computing
  BY DEF Computing
<1>3. Runs(E, X, Instr("LOAD", "EBP", x, kind), Point(s, next), Point(Append(s, Leaf(x, Reads)), next))
  <2>1. PICK i \in Instructions : i = Instruction("LOAD", "EBP", x, kind)
    BY <1>1, InstructionTyped
  <2>2. i.op = "LOAD" /\ i.a = "EBP" /\ i.b = x
    BY <2>1 DEF Instruction
  <2>3. Pops(i) = 0 /\ Leaf(x, Reads) = Result(i, s)
    BY <2>2 DEF Pops, Result, LoadResult
  <2>4. Runs(E, X, <<i>>, Point(s, next), Point(Append(s, Leaf(x, Reads)), next))
    BY <1>2, <2>2, <2>3, PushRuns
  <2> QED BY <2>1, <2>4 DEF Instr
<1>4. ASSUME NEW a, kind # "ptr"
      PROVE  Runs(E, X, Instr("LOAD", "THIS", x, kind), Point(Append(s, a), next),
                  Point(Append(s, Of(x, "field", a)), next))
  <2>1. PICK i \in Instructions : i = Instruction("LOAD", "THIS", x, kind)
    BY <1>1, InstructionTyped
  <2>2. i.op = "LOAD" /\ i.a = "THIS" /\ i.b = x /\ i.kind = kind
    BY <2>1 DEF Instruction
  <2>3. Pops(i) = 1 /\ Of(x, "field", a) = Result(i, Append(s, a))
    <3>1. TopOf(Append(s, a)) = a
      BY PushIsSeq
    <3> QED BY <1>4, <2>2, <3>1 DEF Pops, Result, LoadResult
  <2>4. Runs(E, X, <<i>>, Point(Append(s, a), next), Point(Append(s, Of(x, "field", a)), next))
    BY <1>2, <2>2, <2>3, ReplaceRuns
  <2> QED BY <2>1, <2>4 DEF Instr
<1> QED BY <1>3, <1>4

LEMMA LoadAddrRuns ==
  ASSUME NEW E, NEW X, NEW s, NEW next, IsSeq(s), NEW x \in Words, NEW kind \in Words
  PROVE  /\ Runs(E, X, Instr("LOADADDR", "EBP", x, kind), Point(s, next),
                 Point(Append(s, Address(Leaf(x, Writes))), next))
         /\ \A a : Runs(E, X, Instr("LOADADDR", "THIS", x, kind), Point(Append(s, a), next),
                        Point(Append(s, Address(Of(x, "field", a))), next))
<1>1. {"LOADADDR", "EBP", "THIS"} \subseteq Words
  BY LiteralsAreWords DEF Literals
<1>2. "LOADADDR" \in Computing
  BY DEF Computing
<1>3. Runs(E, X, Instr("LOADADDR", "EBP", x, kind), Point(s, next),
           Point(Append(s, Address(Leaf(x, Writes))), next))
  <2>1. PICK i \in Instructions : i = Instruction("LOADADDR", "EBP", x, kind)
    BY <1>1, InstructionTyped
  <2>2. i.op = "LOADADDR" /\ i.a = "EBP" /\ i.b = x
    BY <2>1 DEF Instruction
  <2>3. Pops(i) = 0 /\ Address(Leaf(x, Writes)) = Result(i, s)
    BY <2>2 DEF Pops, Result, LoadAddrResult
  <2>4. Runs(E, X, <<i>>, Point(s, next), Point(Append(s, Address(Leaf(x, Writes))), next))
    BY <1>2, <2>2, <2>3, PushRuns
  <2> QED BY <2>1, <2>4 DEF Instr
<1>4. ASSUME NEW a
      PROVE  Runs(E, X, Instr("LOADADDR", "THIS", x, kind), Point(Append(s, a), next),
                  Point(Append(s, Address(Of(x, "field", a))), next))
  <2>1. PICK i \in Instructions : i = Instruction("LOADADDR", "THIS", x, kind)
    BY <1>1, InstructionTyped
  <2>2. i.op = "LOADADDR" /\ i.a = "THIS" /\ i.b = x
    BY <2>1 DEF Instruction
  <2>3. Pops(i) = 1 /\ Address(Of(x, "field", a)) = Result(i, Append(s, a))
    <3>1. TopOf(Append(s, a)) = a
      BY PushIsSeq
    <3> QED BY <2>2, <3>1 DEF Pops, Result, LoadAddrResult
  <2>4. Runs(E, X, <<i>>, Point(Append(s, a), next), Point(Append(s, Address(Of(x, "field", a))), next))
    BY <1>2, <2>2, <2>3, ReplaceRuns
  <2> QED BY <2>1, <2>4 DEF Instr
<1> QED BY <1>3, <1>4

LEMMA LoadLiteralRuns ==
  ASSUME NEW E, NEW X, NEW s, NEW next, IsSeq(s), NEW x \in Words
  PROVE  Runs(E, X, Instr("LOADK", x, "", ""), Point(s, next), Point(Append(s, Leaf("literal", x)), next))
<1>1. "LOADK" \in Words /\ "" \in Words
  BY LiteralsAreWords DEF Literals
<1>2. PICK i \in Instructions : i = Instruction("LOADK", x, "", "")
  BY <1>1, InstructionTyped
<1>3. i.op = "LOADK" /\ i.a = x
  BY <1>2 DEF Instruction
<1>4. Pops(i) = 0 /\ Leaf("literal", x) = Result(i, s) /\ i.op \in Computing /\ i.op \notin {"LOAD", "LOADADDR"}
  BY <1>3 DEF Pops, Result, Computing
<1>5. Runs(E, X, <<i>>, Point(s, next), Point(Append(s, Leaf("literal", x)), next))
  BY <1>4, PushRuns
<1> QED BY <1>2, <1>5 DEF Instr

LEMMA MinusRuns ==
  ASSUME NEW E, NEW X, NEW s, NEW next, IsSeq(s), NEW t \in Numeric, NEW a
  PROVE  Runs(E, X, Instr("UNARYSUB", t, 1, ""), Point(Append(s, a), next), Point(Append(s, Of("-", t, a)), next))
<1>1. "UNARYSUB" \in Words /\ "" \in Words /\ "int32" \in Words /\ "float" \in Words
  BY LiteralsAreWords DEF Literals
<1>2. 1 \in Words
  BY LiteralsAreWords
<1>3. t \in Words
  BY <1>1 DEF Numeric
<1>4. PICK i \in Instructions : i = Instruction("UNARYSUB", t, 1, "")
  BY <1>1, <1>2, <1>3, InstructionTyped
<1>5. i.op = "UNARYSUB" /\ i.a = t
  BY <1>4 DEF Instruction
<1>6. TopOf(Append(s, a)) = a
  BY PushIsSeq
<1>7. Pops(i) = 1 /\ Of("-", t, a) = Result(i, Append(s, a)) /\ i.op \in Computing /\ i.op \notin {"LOAD", "LOADADDR"}
  BY <1>5, <1>6 DEF Pops, Result, Computing, Computed, Numeric
<1>8. Runs(E, X, <<i>>, Point(Append(s, a), next), Point(Append(s, Of("-", t, a)), next))
  BY <1>7, ReplaceRuns
<1> QED BY <1>4, <1>8 DEF Instr

LEMMA ConvertRuns ==
  ASSUME NEW E, NEW X, NEW s, NEW next, IsSeq(s), NEW t \in Numeric, NEW u \in Numeric, NEW a
  PROVE  Runs(E, X, Instr("CONV", t, u, ""), Point(Append(s, a), next), Point(Append(s, Converted(a, t, u)), next))
<1>1. "CONV" \in Words /\ "" \in Words /\ "int32" \in Words /\ "float" \in Words
  BY LiteralsAreWords DEF Literals
<1>2. t \in Words /\ u \in Words
  BY <1>1 DEF Numeric
<1>3. PICK i \in Instructions : i = Instruction("CONV", t, u, "")
  BY <1>1, <1>2, InstructionTyped
<1>4. i.op = "CONV" /\ i.a = t /\ i.b = u
  BY <1>3 DEF Instruction
<1>5. TopOf(Append(s, a)) = a
  BY PushIsSeq
<1>6. /\ Pops(i) = 1 /\ Converted(a, t, u) = Result(i, Append(s, a))
      /\ i.op \in Computing /\ i.op \notin {"LOAD", "LOADADDR"}
  BY <1>4, <1>5 DEF Pops, Result, Computing
<1>7. Runs(E, X, <<i>>, Point(Append(s, a), next), Point(Append(s, Converted(a, t, u)), next))
  BY <1>6, ReplaceRuns
<1> QED BY <1>3, <1>7 DEF Instr

(* The operators the machine has, on numbers of one type.                  *)
Possible == {"+", "-", "*", "/", "<", ">", "==", "!="}
Outcome(op, t, a, b) ==
  IF t = "float" /\ op \in {"<", "==", "!="} THEN Of("asFloat", "bool", Apply(op, t, a, b)) ELSE Apply(op, t, a, b)

LEMMA OperatorRuns ==
  ASSUME NEW E, NEW X, NEW s, NEW next, IsSeq(s), NEW op \in Possible, NEW t \in Numeric, NEW a, NEW b
  PROVE  Runs(E, X, Instr(Opcode[op], t, "", ""), Point(Append(Append(s, a), b), next),
              Point(Append(s, Outcome(op, t, a, b)), next))
<1>1. "" \in Words /\ "int32" \in Words /\ "float" \in Words
  BY LiteralsAreWords DEF Literals
<1>2. t \in Words /\ op \in Operators
  BY <1>1 DEF Numeric, Possible, Operators
<1>3. PICK i \in Instructions : i = Instruction(Opcode[op], t, "", "")
  BY <1>1, <1>2, OpcodesAreWords, InstructionTyped
<1>4. i.op = Opcode[op] /\ i.a = t
  BY <1>3 DEF Instruction
<1>5. PICK r : r = Append(Append(s, a), b)
  OBVIOUS
<1>6. TopOf(r) = b /\ BelowOf(r) = a
  BY <1>5, PushTwice
<1>7. Computed(t, a, Outcome(op, t, a, b)) = Outcome(op, t, a, b)
      /\ Computed(t, b, Outcome(op, t, a, b)) = Outcome(op, t, a, b)
  BY DEF Computed, Numeric
<1>8. CASE op \in {"+", "*", "==", "!="}
  <2>1. i.op \in DOMAIN Commuting /\ Commuting[i.op] = op /\ i.op \notin {"AND", "OR"}
        /\ i.op \notin {"LOAD", "LOADADDR", "LOADK", "UNARYSUB", "CONV"}
        /\ (i.op \in {"EQ", "NEQ"} <=> op \in {"==", "!="}) /\ i.op # "LT"
    BY <1>2, <1>4, <1>8 DEF Opcode, Commuting
  <2>2. AsFloat(i.op, t, Apply(op, t, a, b)) = Outcome(op, t, a, b)
    BY <1>8, <2>1 DEF AsFloat, Outcome
  <2>3. Result(i, r) = CommutingResult(i, r)
    BY <2>1 DEF Result
  <2>4. CommutingResult(i, r) = Computed(t, b, AsFloat(i.op, t, Apply(op, t, a, b)))
    BY <1>4, <1>6, <2>1 DEF CommutingResult
  <2>5. Outcome(op, t, a, b) = Result(i, r) /\ Pops(i) = 2 /\ i.op \in Computing
    BY <1>7, <2>1, <2>2, <2>3, <2>4 DEF Pops, Computing
  <2>6. Runs(E, X, <<i>>, Point(Append(Append(s, a), b), next), Point(Append(s, Outcome(op, t, a, b)), next))
    BY <1>5, <2>1, <2>5, OperateRuns
  <2> QED BY <1>3, <2>6 DEF Instr
<1>9. CASE op \in {"-", "/", "<", ">"}
  <2>1. i.op \in DOMAIN Sided /\ Sided[i.op] = op /\ i.op \notin DOMAIN Commuting
        /\ i.op \notin {"LOAD", "LOADADDR", "LOADK", "UNARYSUB", "CONV"}
        /\ (i.op = "LT" <=> op = "<") /\ i.op \notin {"EQ", "NEQ"}
    BY <1>2, <1>4, <1>9 DEF Opcode, Commuting, Sided
  <2>2. AsFloat(i.op, t, Apply(op, t, a, b)) = Outcome(op, t, a, b)
    BY <1>9, <2>1 DEF AsFloat, Outcome
  <2>3. Result(i, r) = SidedResult(i, r)
    BY <2>1 DEF Result
  <2>4. SidedResult(i, r) = Computed(t, a, AsFloat(i.op, t, Apply(op, t, a, b)))
    BY <1>4, <1>6, <2>1 DEF SidedResult
  <2>5. Outcome(op, t, a, b) = Result(i, r) /\ Pops(i) = 2 /\ i.op \in Computing
    BY <1>7, <2>1, <2>2, <2>3, <2>4 DEF Pops, Computing
  <2>6. Runs(E, X, <<i>>, Point(Append(Append(s, a), b), next), Point(Append(s, Outcome(op, t, a, b)), next))
    BY <1>5, <2>1, <2>5, OperateRuns
  <2> QED BY <1>3, <2>6 DEF Instr
<1> QED BY <1>8, <1>9 DEF Possible

(***************************************************************************)
(* 6  Variables and members, read and pointed at.                          *)
(***************************************************************************)
LEMMA Modes ==
  ASSUME NEW x, NEW L
  PROVE  /\ IsLocal(x, L) => getVariable(x, L).mode = "local"
         /\ ~ IsLocal(x, L) => getVariable(x, L).mode = "field" /\ getVariable(x, L).type = FieldType[x]
BY DEF getVariable, IsLocal, Places

LEMMA ThisRuns ==
  ASSUME NEW E, NEW X, NEW s, NEW next, IsSeq(s)
  PROVE  Runs(E, X, emitPushThis, Point(s, next), Point(Append(s, This), next)) /\ emitPushThis \in Code
<1>1. {"LOAD", "EBP", "this", "ptr"} \subseteq Words
  BY LiteralsAreWords DEF Literals
<1>2. "LOAD" \in Words /\ "EBP" \in Words /\ "this" \in Words /\ "ptr" \in Words
  BY <1>1
<1> QED BY <1>2, LoadRuns, InstrIsCode DEF emitPushThis, This

LEMMA VariableRuns ==
  ASSUME NEW E, NEW X, NEW s, NEW next, IsSeq(s), NEW x \in Words, NEW L,
         IsLocal(x, L) \/ Kind(FieldType[x]) # "ptr"
  PROVE  Runs(E, X, emitVarExpr(x, "rvalue", L), Point(s, next), Point(Append(s, Variable(x, L, Reads)), next))
<1>0. "LOAD" \in Words /\ "THIS" \in Words
  BY LiteralsAreWords DEF Literals
<1>1. CASE IsLocal(x, L)
  <2>1. emitVarExpr(x, "rvalue", L) = Instr("LOAD", "EBP", x, LocalKind(getVariable(x, L).type))
    BY <1>1, Modes DEF emitVarExpr
  <2>2. Variable(x, L, Reads) = Leaf(x, Reads)
    BY <1>1 DEF Variable, IsLocal
  <2>3. LocalKind(getVariable(x, L).type) \in Words
    BY KindsAreWords
  <2> QED BY <2>1, <2>2, <2>3, LoadRuns
<1>2. CASE ~ IsLocal(x, L)
  <2> DEFINE read == Instr("LOAD", "THIS", x, Kind(FieldType[x]))
  <2>1. emitVarExpr(x, "rvalue", L) = emitPushThis \o read
    BY <1>2, Modes DEF emitVarExpr, loadMemberVariable
  <2>2. Variable(x, L, Reads) = Of(x, "field", This)
    BY <1>2 DEF Variable, IsLocal
  <2>3. Kind(FieldType[x]) \in Words /\ Kind(FieldType[x]) # "ptr"
    BY <1>2, KindsAreWords
  <2>4. Runs(E, X, read, Point(Append(s, This), next), Point(Append(s, Of(x, "field", This)), next))
    BY <2>3, LoadRuns
  <2>5. read \in Code
    BY <1>0, <2>3, InstrIsCode
  <2> HIDE DEF read
  <2>6. Runs(E, X, emitPushThis \o read, Point(s, next), Point(Append(s, Of(x, "field", This)), next))
    BY <2>4, <2>5, ThisRuns, RunsConcat
  <2> QED BY <2>1, <2>2, <2>6
<1> QED BY <1>1, <1>2

LEMMA VariableAddressRuns ==
  ASSUME NEW E, NEW X, NEW s, NEW next, IsSeq(s), NEW x \in Words, NEW L
  PROVE  LET q == Point(Append(s, Address(Variable(x, L, Writes))), next)
         IN /\ Runs(E, X, emitVarExpr(x, "lvalue", L), Point(s, next), q)
            /\ getVariable(x, L).mode = "local" => Runs(E, X, Instr("LOADADDR", "EBP", x, ""), Point(s, next), q)
            /\ getVariable(x, L).mode = "field" => Runs(E, X, loadMemberAddress(x), Point(s, next), q)
            /\ getVariable(x, L).mode \in {"local", "field"}
<1> DEFINE q == Point(Append(s, Address(Variable(x, L, Writes))), next)
<1>0. "LOADADDR" \in Words /\ "THIS" \in Words /\ "" \in Words
  BY LiteralsAreWords DEF Literals
<1>1. CASE IsLocal(x, L)
  <2>1. emitVarExpr(x, "lvalue", L) = Instr("LOADADDR", "EBP", x, "") /\ getVariable(x, L).mode = "local"
    BY <1>1, Modes DEF emitVarExpr
  <2>2. Variable(x, L, Writes) = Leaf(x, Writes)
    BY <1>1 DEF Variable, IsLocal
  <2>3. Runs(E, X, Instr("LOADADDR", "EBP", x, ""), Point(s, next), q)
    BY <1>0, <2>2, LoadAddrRuns
  <2> QED BY <2>1, <2>3
<1>2. CASE ~ IsLocal(x, L)
  <2> DEFINE point == Instr("LOADADDR", "THIS", x, "")
  <2>1. emitVarExpr(x, "lvalue", L) = loadMemberAddress(x) /\ getVariable(x, L).mode = "field"
    BY <1>2, Modes DEF emitVarExpr
  <2>2. Variable(x, L, Writes) = Of(x, "field", This)
    BY <1>2 DEF Variable, IsLocal
  <2>3. Runs(E, X, point, Point(Append(s, This), next), q)
    BY <1>0, <2>2, LoadAddrRuns
  <2>4. point \in Code
    BY <1>0, InstrIsCode
  <2>5. loadMemberAddress(x) = emitPushThis \o point
    BY DEF loadMemberAddress
  <2> HIDE DEF point, q
  <2>6. Runs(E, X, loadMemberAddress(x), Point(s, next), q)
    BY <2>3, <2>4, <2>5, ThisRuns, RunsConcat
  <2> QED BY <2>1, <2>6 DEF q
<1> QED BY <1>1, <1>2

LEMMA MemberRuns ==
  ASSUME NEW E, NEW X, NEW s, NEW next, IsSeq(s), NEW x \in Words, NEW member \in Words, NEW L, IsLocal(x, L)
  PROVE  /\ Runs(E, X, emitMemberOp(x, member, "rvalue", L), Point(s, next),
                 Point(Append(s, Member(x, member, L)), next))
         /\ Runs(E, X, emitVarExpr(x, "rvalue", L) \o Instr("LOADADDR", "THIS", member, "int32"), Point(s, next),
                 Point(Append(s, Address(Member(x, member, L))), next))
<1> DEFINE object == emitVarExpr(x, "rvalue", L)
           read == Instr("LOAD", "THIS", member, "int32")
           point == Instr("LOADADDR", "THIS", member, "int32")
           v == Variable(x, L, Reads)
           B == Point(Append(s, v), next)
           C == Point(Append(s, Of(member, "field", v)), next)
           D == Point(Append(s, Address(Of(member, "field", v))), next)
<1>0. "LOAD" \in Words /\ "LOADADDR" \in Words /\ "THIS" \in Words /\ "int32" \in Words
  BY LiteralsAreWords DEF Literals
<1>1. Runs(E, X, object, Point(s, next), B)
  BY VariableRuns
<1>2. Runs(E, X, read, B, C)
  BY <1>0, LoadRuns
<1>3. Runs(E, X, point, B, D)
  BY <1>0, LoadAddrRuns
<1>4. object \in Code /\ read \in Code /\ point \in Code
  BY <1>0, VarExprIsCode, InstrIsCode
<1>5. emitMemberOp(x, member, "rvalue", L) = object \o read
  BY DEF emitMemberOp
<1>6. Member(x, member, L) = Of(member, "field", v)
  BY DEF Member
<1> HIDE DEF object, read, point, B, C, D
<1>7. Runs(E, X, object \o read, Point(s, next), C) /\ Runs(E, X, object \o point, Point(s, next), D)
  BY <1>1, <1>2, <1>3, <1>4, RunsConcat
<1> QED BY <1>5, <1>6, <1>7 DEF object, point, C, D

(* The place an assignment is made to.                                     *)
LEMMA LoadAddressRuns ==
  ASSUME NEW E, NEW X, NEW s, NEW next, IsSeq(s), NEW lhs \in Targets, NEW L, TargetMeans(lhs, L)
  PROVE  /\ Runs(E, X, emitLoadAddress(lhs, L), Point(s, next), Point(Append(s, Address(Place(lhs, L))), next))
         /\ emitLoadAddress(lhs, L) \in Code
<1>0. lhs \in Expressions /\ lhs[1] \in {"id", "dot"} /\ lhs[2] \in Words /\ (lhs[1] = "dot" => lhs[3] \in Words)
  BY ExprNodes, LiteralsAreWords DEF Targets
<1>1. CASE lhs[1] = "dot"
  <2>1. emitLoadAddress(lhs, L) = emitVarExpr(lhs[2], "rvalue", L) \o Instr("LOADADDR", "THIS", lhs[3], "int32")
    BY <1>1 DEF emitLoadAddress
  <2>2. Place(lhs, L) = Member(lhs[2], lhs[3], L) /\ IsLocal(lhs[2], L)
    BY <1>1 DEF Place, TargetMeans
  <2>3. "LOADADDR" \in Words /\ "THIS" \in Words /\ "int32" \in Words
    BY LiteralsAreWords DEF Literals
  <2>4. Instr("LOADADDR", "THIS", lhs[3], "int32") \in Code
    BY <1>0, <1>1, <2>3, InstrIsCode
  <2> QED BY <1>0, <1>1, <2>1, <2>2, <2>4, MemberRuns, VarExprIsCode, ConcatIsCode
<1>2. CASE lhs[1] = "id"
  <2>1. Place(lhs, L) = Variable(lhs[2], L, Writes)
    BY <1>2 DEF Place
  <2>2. CASE getVariable(lhs[2], L).mode = "local"
    <3>1. emitLoadAddress(lhs, L) = Instr("LOADADDR", "EBP", lhs[2], "")
      BY <1>2, <2>2 DEF emitLoadAddress
    <3>2. "LOADADDR" \in Words /\ "EBP" \in Words /\ "" \in Words
      BY LiteralsAreWords DEF Literals
    <3>3. Runs(E, X, Instr("LOADADDR", "EBP", lhs[2], ""), Point(s, next),
               Point(Append(s, Address(Variable(lhs[2], L, Writes))), next))
      BY <1>0, <2>2, VariableAddressRuns
    <3>4. Instr("LOADADDR", "EBP", lhs[2], "") \in Code
      BY <1>0, <3>2, InstrIsCode
    <3> QED BY <2>1, <3>1, <3>3, <3>4
  <2>3. CASE getVariable(lhs[2], L).mode = "field"
    <3>1. emitLoadAddress(lhs, L) = loadMemberAddress(lhs[2])
      BY <1>2, <2>3 DEF emitLoadAddress
    <3>2. Runs(E, X, loadMemberAddress(lhs[2]), Point(s, next),
               Point(Append(s, Address(Variable(lhs[2], L, Writes))), next))
      BY <1>0, <2>3, VariableAddressRuns
    <3>3. loadMemberAddress(lhs[2]) \in Code
      BY <1>0, VarExprIsCode
    <3> QED BY <2>1, <3>1, <3>2, <3>3
  <2> QED BY <1>0, <2>2, <2>3, VariableAddressRuns
<1> QED BY <1>0, <1>1, <1>2

(***************************************************************************)
(* 7  The code of an expression leaves its value.                          *)
(***************************************************************************)
Yields(E, X, c, v) ==
  \A s, next : IsSeq(s) => Runs(E, X, c, Point(s, next), Point(Append(s, v), next))

LEMMA ConversionYields ==
  ASSUME NEW E, NEW X, NEW c \in Code, NEW v, Yields(E, X, c, v), NEW t, NEW u, Fits(u, t)
  PROVE  Yields(E, X, c \o performConversion(t, u), As(v, t, u)) /\ c \o performConversion(t, u) \in Code
<1>1. SUFFICES ASSUME NEW s, NEW next, IsSeq(s)
               PROVE  /\ Runs(E, X, c \o performConversion(t, u), Point(s, next), Point(Append(s, As(v, t, u)), next))
                      /\ c \o performConversion(t, u) \in Code
  <2>1. c \o performConversion(t, u) \in Code
    BY ConversionIsCode, ConcatIsCode
  <2> QED BY <2>1 DEF Yields
<1>2. CASE t = u
  <2>1. performConversion(t, u) = <<>> /\ As(v, t, u) = v
    BY <1>2 DEF performConversion, As
  <2>2. c \o <<>> = c
    BY DEF Code
  <2>3. Runs(E, X, c, Point(s, next), Point(Append(s, v), next))
    BY <1>1 DEF Yields
  <2> QED BY <2>1, <2>2, <2>3
<1>3. CASE t # u
  <2>1. t \in Numeric /\ u \in Numeric
    BY <1>3 DEF Fits
  <2>2. performConversion(t, u) = Instr("CONV", t, u, "") /\ As(v, t, u) = Converted(v, t, u)
    <3>1. (t = "int32" /\ u = "float") \/ (t = "float" /\ u = "int32")
      BY <1>3, <2>1 DEF Numeric
    <3>2. performConversion(t, u) = Instr("CONV", t, u, "")
      <4>1. CASE t = "int32" /\ u = "float"
        BY <4>1 DEF performConversion
      <4>2. CASE t = "float" /\ u = "int32"
        BY <4>2 DEF performConversion
      <4> QED BY <3>1, <4>1, <4>2
    <3>3. As(v, t, u) = Converted(v, t, u)
      BY <1>3 DEF As
    <3> QED BY <3>2, <3>3
  <2>3. performConversion(t, u) \in Code
    BY ConversionIsCode
  <2>4. PICK d \in Code : d = performConversion(t, u)
    BY <2>3
  <2>5. Runs(E, X, c, Point(s, next), Point(Append(s, v), next))
    BY <1>1 DEF Yields
  <2>6. Runs(E, X, d, Point(Append(s, v), next), Point(Append(s, Converted(v, t, u)), next))
    BY <1>1, <2>1, <2>2, <2>4, ConvertRuns
  <2>7. Runs(E, X, c \o d, Point(s, next), Point(Append(s, Converted(v, t, u)), next)) /\ c \o d \in Code
    BY <2>5, <2>6, RunsConcat, ConcatIsCode
  <2> QED BY <2>2, <2>4, <2>7
<1> QED BY <1>2, <1>3

LEMMA UnaryYields ==
  ASSUME NEW E, NEW X, NEW e, NEW c \in Code, NEW L, NEW v, Yields(E, X, c, v), e[2] = "-",
         resolveQualifiedType[e[3]][L] \in Numeric
  PROVE  Yields(E, X, compileUnaryOperation(e, c, L), Of("-", resolveQualifiedType[e[3]][L], v))
<1>1. PICK t \in Numeric : t = resolveQualifiedType[e[3]][L]
  OBVIOUS
<1> DEFINE d == Instr("UNARYSUB", t, 1, "")
<1>2. compileUnaryOperation(e, c, L) = c \o d
  BY <1>1 DEF compileUnaryOperation, unaryKind, Numeric
<1>3. d \in Code
  <2>1. {"UNARYSUB", "", "int32", "float"} \subseteq Words
    BY LiteralsAreWords DEF Literals
  <2>2. 1 \in Words
    BY LiteralsAreWords
  <2>3. t \in Words /\ "UNARYSUB" \in Words /\ "" \in Words
    BY <2>1 DEF Numeric
  <2> QED BY <2>2, <2>3, InstrIsCode
<1>4. ASSUME NEW s, NEW next, IsSeq(s)
      PROVE  Runs(E, X, c \o d, Point(s, next), Point(Append(s, Of("-", t, v)), next))
  <2>1. Runs(E, X, c, Point(s, next), Point(Append(s, v), next))
    BY <1>4 DEF Yields
  <2>2. Runs(E, X, d, Point(Append(s, v), next), Point(Append(s, Of("-", t, v)), next))
    BY <1>4, MinusRuns
  <2> HIDE DEF d
  <2> QED BY <1>3, <2>1, <2>2, RunsConcat
<1> HIDE DEF d
<1> QED BY <1>1, <1>2, <1>4 DEF Yields

LEMMA ArithmeticYields ==
  ASSUME NEW E, NEW X, NEW e, NEW lhs \in Code, NEW rhs \in Code, NEW L, NEW a, NEW b,
         Yields(E, X, lhs, a), Yields(E, X, rhs, b), e[2] \in Possible,
         NEW t \in Numeric, NEW u \in Numeric,
         resolveQualifiedType[e[3]][L] = t, resolveQualifiedType[e[4]][L] = u
  PROVE  Yields(E, X, emitArithmeticOp(e, lhs, rhs, L),
                Outcome(e[2], Join(t, u), As(a, t, Join(t, u)), As(b, u, Join(t, u))))
<1>1. PICK j \in Numeric : j = Join(t, u)
  BY DEF Join, Numeric
<1>2. PICK l : l = lhs \o performConversion(t, j)
  OBVIOUS
<1>3. PICK r : r = rhs \o performConversion(u, j)
  OBVIOUS
<1>4. PICK o : o = Instr(Opcode[e[2]], j, "", "")
  OBVIOUS
<1>5. PICK v : v = As(a, t, j)
  OBVIOUS
<1>6. PICK w : w = As(b, u, j)
  OBVIOUS
<1>7. Fits(j, t) /\ Fits(j, u)
  BY <1>1 DEF Fits
<1>8. Yields(E, X, l, v) /\ l \in Code /\ Yields(E, X, r, w) /\ r \in Code
  BY <1>2, <1>3, <1>5, <1>6, <1>7, ConversionYields
<1>9. o \in Code
  <2>1. {"", "int32", "float"} \subseteq Words
    BY LiteralsAreWords DEF Literals
  <2>2. j \in Words /\ "" \in Words /\ e[2] \in Operators
    BY <2>1 DEF Numeric, Possible, Operators
  <2> QED BY <1>4, <2>2, OpcodesAreWords, InstrIsCode
<1>10. emitArithmeticOp(e, lhs, rhs, L) = (l \o r) \o o
  <2>1. resolvePrimitiveConstantFromType(j) = j
    BY DEF resolvePrimitiveConstantFromType, Numeric
  <2>2. CASE t = u
    <3>1. j = t /\ performConversion(t, j) = <<>> /\ performConversion(u, j) = <<>>
      BY <1>1, <2>2 DEF Join, performConversion
    <3>2. lhs \o <<>> = lhs /\ rhs \o <<>> = rhs
      BY DEF Code
    <3>3. l = lhs /\ r = rhs
      BY <1>2, <1>3, <3>1, <3>2
    <3>4. emitArithmeticOp(e, lhs, rhs, L) =
            (lhs \o rhs) \o Instr(Opcode[e[2]], resolvePrimitiveConstantFromType(t), "", "")
      BY <2>2 DEF emitArithmeticOp
    <3> QED BY <1>4, <2>1, <3>1, <3>3, <3>4
  <2>3. CASE t # u
    <3>1. {t, u} \subseteq Primitive /\ resolvePromotedType(t, u) = j
      BY <1>1, <2>3 DEF Primitive, resolvePromotedType, Numeric, Join
    <3>2. emitArithmeticOp(e, lhs, rhs, L) =
            (lhs \o performConversion(t, j) \o rhs \o performConversion(u, j))
              \o Instr(Opcode[e[2]], resolvePrimitiveConstantFromType(j), "", "")
      BY <2>3, <3>1 DEF emitArithmeticOp
    <3>3. PICK x \in Code : x = performConversion(t, j)
      BY ConversionIsCode
    <3>4. PICK y \in Code : y = performConversion(u, j)
      BY ConversionIsCode
    <3>5. lhs \o x \o rhs \o y = (lhs \o x) \o (rhs \o y)
      BY DEF Code
    <3> QED BY <1>2, <1>3, <1>4, <2>1, <3>2, <3>3, <3>4, <3>5
  <2> QED BY <2>2, <2>3
<1>11. ASSUME NEW s, NEW next, IsSeq(s)
       PROVE  Runs(E, X, (l \o r) \o o, Point(s, next), Point(Append(s, Outcome(e[2], j, v, w)), next))
  <2>1. Runs(E, X, l, Point(s, next), Point(Append(s, v), next))
    BY <1>8, <1>11 DEF Yields
  <2>2. IsSeq(Append(s, v))
    BY <1>11, PushIsSeq
  <2>3. Runs(E, X, r, Point(Append(s, v), next), Point(Append(Append(s, v), w), next))
    BY <1>8, <2>2 DEF Yields
  <2>4. Runs(E, X, o, Point(Append(Append(s, v), w), next), Point(Append(s, Outcome(e[2], j, v, w)), next))
    BY <1>4, <1>11, OperatorRuns
  <2>5. Runs(E, X, l \o r, Point(s, next), Point(Append(Append(s, v), w), next)) /\ l \o r \in Code
    BY <1>8, <2>1, <2>3, RunsConcat, ConcatIsCode
  <2> QED BY <1>9, <2>4, <2>5, RunsConcat
<1>12. Yields(E, X, (l \o r) \o o, Outcome(e[2], j, v, w))
  BY <1>11 DEF Yields
<1> QED BY <1>1, <1>5, <1>6, <1>10, <1>12

(* A comparison is not a number.                                           *)
LEMMA NumbersAreNotTests ==
  ASSUME NEW e \in Expressions, NEW L \in Meaningful[e], Type[e][L] \in Numeric
  PROVE  ~ FloatTest(e, L)
<1>1. SUFFICES ASSUME e[1] = "bin", e[2] \in {"<", "==", "!="} PROVE FALSE
  BY DEF FloatTest
<1>2. Type[e][L] = SaidOfNode(Type, e)[L] /\ L \in Scopes
  BY TypeEquation, TypesAgree
<1>3. Type[e][L] = "bool"
  BY <1>1, <1>2 DEF SaidOfNode, Relational
<1> QED BY <1>3 DEF Numeric

LEMMA OperandYields ==
  ASSUME NEW E, NEW X, NEW e \in Expressions, e[1] \notin {"unary", "bin"}, NEW L, LeafMeans(e, L)
  PROVE  Yields(E, X, emitOperand(e, "rvalue", L), LeafValue(e, L))
<1>1. SUFFICES ASSUME NEW s, NEW next, IsSeq(s)
               PROVE  Runs(E, X, emitOperand(e, "rvalue", L), Point(s, next), Point(Append(s, LeafValue(e, L)), next))
  BY DEF Yields
<1>2. CASE e[1] = "id"
  <2>1. e[2] \in Words /\ (IsLocal(e[2], L) \/ Kind(FieldType[e[2]]) # "ptr")
    BY <1>2, ExprNodes, LiteralsAreWords DEF LeafMeans
  <2>2. emitOperand(e, "rvalue", L) = emitVarExpr(e[2], "rvalue", L) /\ LeafValue(e, L) = Variable(e[2], L, Reads)
    BY <1>2 DEF emitOperand, LeafValue
  <2> QED BY <1>1, <2>1, <2>2, VariableRuns
<1>3. CASE e[1] = "dot"
  <2>1. e[2] \in Words /\ e[3] \in Words /\ IsLocal(e[2], L)
    BY <1>3, ExprNodes, LiteralsAreWords DEF LeafMeans
  <2>2. emitOperand(e, "rvalue", L) = emitMemberOp(e[2], e[3], "rvalue", L) /\ LeafValue(e, L) = Member(e[2], e[3], L)
    BY <1>3 DEF emitOperand, LeafValue
  <2> QED BY <1>1, <2>1, <2>2, MemberRuns
<1>4. CASE e[1] \in {"int", "float"}
  <2>1. {"int", "float"} \subseteq Words
    BY LiteralsAreWords DEF Literals
  <2>2. emitOperand(e, "rvalue", L) = Instr("LOADK", e[1], "", "") /\ LeafValue(e, L) = Leaf("literal", e[1])
    BY <1>4 DEF emitOperand, LeafValue, emitLoadLiteral
  <2>3. e[1] \in Words
    BY <1>4, <2>1
  <2> QED BY <1>1, <2>2, <2>3, LoadLiteralRuns
<1>5. e[1] \in {"int", "float", "id", "dot", "unary", "bin"}
  BY ExprNodes
<1> QED BY <1>2, <1>3, <1>4, <1>5

Held(e, L) == IF FloatTest(e, L) THEN Of("asFloat", "bool", Value[e][L]) ELSE Value[e][L]

LEMMA EvalIsCode ==
  ASSUME NEW e \in Expressions, NEW L \in Scopes
  PROVE  emitExpressionEval[e]["rvalue"][L] \in Code /\ emitExpressionEval[e]["none"][L] \in Code
         /\ emitExpressionEval[e]["lvalue"][L] \in Code
<1>1. "rvalue" \in Contexts /\ "none" \in Contexts /\ "lvalue" \in Contexts
  BY DEF Contexts
<1>2. emitExpressionEval[e] \in [Contexts -> [Scopes -> Code]]
  BY EvalEquation DEF Evals
<1> QED BY <1>1, <1>2

LEMMA EvalUnfolds ==
  ASSUME NEW e \in Expressions, NEW L \in Scopes, NEW context \in Contexts
  PROVE  /\ e[1] = "unary" => emitExpressionEval[e][context][L] =
              compileUnaryOperation(e, emitExpressionEval[e[3]][operandContext(e[2])][L], L)
         /\ e[1] = "bin" => emitExpressionEval[e][context][L] =
              emitArithmeticOp(e, emitExpressionEval[e[3]]["rvalue"][L], emitExpressionEval[e[4]]["rvalue"][L], L)
         /\ e[1] \notin {"unary", "bin"} => emitExpressionEval[e][context][L] = emitOperand(e, context, L)
<1>1. emitExpressionEval[e] = EvalOfNode(emitExpressionEval, e)
  BY EvalEquation
<1> QED BY <1>1 DEF EvalOfNode

LEMMA ExprYields ==
  ASSUME NEW E, NEW X, NEW e \in Expressions, NEW L \in Meaningful[e]
  PROVE  Yields(E, X, emitExpressionEval[e]["rvalue"][L], Held(e, L))
<1> DEFINE T == {x \in Expressions : \A M \in Meaningful[x] :
                   Yields(E, X, emitExpressionEval[x]["rvalue"][M], Held(x, M))}
<1>1. ASSUME NEW x \in Expressions, PartsOf(x) \subseteq T PROVE x \in T
  <2>1. SUFFICES ASSUME NEW M \in Meaningful[x]
                 PROVE  Yields(E, X, emitExpressionEval[x]["rvalue"][M], Held(x, M))
    OBVIOUS
  <2>2. M \in Scopes
    BY TypesAgree
  <2>3. M \in MeaningfulNode(Meaningful, x)
    BY MeaningfulEquation
  <2>4. "rvalue" \in Contexts
    BY DEF Contexts
  <2>5. Value[x][M] = ValueOfNode(Value, x)[M] /\ Type[x][M] = SaidOfNode(Type, x)[M]
    BY ValueEquation, TypeEquation
  <2>6. CASE x[1] = "unary"
    <3>1. x[2] = "-" /\ x[3] \in T /\ x[3] \in Expressions /\ M \in Meaningful[x[3]] /\ Type[x[3]][M] \in Numeric
      BY <1>1, <2>3, <2>6, ExprNodes, ExprParts DEF MeaningfulNode
    <3>2. PICK c : c = emitExpressionEval[x[3]]["rvalue"][M]
      OBVIOUS
    <3>3. c \in Code /\ Yields(E, X, c, Held(x[3], M)) /\ resolveQualifiedType[x[3]][M] = Type[x[3]][M]
      BY <2>2, <3>1, <3>2, EvalIsCode, TypesAgree
    <3>4. emitExpressionEval[x]["rvalue"][M] = compileUnaryOperation(x, c, M)
      BY <2>2, <2>4, <2>6, <3>1, <3>2, EvalUnfolds DEF operandContext
    <3>5. Held(x[3], M) = Value[x[3]][M]
      BY <3>1, NumbersAreNotTests DEF Held
    <3>6. Held(x, M) = Of("-", Type[x[3]][M], Value[x[3]][M])
      BY <2>2, <2>5, <2>6, <3>1 DEF Held, FloatTest, ValueOfNode
    <3> QED BY <3>1, <3>3, <3>4, <3>5, <3>6, UnaryYields
  <2>7. CASE x[1] = "bin"
    <3>1. /\ x[2] \in Possible
          /\ x[3] \in T /\ x[3] \in Expressions /\ M \in Meaningful[x[3]] /\ Type[x[3]][M] \in Numeric
          /\ x[4] \in T /\ x[4] \in Expressions /\ M \in Meaningful[x[4]] /\ Type[x[4]][M] \in Numeric
      BY <1>1, <2>3, <2>7, ExprNodes, ExprParts DEF MeaningfulNode, Possible
    <3>2. PICK c : c = emitExpressionEval[x[3]]["rvalue"][M]
      OBVIOUS
    <3>3. PICK d : d = emitExpressionEval[x[4]]["rvalue"][M]
      OBVIOUS
    <3>4. PICK a : a = Value[x[3]][M]
      OBVIOUS
    <3>5. PICK b : b = Value[x[4]][M]
      OBVIOUS
    <3>6. PICK t \in Numeric : t = Type[x[3]][M]
      BY <3>1
    <3>7. PICK u \in Numeric : u = Type[x[4]][M]
      BY <3>1
    <3>8. c \in Code /\ Yields(E, X, c, a) /\ resolveQualifiedType[x[3]][M] = t
      BY <2>2, <3>1, <3>2, <3>4, <3>6, EvalIsCode, TypesAgree, NumbersAreNotTests DEF Held
    <3>9. d \in Code /\ Yields(E, X, d, b) /\ resolveQualifiedType[x[4]][M] = u
      BY <2>2, <3>1, <3>3, <3>5, <3>7, EvalIsCode, TypesAgree, NumbersAreNotTests DEF Held
    <3>10. emitExpressionEval[x]["rvalue"][M] = emitArithmeticOp(x, c, d, M)
      BY <2>2, <2>4, <2>7, <3>2, <3>3, EvalUnfolds
    <3>11. PICK v : v = Apply(x[2], Join(t, u), As(a, t, Join(t, u)), As(b, u, Join(t, u)))
      OBVIOUS
    <3>12. Value[x][M] = v
      BY <2>2, <2>5, <2>7, <3>4, <3>5, <3>6, <3>7, <3>11 DEF ValueOfNode, BinaryValue
    <3>13. FloatTest(x, M) <=> (Join(t, u) = "float" /\ x[2] \in {"<", "==", "!="})
      BY <2>7, <3>6, <3>7 DEF FloatTest, Join, Numeric
    <3>14. Held(x, M) = Outcome(x[2], Join(t, u), As(a, t, Join(t, u)), As(b, u, Join(t, u)))
      BY <3>11, <3>12, <3>13 DEF Held, Outcome
    <3> QED BY <3>1, <3>8, <3>9, <3>10, <3>14, ArithmeticYields
  <2>8. CASE x[1] \notin {"unary", "bin"}
    <3>1. emitExpressionEval[x]["rvalue"][M] = emitOperand(x, "rvalue", M)
      BY <2>2, <2>4, <2>8, EvalUnfolds
    <3>2. Held(x, M) = LeafValue(x, M)
      BY <2>2, <2>5, <2>8 DEF Held, FloatTest, ValueOfNode
    <3>3. LeafMeans(x, M)
      BY <2>3, <2>8 DEF MeaningfulNode
    <3>4. Yields(E, X, emitOperand(x, "rvalue", M), LeafValue(x, M))
      BY <2>8, <3>3, OperandYields
    <3> QED BY <3>1, <3>2, <3>4
  <2> QED BY <2>6, <2>7, <2>8
<1> HIDE DEF T
<1>2. Expressions \subseteq T
  BY <1>1, ExprInduct
<1> QED BY <1>2 DEF T

(***************************************************************************)
(* 8  Blocks: their parts, and the equations of the functions on them.     *)
(***************************************************************************)
Simple == Decl \cup InitVar \cup Assign

LEMMA SimpleFields ==
  ASSUME NEW s \in Simple
  PROVE  /\ s.kind \in {"decl", "init", "assign"} /\ s.id \in Ids
         /\ s.kind \in Declaring => s.name \in STRING /\ s.type \in STRING
         /\ s.kind \in {"init", "assign"} => s.rhs \in Expressions
         /\ s.kind = "assign" => s.lhs \in Targets
<1>1. CASE s \in Decl
  BY <1>1 DEF Decl, Declaring
<1>2. CASE s \in InitVar
  BY <1>2 DEF InitVar, Declaring
<1>3. CASE s \in Assign
  BY <1>3 DEF Assign, Declaring
<1> QED BY <1>1, <1>2, <1>3 DEF Simple

LEMMA StatementFields ==
  ASSUME NEW s \in Statement
  PROVE  /\ s.kind \in {"decl", "init", "assign", "if", "while", "for"} /\ s.id \in Ids
         /\ s.kind \notin Compound => s \in Simple
         /\ s.kind \in Compound => s.test \in Expressions /\ s.body \in Bodies
         /\ s.kind = "for" => s.init \in Simple /\ s.update \in Increment \cup Assign
<1>1. CASE s \in Simple
  BY <1>1, SimpleFields DEF Compound
<1>2. CASE s \in Branch
  BY <1>2 DEF Branch, Compound
<1>3. CASE s \in For
  BY <1>3 DEF For, Compound, Simple
<1> QED BY <1>1, <1>2, <1>3 DEF Statement, Simple

LEMMA UpdateFields ==
  ASSUME NEW s \in Increment \cup Assign
  PROVE  /\ s.kind \in {"increment", "assign"} /\ s.id \in Ids /\ s.lhs \in Targets
         /\ s.kind = "assign" => s \in Simple /\ s.rhs \in Expressions
<1>1. CASE s \in Increment
  BY <1>1 DEF Increment
<1>2. CASE s \in Assign
  BY <1>2 DEF Assign, Simple
<1> QED BY <1>1, <1>2

BlocksOf(body) ==
  {b \in Bodies : body # <<>> /\ (b = Tail(body) \/ (Head(body).kind \in Compound /\ b = Head(body).body))}

LEMMA BodyNodes ==
  ASSUME NEW body \in Bodies, body # <<>>
  PROVE  /\ Head(body) \in Statement
         /\ Tail(body) \in BlocksOf(body)
         /\ Head(body).kind \in Compound => Head(body).body \in BlocksOf(body)
         /\ NodesOf(Head(body)) \subseteq Expressions
<1>1. body \in Seq(Statement) /\ Tail(body) \in Bodies /\ NodesOf(Head(body)) \subseteq Expressions
  BY BodyAssumption
<1>2. Head(body) \in Statement
  BY <1>1
<1> QED BY <1>1, <1>2, StatementFields DEF BlocksOf

LEMMA BodyParts ==
  ASSUME NEW body \in Bodies, NEW b \in BlocksOf(body)
  PROVE  b \in Bodies /\ BodyDepth[b] < BodyDepth[body]
BY BodyAssumption DEF BlocksOf

LEMMA BodyInduct ==
  ASSUME NEW T, \A body \in Bodies : BlocksOf(body) \subseteq T => body \in T
  PROVE  Bodies \subseteq T
<1>1. ASSUME NEW body \in Bodies, \A y \in Bodies : BodyDepth[y] < BodyDepth[body] => y \in T
      PROVE  body \in T
  BY <1>1, BodyParts
<1>2. BodyDepth \in [Bodies -> Nat]
  BY BodyAssumption
<1> QED BY <1>1, <1>2, Induct

ByBlocks(V, G) ==
  /\ G \in [[Bodies -> V] -> [Bodies -> V]]
  /\ \A body \in Bodies : \A f, g \in [Bodies -> V] :
       (\A b \in BlocksOf(body) : f[b] = g[b]) => G[f][body] = G[g][body]

LEMMA BodyFixpoint ==
  ASSUME NEW V, NEW G, ByBlocks(V, G), NEW v \in V
  PROVE  \E f \in [Bodies -> V] : f = G[f]
<1>1. BodyDepth \in [Bodies -> Nat] /\ G \in [[Bodies -> V] -> [Bodies -> V]]
  BY BodyAssumption DEF ByBlocks
<1>2. Lowers(G, BodyDepth)
  <2>1. SUFFICES ASSUME NEW body \in Bodies, NEW f \in [Bodies -> V], NEW g \in [Bodies -> V],
                        \A y \in Bodies : BodyDepth[y] < BodyDepth[body] => f[y] = g[y]
                 PROVE  G[f][body] = G[g][body]
    BY <1>1 DEF Lowers
  <2>2. \A b \in BlocksOf(body) : f[b] = g[b]
    BY <2>1, BodyParts
  <2> QED BY <2>2 DEF ByBlocks
<1>3. [body \in Bodies |-> v] \in [Bodies -> V]
  OBVIOUS
<1>4. Recursion(Bodies, V, BodyDepth, G) /\ [Bodies -> V] # {}
  BY <1>1, <1>2, <1>3 DEF Recursion
<1> QED BY <1>4, Fixpoint

(***************************************************************************)
(* Scopes.                                                                 *)
(***************************************************************************)
LEMMA ScopesGrow ==
  ASSUME NEW s \in Simple, NEW L \in Scopes
  PROVE  /\ LocalsAfter(s, L) = After(s, L) /\ After(s, L) \in Scopes
         /\ s.kind \in Declaring => After(s, L) = Append(L, <<s.name, s.type>>)
                                    /\ declareStackVar(s, L) = After(s, L)
<1> DEFINE Vars == (STRING \cup {"this"}) \X (STRING \cup {"T"})
<1>1. LocalsAfter(s, L) = After(s, L)
  BY DEF LocalsAfter, declareStackVar, After
<1>2. CASE s.kind \in Declaring
  <2>1. <<s.name, s.type>> \in Vars
    BY <1>2, SimpleFields
  <2>2. L \in Seq(Vars)
    BY DEF Scopes
  <2> HIDE DEF Vars
  <2>3. Append(L, <<s.name, s.type>>) \in Seq(Vars)
    BY <2>1, <2>2
  <2> QED BY <1>1, <1>2, <2>3 DEF After, Scopes, declareStackVar, Vars
<1>3. CASE s.kind \notin Declaring
  BY <1>1, <1>3 DEF After
<1> QED BY <1>2, <1>3

LEMMA ScopesStay ==
  ASSUME NEW s \in Statement, NEW L \in Scopes
  PROVE  /\ LocalsAfter(s, L) = After(s, L) /\ After(s, L) \in Scopes
         /\ s.kind \in Compound => After(s, L) = L
         /\ Inner(s, L) \in Scopes
<1>1. s.kind \in Compound => After(s, L) = L /\ LocalsAfter(s, L) = L
  BY DEF After, Compound, LocalsAfter, Declaring
<1>2. s.kind \notin Compound => LocalsAfter(s, L) = After(s, L) /\ After(s, L) \in Scopes
  BY StatementFields, ScopesGrow
<1>3. Inner(s, L) \in Scopes
  BY StatementFields, ScopesGrow DEF Inner
<1> QED BY <1>1, <1>2, <1>3

LEMMA ReceiverIsScope == Receiver \in Scopes /\ Len(Receiver) = 1 /\ Receiver[1] = <<"this", "T">>
<1> DEFINE Vars == (STRING \cup {"this"}) \X (STRING \cup {"T"})
<1>1. PICK v \in Vars : v = <<"this", "T">>
  OBVIOUS
<1>2. <<v>> \in Seq(Vars) /\ Len(<<v>>) = 1 /\ <<v>>[1] = v
  BY <1>1, Single
<1> QED BY <1>1, <1>2 DEF Receiver, Scopes

(***************************************************************************)
(* The code of statements is typed.                                        *)
(***************************************************************************)
LEMMA DebugIsCode ==
  /\ Debug("OP_SET") \in Code /\ Debug("TRACE") \in Code
  /\ Debug("CANARYBEGIN") \in Code /\ Debug("CANARYEND") \in Code
  /\ Debug("FOR_STARTED") \in Code /\ Debug("FOR_ENDED") \in Code
  /\ Debug("FOR_CYCLE_START") \in Code /\ Debug("FOR_CYCLE_END") \in Code
<1>1. {"DEBUG", ""} \subseteq Words
  BY LiteralsAreWords DEF Literals
<1>2. \A what \in Words : Debug(what) \in Code
  BY <1>1, InstrIsCode DEF Debug
<1>3. {"OP_SET", "TRACE", "CANARYBEGIN", "CANARYEND", "FOR_STARTED", "FOR_ENDED", "FOR_CYCLE_START", "FOR_CYCLE_END"}
        \subseteq Words
  BY LiteralsAreWords DEF Literals
<1> QED BY <1>2, <1>3

WithId(i, id) == [i EXCEPT !.metadata = id]

LEMMA WithIdTyped ==
  ASSUME NEW i \in Instructions, NEW id \in Words
  PROVE  /\ WithId(i, id) \in Instructions
         /\ WithId(i, id).op = i.op /\ WithId(i, id).a = i.a /\ WithId(i, id).b = i.b
         /\ WithId(i, id).kind = i.kind /\ WithId(i, id).metadata = id
BY DEF WithId, Instructions

LEMMA MarkedLast ==
  ASSUME NEW c \in Code, NEW i \in Instructions, NEW id \in Words
  PROVE  /\ Marked(c \o <<i>>, id) = c \o <<WithId(i, id)>>
         /\ c \o <<WithId(i, id)>> \in Code
         /\ Marked(<<i>>, id) = <<WithId(i, id)>>
<1>1. PICK j \in Instructions : j = WithId(i, id)
  BY WithIdTyped
<1>2. PICK x \in Nat : x = Len(c)
  BY DEF Code
<1>3. PICK d : d = c \o <<i>>
  OBVIOUS
<1>4. PICK e : e = c \o <<j>>
  OBVIOUS
<1>5. /\ d \in Seq(Instructions) /\ Len(d) = x + 1 /\ d[x + 1] = i
      /\ \A n \in 1 .. x : d[n] = c[n]
  BY <1>2, <1>3, Single DEF Code
<1>6. /\ e \in Seq(Instructions) /\ Len(e) = x + 1 /\ e[x + 1] = j
      /\ \A n \in 1 .. x : e[n] = c[n]
  BY <1>2, <1>4, Single DEF Code
<1>7. Marked(d, id) = [d EXCEPT ![x + 1] = WithId(d[x + 1], id)]
  BY <1>5 DEF Marked, WithId
<1>8. Marked(d, id) = e
  <2>1. DOMAIN d = 1 .. x + 1 /\ DOMAIN e = 1 .. x + 1
    BY <1>5, <1>6
  <2>2. ASSUME NEW n \in 1 .. x + 1 PROVE Marked(d, id)[n] = e[n]
    <3>1. CASE n = x + 1
      BY <1>1, <1>5, <1>6, <1>7, <2>1, <3>1
    <3>2. CASE n # x + 1
      <4>1. n \in 1 .. x
        BY <3>2
      <4> QED BY <1>5, <1>6, <1>7, <2>1, <3>2, <4>1
    <3> QED BY <3>1, <3>2
  <2>3. Marked(d, id) = [n \in 1 .. x + 1 |-> Marked(d, id)[n]]
    BY <1>7, <2>1
  <2>4. e = [n \in 1 .. x + 1 |-> e[n]]
    BY <1>6, <2>1
  <2> QED BY <2>2, <2>3, <2>4
<1>9. Marked(<<i>>, id) = <<j>>
  <2>1. Len(<<i>>) = 1 /\ <<i>>[1] = i
    BY Single
  <2>2. Marked(<<i>>, id) = [<<i>> EXCEPT ![1] = WithId(i, id)]
    BY <2>1 DEF Marked, WithId
  <2> QED BY <1>1, <2>2
<1> QED BY <1>1, <1>3, <1>4, <1>6, <1>8, <1>9 DEF Code

LEMMA NamesAreWords == Ids \subseteq Words /\ STRING \subseteq Words
BY LiteralsAreWords DEF Ids

LEMMA LoadAddressIsCode ==
  ASSUME NEW lhs, lhs[1] \in {"id", "dot"}, lhs[2] \in Words, lhs[1] = "dot" => lhs[3] \in Words, NEW L
  PROVE  emitLoadAddress(lhs, L) \in Code
<1>1. {"LOADADDR", "THIS", "EBP", "int32", ""} \subseteq Words
  BY LiteralsAreWords DEF Literals
<1>2. CASE lhs[1] = "dot"
  <2>1. Instr("LOADADDR", "THIS", lhs[3], "int32") \in Code /\ emitVarExpr(lhs[2], "rvalue", L) \in Code
    BY <1>1, <1>2, InstrIsCode, VarExprIsCode
  <2>2. emitLoadAddress(lhs, L) = emitVarExpr(lhs[2], "rvalue", L) \o Instr("LOADADDR", "THIS", lhs[3], "int32")
    BY <1>2 DEF emitLoadAddress
  <2> QED BY <2>1, <2>2, ConcatIsCode
<1>3. CASE lhs[1] = "id"
  <2>1. Instr("LOADADDR", "EBP", lhs[2], "") \in Code /\ loadMemberAddress(lhs[2]) \in Code
    BY <1>1, InstrIsCode, VarExprIsCode
  <2> QED BY <1>3, <2>1, EmptyIsCode DEF emitLoadAddress
<1> QED BY <1>2, <1>3

(* An assignment is its place, its value, a trace and OP_SET.              *)
AssignPrefix(lhs, rhs, L) ==
  emitLoadAddress(lhs, L) \o emitExpressionEval[rhs]["rvalue"][L]
  \o performConversion(resolveQualifiedType[rhs][L], resolveQualifiedType[lhs][L]) \o Debug("OP_SET")
AssignKind(lhs, L) == IF resolveQualifiedType[lhs][L] \in {"int32", "float"} THEN resolveQualifiedType[lhs][L] ELSE "ptr"
SetInstruction(lhs, L) == Instruction("SET", "", "", AssignKind(lhs, L))

LEMMA AssignSplits ==
  ASSUME NEW lhs, lhs[1] \in {"id", "dot"}, lhs[2] \in Words, lhs[1] = "dot" => lhs[3] \in Words,
         NEW rhs \in Expressions, NEW L \in Scopes
  PROVE  /\ AssignPrefix(lhs, rhs, L) \in Code
         /\ SetInstruction(lhs, L) \in Instructions
         /\ compileStaticAssign(lhs, rhs, L) = AssignPrefix(lhs, rhs, L) \o <<SetInstruction(lhs, L)>>
         /\ compileStaticAssign(lhs, rhs, L) \in Code
<1>1. AssignPrefix(lhs, rhs, L) \in Code
  <2>1. PICK a \in Code : a = emitLoadAddress(lhs, L)
    BY LoadAddressIsCode
  <2>2. PICK b \in Code : b = emitExpressionEval[rhs]["rvalue"][L]
    BY EvalIsCode
  <2>3. PICK c \in Code : c = performConversion(resolveQualifiedType[rhs][L], resolveQualifiedType[lhs][L])
    BY ConversionIsCode
  <2>4. PICK d \in Code : d = Debug("OP_SET")
    BY DebugIsCode
  <2>5. a \o b \o c \o d \in Code
    BY ConcatIsCode
  <2> QED BY <2>1, <2>2, <2>3, <2>4, <2>5 DEF AssignPrefix
<1>2. SetInstruction(lhs, L) \in Instructions
  <2>1. {"SET", "", "int32", "float", "ptr"} \subseteq Words
    BY LiteralsAreWords DEF Literals
  <2>2. AssignKind(lhs, L) \in Words
    BY <2>1 DEF AssignKind
  <2> QED BY <2>1, <2>2, InstructionTyped DEF SetInstruction
<1>3. compileStaticAssign(lhs, rhs, L) = AssignPrefix(lhs, rhs, L) \o <<SetInstruction(lhs, L)>>
  BY Zenon DEF compileStaticAssign, AssignPrefix, SetInstruction, AssignKind, Instr
<1>4. AssignPrefix(lhs, rhs, L) \o <<SetInstruction(lhs, L)>> \in Code
  BY <1>1, <1>2, Single DEF Code
<1> QED BY <1>1, <1>2, <1>3, <1>4

LEMMA TargetFields ==
  ASSUME NEW lhs \in Targets
  PROVE  lhs \in Expressions /\ lhs[1] \in {"id", "dot"} /\ lhs[2] \in Words /\ (lhs[1] = "dot" => lhs[3] \in Words)
BY ExprNodes, LiteralsAreWords DEF Targets

LEMMA TargetSplits ==
  ASSUME NEW lhs \in Targets, NEW rhs \in Expressions, NEW L \in Scopes
  PROVE  AssignPrefix(lhs, rhs, L) \in Code /\ SetInstruction(lhs, L) \in Instructions
<1>1. lhs[1] \in {"id", "dot"}
  BY TargetFields
<1>2. lhs[2] \in Words
  BY TargetFields
<1>3. lhs[1] = "dot" => lhs[3] \in Words
  BY TargetFields
<1>4. /\ AssignPrefix(lhs, rhs, L) \in Code /\ SetInstruction(lhs, L) \in Instructions
      /\ compileStaticAssign(lhs, rhs, L) = AssignPrefix(lhs, rhs, L) \o <<SetInstruction(lhs, L)>>
  BY <1>1, <1>2, <1>3, AssignSplits
<1> QED BY <1>4

DeclareInstruction(s) == Instruction("MOV", "down", s.name, "")
IncrementInstruction(s, L) == Instruction("INCREMENT", unaryKind(resolveQualifiedType[s.lhs][L]), 0, "")

LEMMA DeclareTyped ==
  ASSUME NEW s, s.name \in STRING
  PROVE  DeclareInstruction(s) \in Instructions
<1>1. {"MOV", "down", ""} \subseteq Words /\ s.name \in Words
  BY LiteralsAreWords DEF Literals
<1> QED BY <1>1, InstructionTyped DEF DeclareInstruction

(* The mark of a declaration that is refused.                              *)
LEMMA RefusedTyped ==
  ASSUME NEW id \in Words
  PROVE  Marked(Refused, id) \in Code
<1>1. {"REFUSED", ""} \subseteq Words
  BY LiteralsAreWords DEF Literals
<1>2. PICK i \in Instructions : i = Instruction("REFUSED", "", "", "")
  BY <1>1, InstructionTyped
<1>3. Refused = <<i>>
  BY <1>2 DEF Refused, Instr
<1>4. <<WithId(i, id)>> \in Code
  BY WithIdTyped, Single DEF Code
<1>5. <<i>> \in Code
  BY Single DEF Code
<1>6. Marked(<<i>>, id) = <<WithId(i, id)>>
  BY EmptyIsCode, MarkedLast
<1> QED BY <1>3, <1>4, <1>6

LEMMA SimpleSplits ==
  ASSUME NEW s \in Simple, NEW L \in Scopes
  PROVE  /\ compileSimple(s, L) \in Code
         /\ s.kind = "decl" /\ Declarable(s.name, L) =>
              compileSimple(s, L) = <<WithId(DeclareInstruction(s), s.id)>>
         /\ s.kind = "init" /\ Declarable(s.name, L) => compileSimple(s, L) =
              (<<DeclareInstruction(s)>> \o AssignPrefix(<<"id", s.name>>, s.rhs, After(s, L)))
                \o <<WithId(SetInstruction(<<"id", s.name>>, After(s, L)), s.id)>>
         /\ s.kind = "assign" => compileSimple(s, L) =
              AssignPrefix(s.lhs, s.rhs, L) \o <<WithId(SetInstruction(s.lhs, L), s.id)>>
<1>0. s.id \in Words
  BY SimpleFields, NamesAreWords
<1>1. CASE s.kind = "decl" /\ Declarable(s.name, L)
  <2>1. PICK i \in Instructions : i = DeclareInstruction(s)
    BY <1>1, SimpleFields, DeclareTyped DEF Declaring
  <2>2. <<i>> \in Code
    BY Single DEF Code
  <2>3. <<i>> \o <<>> = <<i>>
    BY <2>2 DEF Code
  <2>4. compileSimple(s, L) = Marked(<<i>>, s.id)
    BY <1>1, <2>1, <2>3 DEF compileSimple, compileVarDecl, Instr, DeclareInstruction
  <2>5. <<WithId(i, s.id)>> \in Code
    BY <1>0, WithIdTyped, Single DEF Code
  <2>6. Marked(<<i>>, s.id) = <<WithId(i, s.id)>>
    BY <1>0, EmptyIsCode, MarkedLast
  <2> QED BY <1>1, <2>1, <2>4, <2>5, <2>6
<1>2. CASE s.kind = "init" /\ Declarable(s.name, L)
  <2>1. PICK i \in Instructions : i = DeclareInstruction(s)
    BY <1>2, SimpleFields, DeclareTyped DEF Declaring
  <2>2. <<i>> \in Code
    BY Single DEF Code
  <2>3. PICK M \in Scopes : M = After(s, L)
    BY ScopesGrow
  <2>4. declareStackVar(s, L) = M
    BY <1>2, <2>3, ScopesGrow DEF Declaring
  <2>5. PICK x : x = <<"id", s.name>>
    OBVIOUS
  <2>6. x[1] = "id" /\ x[2] \in Words
    BY <1>2, <2>5, SimpleFields, NamesAreWords DEF Declaring
  <2>a. x[1] \in {"id", "dot"} /\ x[1] # "dot" /\ s.rhs \in Expressions
    BY <1>2, <2>6, SimpleFields
  <2>b. /\ AssignPrefix(x, s.rhs, M) \in Code /\ SetInstruction(x, M) \in Instructions
        /\ compileStaticAssign(x, s.rhs, M) = AssignPrefix(x, s.rhs, M) \o <<SetInstruction(x, M)>>
    BY <2>6, <2>a, AssignSplits
  <2>7. PICK p \in Code : p = AssignPrefix(x, s.rhs, M)
    BY <2>b
  <2>8. PICK j \in Instructions : j = SetInstruction(x, M)
    BY <2>b
  <2>9. compileStaticAssign(x, s.rhs, M) = p \o <<j>>
    BY <2>7, <2>8, <2>b
  <2>10. compileSimple(s, L) = Marked(<<i>> \o (p \o <<j>>), s.id)
    BY <1>2, <2>1, <2>4, <2>5, <2>9 DEF compileSimple, compileVarDecl, Instr, DeclareInstruction
  <2>11. <<i>> \o (p \o <<j>>) = (<<i>> \o p) \o <<j>> /\ <<i>> \o p \in Code
    BY <2>2, Single DEF Code
  <2>12. Marked((<<i>> \o p) \o <<j>>, s.id) = (<<i>> \o p) \o <<WithId(j, s.id)>>
         /\ (<<i>> \o p) \o <<WithId(j, s.id)>> \in Code
    BY <1>0, <2>11, MarkedLast
  <2> QED BY <1>2, <2>1, <2>3, <2>5, <2>7, <2>8, <2>10, <2>11, <2>12
<1>3. CASE s.kind = "assign"
  <2>1. s.lhs \in Targets /\ s.rhs \in Expressions
    BY <1>3, SimpleFields
  <2>a. PICK x \in Targets : x = s.lhs
    BY <2>1
  <2>b. x[1] \in {"id", "dot"} /\ x[2] \in Words /\ (x[1] = "dot" => x[3] \in Words)
    BY TargetFields
  <2>c. /\ AssignPrefix(x, s.rhs, L) \in Code /\ SetInstruction(x, L) \in Instructions
        /\ compileStaticAssign(x, s.rhs, L) = AssignPrefix(x, s.rhs, L) \o <<SetInstruction(x, L)>>
    BY <2>1, <2>b, AssignSplits
  <2>2. PICK p \in Code : p = AssignPrefix(s.lhs, s.rhs, L)
    BY <2>a, <2>c
  <2>3. PICK j \in Instructions : j = SetInstruction(s.lhs, L)
    BY <2>a, <2>c
  <2>4. compileStaticAssign(s.lhs, s.rhs, L) = p \o <<j>>
    BY <2>2, <2>3, <2>a, <2>c
  <2>5. compileSimple(s, L) = Marked(p \o <<j>>, s.id)
    BY <1>3, <2>4 DEF compileSimple
  <2>6. Marked(p \o <<j>>, s.id) = p \o <<WithId(j, s.id)>> /\ p \o <<WithId(j, s.id)>> \in Code
    BY <1>0, MarkedLast
  <2> QED BY <1>3, <2>2, <2>3, <2>5, <2>6
<1>4. CASE s.kind \in Declaring /\ ~ Declarable(s.name, L)
  <2>1. compileVarDecl(s, L) = Refused /\ s.kind # "assign"
    BY <1>4 DEF compileVarDecl, Declaring
  <2>2. compileSimple(s, L) = Marked(Refused, s.id)
    BY <2>1 DEF compileSimple
  <2> QED BY <1>0, <1>4, <2>1, <2>2, RefusedTyped
<1> QED BY <1>1, <1>2, <1>3, <1>4, SimpleFields DEF Declaring

LEMMA UpdateSplits ==
  ASSUME NEW s \in Increment \cup Assign, NEW L \in Scopes,
         s.kind = "increment" => <<"unary", "++", s.lhs>> \in Expressions
  PROVE  /\ compileUpdate(s, L) \in Code
         /\ s.kind = "assign" => compileUpdate(s, L) = compileSimple(s, L)
         /\ s.kind = "increment" =>
              /\ compileUpdate(s, L) =
                   emitOperand(s.lhs, "lvalue", L) \o <<WithId(IncrementInstruction(s, L), s.id)>>
              /\ emitOperand(s.lhs, "lvalue", L) \in Code
              /\ IncrementInstruction(s, L) \in Instructions
<1>1. CASE s.kind = "assign"
  <2>1. compileUpdate(s, L) = compileSimple(s, L)
    BY <1>1 DEF compileUpdate, compileSimple
  <2> QED BY <1>1, <2>1, UpdateFields, SimpleSplits
<1>2. CASE s.kind = "increment"
  <2>0. s.lhs \in Expressions /\ s.lhs[1] \in {"id", "dot"} /\ s.id \in Words
    BY UpdateFields, TargetFields, NamesAreWords
  <2>1. PICK e \in Expressions : e = <<"unary", "++", s.lhs>>
    BY <1>2
  <2>2. e[1] = "unary" /\ e[2] = "++" /\ e[3] = s.lhs
    BY <2>1
  <2>3. "none" \in Contexts /\ "lvalue" \in Contexts
    BY DEF Contexts
  <2>4. PICK c \in Code : c = emitOperand(s.lhs, "lvalue", L)
    BY <2>0, OperandIsCode
  <2>5. emitExpressionEval[s.lhs]["lvalue"][L] = c
    BY <2>0, <2>3, <2>4, EvalUnfolds
  <2>6. PICK i \in Instructions : i = IncrementInstruction(s, L)
    <3>1. {"INCREMENT", ""} \subseteq Words
      BY LiteralsAreWords DEF Literals
    <3>2. 0 \in Words
      BY LiteralsAreWords
    <3>3. unaryKind(resolveQualifiedType[s.lhs][L]) \in Words
      BY KindsAreWords
    <3> QED BY <3>1, <3>2, <3>3, InstructionTyped DEF IncrementInstruction
  <2>7. emitExpressionEval[e]["none"][L] = compileUnaryOperation(e, c, L)
    BY <2>2, <2>3, <2>5, EvalUnfolds DEF operandContext
  <2>8. compileUnaryOperation(e, c, L) = c \o <<i>>
    BY <2>2, <2>6 DEF compileUnaryOperation, IncrementInstruction, Instr
  <2>9. compileUpdate(s, L) = Marked(c \o <<i>>, s.id)
    BY <1>2, <2>1, <2>7, <2>8 DEF compileUpdate
  <2>10. Marked(c \o <<i>>, s.id) = c \o <<WithId(i, s.id)>> /\ c \o <<WithId(i, s.id)>> \in Code
    BY <2>0, MarkedLast
  <2> QED BY <1>2, <2>4, <2>6, <2>9, <2>10
<1> QED BY <1>1, <1>2, UpdateFields

LEMMA OperandTyped ==
  ASSUME NEW n \in Int
  PROVE  Operand(n) \in Int /\ (-Half <= n /\ n < Half => Operand(n) = n)
<1>1. Half \in Nat \ {0} /\ 2 * Half \in Int /\ 2 * Half > 0
  BY HalfAssumption
<1>2. n + Half \in Int
  BY <1>1
<1>3. (n + Half) % (2 * Half) \in Int
  BY <1>1, <1>2
<1>4. ASSUME -Half <= n, n < Half PROVE (n + Half) % (2 * Half) = n + Half
  <2>1. 0 <= n + Half /\ n + Half < 2 * Half
    BY <1>1, <1>4
  <2> QED BY <1>1, <1>2, <2>1
<1> QED BY <1>1, <1>3, <1>4 DEF Operand

JumpInstruction(op, n) == Instruction(op, Operand(n), "", "")

LEMMA JumpTyped ==
  ASSUME NEW op \in {"JZ", "JMP"}, NEW n \in Int, NEW id \in Words
  PROVE  /\ JumpInstruction(op, n) \in Instructions
         /\ Jump(op, n) = <<JumpInstruction(op, n)>>
         /\ Marked(Jump(op, n), id) = <<WithId(JumpInstruction(op, n), id)>>
         /\ WithId(JumpInstruction(op, n), id) \in Instructions
         /\ WithId(JumpInstruction(op, n), id).op = op
         /\ WithId(JumpInstruction(op, n), id).a = Operand(n)
         /\ WithId(JumpInstruction(op, n), id).metadata = id
<1>1. {"JZ", "JMP", ""} \subseteq Words
  BY LiteralsAreWords DEF Literals
<1>2. Operand(n) \in Words
  BY OperandTyped, LiteralsAreWords
<1>3. PICK i \in Instructions : i = JumpInstruction(op, n)
  BY <1>1, <1>2, InstructionTyped DEF JumpInstruction
<1>4. i.op = op /\ i.a = Operand(n)
  BY <1>3 DEF JumpInstruction, Instruction
<1>5. Jump(op, n) = <<i>>
  BY <1>3 DEF Jump, Instr, JumpInstruction
<1>6. Marked(<<i>>, id) = <<WithId(i, id)>>
  BY EmptyIsCode, MarkedLast
<1>7. /\ WithId(i, id) \in Instructions /\ WithId(i, id).op = i.op /\ WithId(i, id).a = i.a
      /\ WithId(i, id).metadata = id
  BY WithIdTyped
<1> QED BY <1>3, <1>4, <1>5, <1>6, <1>7

LEMMA JumpIsCode ==
  ASSUME NEW op \in {"JZ", "JMP"}, NEW n \in Int, NEW id \in Words
  PROVE  Jump(op, n) \in Code /\ Marked(Jump(op, n), id) \in Code
<1>1. PICK i \in Instructions : i = JumpInstruction(op, n)
  BY JumpTyped
<1>2. PICK j \in Instructions : j = WithId(JumpInstruction(op, n), id)
  BY JumpTyped
<1>3. Jump(op, n) = <<i>> /\ Marked(Jump(op, n), id) = <<j>>
  BY <1>1, <1>2, JumpTyped
<1> QED BY <1>3, Single DEF Code

Vars == (STRING \cup {"this"}) \X (STRING \cup {"T"})

LEMMA ReleaseTyped ==
  ASSUME NEW v \in Vars
  PROVE  destructLocalVar(v) \in Instructions
         /\ destructLocalVar(v).op = "MOV" /\ destructLocalVar(v).a = "up" /\ destructLocalVar(v).b = v[1]
<1>1. {"MOV", "up", "this", ""} \subseteq Words
  BY LiteralsAreWords DEF Literals
<1>2. v[1] \in STRING \/ v[1] = "this"
  BY DEF Vars
<1>3. v[1] \in Words
  BY <1>1, <1>2, NamesAreWords
<1>4. Instruction("MOV", "up", v[1], "") \in Instructions
  BY <1>1, <1>3, InstructionTyped
<1> QED BY <1>4 DEF destructLocalVar, Instruction

LEMMA DeclaredLocals ==
  ASSUME NEW M \in Scopes, NEW L \in Scopes
  PROVE  /\ Declared(M, L) \in Seq(Vars)
         /\ Len(M) >= Len(L) => /\ Len(Declared(M, L)) = Len(M) - Len(L)
                                /\ \A n \in 1 .. Len(M) - Len(L) : Declared(M, L)[n] = M[n + Len(L)]
<1>1. PICK x \in Nat : x = Len(L)
  BY DEF Scopes
<1>2. PICK y \in Nat : y = Len(M)
  BY DEF Scopes
<1>3. M \in Seq(Vars)
  BY DEF Scopes, Vars
<1>4. Declared(M, L) = SubSeq(M, x + 1, y)
  BY <1>1, <1>2 DEF Declared
<1>5. \A n \in (x + 1) .. y : M[n] \in Vars
  BY <1>2, <1>3
<1>6. CASE y >= x
  <2>1. SubSeq(M, x + 1, y) \in Seq(Vars) /\ Len(SubSeq(M, x + 1, y)) = y - x
    BY <1>2, <1>3, <1>5, <1>6
  <2>2. ASSUME NEW n \in 1 .. y - x PROVE SubSeq(M, x + 1, y)[n] = M[n + x]
    BY <1>2, <1>3, <1>6
  <2> QED BY <1>1, <1>2, <1>4, <2>1, <2>2
<1>7. CASE y < x
  <2>1. SubSeq(M, x + 1, y) = <<>>
    BY <1>2, <1>3, <1>7
  <2> QED BY <1>1, <1>2, <1>4, <1>7, <2>1
<1> QED BY <1>6, <1>7

LEMMA PopScopeIsCode ==
  ASSUME NEW M \in Scopes, NEW L \in Scopes
  PROVE  pop_scope(Declared(M, L)) \in Code /\ Len(pop_scope(Declared(M, L))) = Len(Declared(M, L))
<1>1. PICK locals \in Seq(Vars) : locals = Declared(M, L)
  BY DeclaredLocals
<1>2. PICK x \in Nat : x = Len(locals)
  OBVIOUS
<1>3. ASSUME NEW n \in 1 .. x PROVE destructLocalVar(locals[x - n + 1]) \in Instructions
  <2>1. x - n + 1 \in 1 .. x
    OBVIOUS
  <2>2. locals[x - n + 1] \in Vars
    BY <1>2, <2>1
  <2> QED BY <2>2, ReleaseTyped
<1>4. pop_scope(locals) = [n \in 1 .. x |-> destructLocalVar(locals[x - n + 1])]
  BY <1>2 DEF pop_scope
<1>5. [n \in 1 .. x |-> destructLocalVar(locals[x - n + 1])] \in Seq(Instructions)
      /\ Len([n \in 1 .. x |-> destructLocalVar(locals[x - n + 1])]) = x
  BY <1>3
<1> QED BY <1>1, <1>2, <1>4, <1>5 DEF Code

LEMMA BlockIsCode ==
  ASSUME NEW statements, statements.code \in Code, statements.scope \in Scopes, NEW L \in Scopes
  PROVE  emitBlock(statements, L) \in Code
<1>1. PICK a \in Code : a = Debug("CANARYBEGIN")
  BY DebugIsCode
<1>2. PICK b \in Code : b = statements.code
  OBVIOUS
<1>3. PICK c \in Code : c = pop_scope(Declared(statements.scope, L))
  BY PopScopeIsCode
<1>4. PICK d \in Code : d = Debug("CANARYEND")
  BY DebugIsCode
<1>5. a \o b \o c \o d \in Code
  BY ConcatIsCode
<1> QED BY <1>1, <1>2, <1>3, <1>4, <1>5 DEF emitBlock

LEMMA LoopIsCode ==
  ASSUME NEW test \in Code, NEW id \in Words, NEW body \in Code
  PROVE  Loop(test, id, body) \in Code
<1>1. PICK x \in Nat : x = Len(test)
  BY DEF Code
<1>2. PICK y \in Nat : y = Len(body)
  BY DEF Code
<1>3. x + 1 + y - x \in Int /\ -(x + 1 + y + 1) \in Int
  OBVIOUS
<1>4. Marked(Jump("JZ", x + 1 + y - x), id) \in Code
  BY <1>3, JumpIsCode
<1>5. Jump("JMP", -(x + 1 + y + 1)) \in Code
  BY <1>3, JumpIsCode
<1>6. PICK a \in Code : a = Marked(Jump("JZ", x + 1 + y - x), id)
  BY <1>4
<1>7. PICK b \in Code : b = Jump("JMP", -(x + 1 + y + 1))
  BY <1>5
<1>8. test \o a \o body \o b \in Code
  BY ConcatIsCode
<1> QED BY <1>1, <1>2, <1>6, <1>7, <1>8 DEF Loop

LEMMA UpdateNodes ==
  ASSUME NEW s \in Statement, s.kind = "for", NodesOf(s) \subseteq Expressions
  PROVE  s.update.kind = "increment" => <<"unary", "++", s.update.lhs>> \in Expressions
BY DEF NodesOf

LEMMA StatementIsCode ==
  ASSUME NEW s \in Statement, NodesOf(s) \subseteq Expressions, NEW block \in Code, NEW L \in Scopes
  PROVE  emitStatement(s, block, L) \in Code
<1>0. s.id \in Words
  BY StatementFields, NamesAreWords
<1>1. CASE s.kind = "if"
  <2>1. PICK a \in Code : a = emitExpressionEval[s.test]["rvalue"][L]
    BY <1>1, StatementFields, EvalIsCode DEF Compound
  <2>2. PICK t : t = resolveQualifiedType[s.test][L]
    OBVIOUS
  <2>3. PICK b \in Code : b = IF t # "bool" THEN performConversion(t, "bool") ELSE <<>>
    BY ConversionIsCode, EmptyIsCode
  <2>4. Len(block) \in Int
    BY DEF Code
  <2>5. PICK c \in Code : c = Marked(Jump("JZ", Len(block)), s.id)
    BY <1>0, <2>4, JumpIsCode
  <2>6. a \o b \o c \o block \in Code
    BY ConcatIsCode
  <2>7. emitStatement(s, block, L) = emitBranchCode(s, block, L)
    BY <1>1 DEF emitStatement
  <2> QED BY <2>1, <2>2, <2>3, <2>5, <2>6, <2>7 DEF emitBranchCode
<1>2. CASE s.kind = "while"
  <2>1. PICK a \in Code : a = emitExpressionEval[s.test]["none"][L]
    BY <1>2, StatementFields, EvalIsCode DEF Compound
  <2>2. emitStatement(s, block, L) = Loop(a, s.id, block)
    BY <1>2, <2>1 DEF emitStatement, emitWhileLoop
  <2> QED BY <1>0, <2>2, LoopIsCode
<1>3. CASE s.kind = "for"
  <2>1. PICK M \in Scopes : M = LocalsAfter(s.init, L)
    BY <1>3, StatementFields, ScopesGrow
  <2>2. PICK a \in Code : a = emitExpressionEval[s.test]["none"][M]
    BY <1>3, StatementFields, EvalIsCode DEF Compound
  <2>3. PICK u \in Code : u = compileUpdate(s.update, M)
    BY <1>3, StatementFields, UpdateSplits, UpdateNodes
  <2>4. PICK i \in Code : i = compileSimple(s.init, L)
    BY <1>3, StatementFields, SimpleSplits
  <2>5. PICK p \in Code : p = pop_scope(Declared(M, L))
    BY PopScopeIsCode
  <2>6. PICK d1 \in Code : d1 = Debug("FOR_CYCLE_START")
    BY DebugIsCode
  <2>7. PICK d2 \in Code : d2 = Debug("FOR_CYCLE_END")
    BY DebugIsCode
  <2>8. PICK d3 \in Code : d3 = Debug("FOR_STARTED")
    BY DebugIsCode
  <2>9. PICK d4 \in Code : d4 = Debug("FOR_ENDED")
    BY DebugIsCode
  <2>10. PICK x \in Code : x = d1 \o block \o d2 \o u
    BY ConcatIsCode
  <2>11. PICK l \in Code : l = Loop(a, s.id, x)
    BY <1>0, LoopIsCode
  <2>12. d3 \o i \o l \o p \o d4 \in Code
    BY ConcatIsCode
  <2>13. emitStatement(s, block, L) = d3 \o i \o l \o p \o d4
    BY <1>3, <2>1, <2>2, <2>3, <2>4, <2>5, <2>6, <2>7, <2>8, <2>9, <2>10, <2>11 DEF emitStatement, emitForLoop
  <2> QED BY <2>12, <2>13
<1>4. CASE s.kind \notin Compound
  <2>1. emitStatement(s, block, L) = compileSimple(s, L)
    BY <1>4 DEF emitStatement, Compound
  <2> QED BY <1>4, <2>1, StatementFields, SimpleSplits
<1> QED BY <1>1, <1>2, <1>3, <1>4 DEF Compound

(***************************************************************************)
(* The equation of Statements.                                             *)
(***************************************************************************)
Pieces == [Scopes -> [code : Code, scope : Scopes]]
BlockOf(f, s, L) ==
  IF s.kind \in Compound THEN emitBlock(f[s.body][Inner(s, L)], Inner(s, L)) ELSE <<>>
PieceOf(f, body, L) ==
  LET s == Head(body)
      rest == f[Tail(body)][LocalsAfter(s, L)]
  IN [code |-> emitStatement(s, BlockOf(f, s, L), L) \o Debug("TRACE") \o rest.code, scope |-> rest.scope]
PiecesOf(f, body) ==
  [L \in Scopes |-> IF body = <<>> THEN [code |-> <<>>, scope |-> L] ELSE PieceOf(f, body, L)]

LEMMA PiecesOfIsByBlocks ==
  ASSUME NEW body \in Bodies, NEW f, NEW g, \A b \in BlocksOf(body) : f[b] = g[b]
  PROVE  PiecesOf(f, body) = PiecesOf(g, body)
<1>1. CASE body = <<>>
  BY <1>1 DEF PiecesOf
<1>2. CASE body # <<>>
  <2>1. f[Tail(body)] = g[Tail(body)]
    BY <1>2, BodyNodes
  <2>2. ASSUME NEW L PROVE BlockOf(f, Head(body), L) = BlockOf(g, Head(body), L)
    BY <1>2, BodyNodes DEF BlockOf
  <2>3. ASSUME NEW L PROVE PieceOf(f, body, L) = PieceOf(g, body, L)
    BY <2>1, <2>2 DEF PieceOf
  <2> QED BY <1>2, <2>3 DEF PiecesOf
<1> QED BY <1>1, <1>2

LEMMA PiecesOfArePieces ==
  ASSUME NEW body \in Bodies, NEW f, \A b \in BlocksOf(body) : f[b] \in Pieces
  PROVE  PiecesOf(f, body) \in Pieces
<1>1. CASE body = <<>>
  BY <1>1, EmptyIsCode DEF PiecesOf, Pieces
<1>2. CASE body # <<>>
  <2>1. ASSUME NEW L \in Scopes PROVE PieceOf(f, body, L) \in [code : Code, scope : Scopes]
    <3>1. PICK s \in Statement : s = Head(body) /\ NodesOf(s) \subseteq Expressions
      BY <1>2, BodyNodes
    <3>2. LocalsAfter(s, L) \in Scopes /\ Inner(s, L) \in Scopes
      BY ScopesStay
    <3>3. PICK rest \in [code : Code, scope : Scopes] : rest = f[Tail(body)][LocalsAfter(s, L)]
      BY <1>2, <3>2, BodyNodes DEF Pieces
    <3>4. BlockOf(f, s, L) \in Code
      <4>1. CASE s.kind \in Compound
        <5>1. PICK inside \in [code : Code, scope : Scopes] : inside = f[s.body][Inner(s, L)]
          BY <1>2, <3>1, <3>2, <4>1, BodyNodes DEF Pieces
        <5>2. emitBlock(inside, Inner(s, L)) \in Code
          BY <3>2, BlockIsCode
        <5> QED BY <4>1, <5>1, <5>2 DEF BlockOf
      <4>2. CASE s.kind \notin Compound
        BY <4>2, EmptyIsCode DEF BlockOf
      <4> QED BY <4>1, <4>2
    <3>5. PICK c \in Code : c = emitStatement(s, BlockOf(f, s, L), L)
      BY <3>1, <3>4, StatementIsCode
    <3>6. PICK d \in Code : d = Debug("TRACE")
      BY DebugIsCode
    <3>7. c \o d \o rest.code \in Code
      BY ConcatIsCode
    <3> QED BY <3>1, <3>3, <3>5, <3>6, <3>7 DEF PieceOf
  <2> QED BY <1>2, <2>1 DEF PiecesOf, Pieces
<1> QED BY <1>1, <1>2

LEMMA StatementsEquation ==
  /\ Statements = [body \in Bodies |-> PiecesOf(Statements, body)]
  /\ Statements \in [Bodies -> Pieces]
<1> DEFINE G == [f \in [Bodies -> Pieces] |-> [body \in Bodies |-> PiecesOf(f, body)]]
<1>1. G \in [[Bodies -> Pieces] -> [Bodies -> Pieces]]
  <2>1. ASSUME NEW f \in [Bodies -> Pieces], NEW body \in Bodies PROVE PiecesOf(f, body) \in Pieces
    BY BodyParts, PiecesOfArePieces
  <2> QED BY <2>1
<1>2. ByBlocks(Pieces, G)
  <2>1. ASSUME NEW body \in Bodies, NEW f \in [Bodies -> Pieces], NEW g \in [Bodies -> Pieces],
               \A b \in BlocksOf(body) : f[b] = g[b]
        PROVE  G[f][body] = G[g][body]
    <3>1. PiecesOf(f, body) = PiecesOf(g, body)
      BY <2>1, PiecesOfIsByBlocks
    <3> QED BY <3>1
  <2> HIDE DEF G
  <2> QED BY <1>1, <2>1 DEF ByBlocks
<1>3. [L \in Scopes |-> [code |-> <<>>, scope |-> L]] \in Pieces
  BY EmptyIsCode DEF Pieces
<1>4. PICK f \in [Bodies -> Pieces] : f = G[f]
  <2> HIDE DEF G
  <2> QED BY <1>2, <1>3, BodyFixpoint
<1>5. f = [body \in Bodies |-> PiecesOf(f, body)]
  BY <1>4
<1>6. Statements = CHOOSE h : h = [body \in Bodies |-> PiecesOf(h, body)]
  BY DEF Statements, PiecesOf, PieceOf, BlockOf
<1>7. Statements = [body \in Bodies |-> PiecesOf(Statements, body)]
  BY <1>5, <1>6
<1>8. Bodies \subseteq {body \in Bodies : Statements[body] \in Pieces}
  <2> DEFINE T == {body \in Bodies : Statements[body] \in Pieces}
  <2>1. ASSUME NEW body \in Bodies, BlocksOf(body) \subseteq T PROVE body \in T
    <3>1. PiecesOf(Statements, body) \in Pieces
      BY <2>1, PiecesOfArePieces
    <3>2. Statements[body] = PiecesOf(Statements, body)
      BY <1>7
    <3> QED BY <3>1, <3>2
  <2> HIDE DEF T
  <2>2. Bodies \subseteq T
    BY <2>1, BodyInduct
  <2> QED BY <2>2 DEF T
<1>9. Statements \in [Bodies -> Pieces]
  BY <1>7, <1>8
<1> QED BY <1>7, <1>9

(***************************************************************************)
(* The equations of Edges and of Sites.                                    *)
(***************************************************************************)
Arrows == Ids \X {"done", "true", "false"} \X Labels

EdgesOf(f, body) ==
  [after \in Labels |->
     IF body = <<>> THEN {}
     ELSE
     LET s == Head(body)
         next == First(Tail(body), after)
     IN f[Tail(body)][after]
        \cup (IF s.kind \in Compound
              THEN {<<s.id, "true", First(s.body, Again(s, next))>>, <<s.id, "false", next>>}
                   \cup f[s.body][Again(s, next)]
              ELSE {<<s.id, "done", next>>})
        \cup (IF s.kind = "for" THEN {<<s.init.id, "done", s.id>>, <<s.update.id, "done", s.id>>} ELSE {})]

LEMMA FirstIsLabel ==
  ASSUME NEW body \in Bodies, NEW after \in Labels
  PROVE  First(body, after) \in Labels
<1>1. CASE body = <<>>
  BY <1>1 DEF First
<1>2. CASE body # <<>>
  <2>1. PICK s \in Statement : s = Head(body)
    BY <1>2, BodyNodes
  <2>2. s.id \in Ids /\ (s.kind = "for" => s.init.id \in Ids)
    BY StatementFields, SimpleFields DEF Compound
  <2> QED BY <1>2, <2>1, <2>2 DEF First, Labels
<1> QED BY <1>1, <1>2

LEMMA AgainIsLabel ==
  ASSUME NEW s \in Statement, NEW next \in Labels
  PROVE  Again(s, next) \in Labels
<1>1. s.id \in Ids /\ (s.kind = "for" => s.update.id \in Ids)
  BY StatementFields, UpdateFields DEF Compound
<1> QED BY <1>1 DEF Again, Labels

LEMMA EdgesOfIsByBlocks ==
  ASSUME NEW body \in Bodies, NEW f, NEW g, \A b \in BlocksOf(body) : f[b] = g[b]
  PROVE  EdgesOf(f, body) = EdgesOf(g, body)
<1>1. CASE body = <<>>
  BY <1>1 DEF EdgesOf
<1>2. CASE body # <<>>
  <2>1. f[Tail(body)] = g[Tail(body)] /\ (Head(body).kind \in Compound => f[Head(body).body] = g[Head(body).body])
    BY <1>2, BodyNodes
  <2> QED BY <1>2, <2>1 DEF EdgesOf
<1> QED BY <1>1, <1>2

LEMMA EdgesOfAreArrows ==
  ASSUME NEW body \in Bodies, NEW f, \A b \in BlocksOf(body) : f[b] \in [Labels -> SUBSET Arrows]
  PROVE  EdgesOf(f, body) \in [Labels -> SUBSET Arrows]
<1>1. CASE body = <<>>
  BY <1>1 DEF EdgesOf
<1>2. CASE body # <<>>
  <2>1. ASSUME NEW after \in Labels PROVE EdgesOf(f, body)[after] \subseteq Arrows
    <3>1. PICK s \in Statement : s = Head(body)
      BY <1>2, BodyNodes
    <3>2. PICK next \in Labels : next = First(Tail(body), after)
      BY <1>2, FirstIsLabel, BodyNodes, BodyParts
    <3>3. Again(s, next) \in Labels
      BY AgainIsLabel
    <3>4. f[Tail(body)][after] \subseteq Arrows
      BY <1>2, BodyNodes
    <3>5. s.id \in Ids /\ (s.kind = "for" => s.init.id \in Ids /\ s.update.id \in Ids)
      BY StatementFields, SimpleFields, UpdateFields DEF Compound
    <3>6. <<s.id, "done", next>> \in Arrows /\ <<s.id, "false", next>> \in Arrows
      BY <3>5 DEF Arrows
    <3>7. s.kind \in Compound => <<s.id, "true", First(s.body, Again(s, next))>> \in Arrows
                                 /\ f[s.body][Again(s, next)] \subseteq Arrows
      BY <1>2, <3>1, <3>3, <3>5, StatementFields, FirstIsLabel, BodyNodes DEF Arrows
    <3>8. s.kind = "for" => <<s.init.id, "done", s.id>> \in Arrows /\ <<s.update.id, "done", s.id>> \in Arrows
      BY <3>5 DEF Arrows, Labels
    <3> QED BY <1>2, <3>1, <3>2, <3>4, <3>6, <3>7, <3>8 DEF EdgesOf
  <2> QED BY <2>1 DEF EdgesOf
<1> QED BY <1>1, <1>2

LEMMA EdgesEquation ==
  /\ Edges = [body \in Bodies |-> EdgesOf(Edges, body)]
  /\ Edges \in [Bodies -> [Labels -> SUBSET Arrows]]
<1> DEFINE V == [Labels -> SUBSET Arrows]
           G == [f \in [Bodies -> V] |-> [body \in Bodies |-> EdgesOf(f, body)]]
<1>1. G \in [[Bodies -> V] -> [Bodies -> V]]
  <2>1. ASSUME NEW f \in [Bodies -> V], NEW body \in Bodies PROVE EdgesOf(f, body) \in V
    BY BodyParts, EdgesOfAreArrows
  <2> QED BY <2>1
<1>2. ByBlocks(V, G)
  <2>1. ASSUME NEW body \in Bodies, NEW f \in [Bodies -> V], NEW g \in [Bodies -> V],
               \A b \in BlocksOf(body) : f[b] = g[b]
        PROVE  G[f][body] = G[g][body]
    <3>1. EdgesOf(f, body) = EdgesOf(g, body)
      BY <2>1, EdgesOfIsByBlocks
    <3> QED BY <3>1
  <2> HIDE DEF G, V
  <2> QED BY <1>1, <2>1 DEF ByBlocks
<1>3. [after \in Labels |-> {}] \in V
  OBVIOUS
<1>4. PICK f \in [Bodies -> V] : f = G[f]
  <2> HIDE DEF G, V
  <2> QED BY <1>2, <1>3, BodyFixpoint
<1>5. f = [body \in Bodies |-> EdgesOf(f, body)]
  BY <1>4
<1>6. Edges = CHOOSE h : h = [body \in Bodies |-> EdgesOf(h, body)]
  BY DEF Edges, EdgesOf
<1>7. Edges = [body \in Bodies |-> EdgesOf(Edges, body)]
  BY <1>5, <1>6
<1>8. Bodies \subseteq {body \in Bodies : Edges[body] \in V}
  <2> DEFINE T == {body \in Bodies : Edges[body] \in V}
  <2>1. ASSUME NEW body \in Bodies, BlocksOf(body) \subseteq T PROVE body \in T
    <3>1. EdgesOf(Edges, body) \in V
      BY <2>1, EdgesOfAreArrows
    <3>2. Edges[body] = EdgesOf(Edges, body)
      BY <1>7
    <3> QED BY <3>1, <3>2
  <2> HIDE DEF T
  <2>2. Bodies \subseteq T
    BY <2>1, BodyInduct
  <2> QED BY <2>2 DEF T
<1>9. Edges \in [Bodies -> V]
  BY <1>7, <1>8
<1> QED BY <1>7, <1>9

Placed == (Statement \cup Increment) \X Scopes

SitesOf(f, body) ==
  [L \in Scopes |->
     IF body = <<>> THEN {}
     ELSE
     LET s == Head(body)
         inner == IF s.kind = "for" THEN After(s.init, L) ELSE L
     IN {<<s, inner>>} \cup f[Tail(body)][After(s, L)]
        \cup (IF s.kind \in Compound THEN f[s.body][inner] ELSE {})
        \cup (IF s.kind = "for" THEN {<<s.init, L>>, <<s.update, inner>>} ELSE {})]

LEMMA SitesOfIsByBlocks ==
  ASSUME NEW body \in Bodies, NEW f, NEW g, \A b \in BlocksOf(body) : f[b] = g[b]
  PROVE  SitesOf(f, body) = SitesOf(g, body)
<1>1. CASE body = <<>>
  BY <1>1 DEF SitesOf
<1>2. CASE body # <<>>
  <2>1. f[Tail(body)] = g[Tail(body)] /\ (Head(body).kind \in Compound => f[Head(body).body] = g[Head(body).body])
    BY <1>2, BodyNodes
  <2> QED BY <1>2, <2>1 DEF SitesOf
<1> QED BY <1>1, <1>2

LEMMA InnerScopes ==
  ASSUME NEW s \in Statement, NEW L \in Scopes
  PROVE  /\ Inner(s, L) = IF s.kind = "for" THEN After(s.init, L) ELSE L
         /\ s.kind = "for" => LocalsAfter(s.init, L) = Inner(s, L)
BY StatementFields, ScopesGrow DEF Inner, Compound

LEMMA SitesOfArePlaced ==
  ASSUME NEW body \in Bodies, NEW f, \A b \in BlocksOf(body) : f[b] \in [Scopes -> SUBSET Placed]
  PROVE  SitesOf(f, body) \in [Scopes -> SUBSET Placed]
<1>1. CASE body = <<>>
  BY <1>1 DEF SitesOf
<1>2. CASE body # <<>>
  <2>1. ASSUME NEW L \in Scopes PROVE SitesOf(f, body)[L] \subseteq Placed
    <3>1. PICK s \in Statement : s = Head(body)
      BY <1>2, BodyNodes
    <3>2. PICK inner \in Scopes : inner = Inner(s, L)
      BY ScopesStay
    <3>3. inner = IF s.kind = "for" THEN After(s.init, L) ELSE L
      BY <3>2, InnerScopes
    <3>4. f[Tail(body)][After(s, L)] \subseteq Placed
      BY <1>2, <3>1, BodyNodes, ScopesStay
    <3>5. s.kind \in Compound => f[s.body][inner] \subseteq Placed
      BY <1>2, <3>1, BodyNodes
    <3>6. s.kind = "for" => s.init \in Statement /\ s.update \in Statement \cup Increment
      BY StatementFields DEF Compound, Statement, Simple
    <3> QED BY <1>2, <3>1, <3>3, <3>4, <3>5, <3>6 DEF SitesOf, Placed
  <2> QED BY <2>1 DEF SitesOf
<1> QED BY <1>1, <1>2

LEMMA SitesEquation ==
  /\ Sites = [body \in Bodies |-> SitesOf(Sites, body)]
  /\ Sites \in [Bodies -> [Scopes -> SUBSET Placed]]
<1> DEFINE V == [Scopes -> SUBSET Placed]
           G == [f \in [Bodies -> V] |-> [body \in Bodies |-> SitesOf(f, body)]]
<1>1. G \in [[Bodies -> V] -> [Bodies -> V]]
  <2>1. ASSUME NEW f \in [Bodies -> V], NEW body \in Bodies PROVE SitesOf(f, body) \in V
    BY BodyParts, SitesOfArePlaced
  <2> QED BY <2>1
<1>2. ByBlocks(V, G)
  <2>1. ASSUME NEW body \in Bodies, NEW f \in [Bodies -> V], NEW g \in [Bodies -> V],
               \A b \in BlocksOf(body) : f[b] = g[b]
        PROVE  G[f][body] = G[g][body]
    <3>1. SitesOf(f, body) = SitesOf(g, body)
      BY <2>1, SitesOfIsByBlocks
    <3> QED BY <3>1
  <2> HIDE DEF G, V
  <2> QED BY <1>1, <2>1 DEF ByBlocks
<1>3. [L \in Scopes |-> {}] \in V
  OBVIOUS
<1>4. PICK f \in [Bodies -> V] : f = G[f]
  <2> HIDE DEF G, V
  <2> QED BY <1>2, <1>3, BodyFixpoint
<1>5. f = [body \in Bodies |-> SitesOf(f, body)]
  BY <1>4
<1>6. Sites = CHOOSE h : h = [body \in Bodies |-> SitesOf(h, body)]
  BY DEF Sites, SitesOf
<1>7. Sites = [body \in Bodies |-> SitesOf(Sites, body)]
  BY <1>5, <1>6
<1>8. Bodies \subseteq {body \in Bodies : Sites[body] \in V}
  <2> DEFINE T == {body \in Bodies : Sites[body] \in V}
  <2>1. ASSUME NEW body \in Bodies, BlocksOf(body) \subseteq T PROVE body \in T
    <3>1. SitesOf(Sites, body) \in V
      BY <2>1, SitesOfArePlaced
    <3>2. Sites[body] = SitesOf(Sites, body)
      BY <1>7
    <3> QED BY <3>1, <3>2
  <2> HIDE DEF T
  <2>2. Bodies \subseteq T
    BY <2>1, BodyInduct
  <2> QED BY <2>2 DEF T
<1>9. Sites \in [Bodies -> V]
  BY <1>7, <1>8
<1> QED BY <1>7, <1>9

(***************************************************************************)
(* 9  Assignments and declarations do what they say.                       *)
(***************************************************************************)
Slots(L) == [n \in 1 .. Len(L) |-> Slot(L[n][1])]
AllSlots(s) == \A n \in DOMAIN s : s[n][2] = "slot"

LEMMA SlotsAreSlots ==
  ASSUME NEW L \in Scopes
  PROVE  IsSeq(Slots(L)) /\ Len(Slots(L)) = Len(L) /\ Len(L) \in Nat /\ AllSlots(Slots(L))
<1>1. PICK x \in Nat : x = Len(L)
  BY DEF Scopes
<1> DEFINE S == {Slot(L[n][1]) : n \in 1 .. x}
<1>2. Slots(L) = [n \in 1 .. x |-> Slot(L[n][1])]
  BY <1>1 DEF Slots
<1>3. [n \in 1 .. x |-> Slot(L[n][1])] \in Seq(S) /\ Len([n \in 1 .. x |-> Slot(L[n][1])]) = x
  OBVIOUS
<1>4. AllSlots(Slots(L))
  BY <1>2 DEF AllSlots, Slot, Leaf
<1> QED BY <1>1, <1>2, <1>3, <1>4 DEF IsSeq

LEMMA SlotsPush ==
  ASSUME NEW s \in Simple, s.kind \in Declaring, NEW L \in Scopes
  PROVE  Slots(After(s, L)) = Append(Slots(L), Slot(s.name))
<1>1. PICK v \in Vars : v = <<s.name, s.type>>
  BY SimpleFields DEF Vars
<1>2. After(s, L) = Append(L, v)
  BY <1>1 DEF After
<1>3. PICK x \in Nat : x = Len(L)
  BY DEF Scopes
<1>4. L \in Seq(Vars)
  BY DEF Scopes, Vars
<1>5. PICK M : M = Append(L, v)
  OBVIOUS
<1>6. M \in Seq(Vars) /\ Len(M) = x + 1 /\ M[x + 1] = v /\ \A n \in 1 .. x : M[n] = L[n]
  BY <1>3, <1>4, <1>5
<1>7. Slots(M) = [n \in 1 .. x + 1 |-> Slot(M[n][1])] /\ Slots(L) = [n \in 1 .. x |-> Slot(L[n][1])]
  BY <1>3, <1>6 DEF Slots
<1> DEFINE S == {Slot(M[n][1]) : n \in 1 .. x + 1}
<1>8. Slots(M) \in Seq(S) /\ Len(Slots(M)) = x + 1
  BY <1>7
<1>9. Slots(L) \in Seq(S) /\ Len(Slots(L)) = x
  <2>1. \A n \in 1 .. x : Slot(L[n][1]) \in S
    BY <1>6
  <2> QED BY <1>7, <2>1
<1>10. Slot(s.name) \in S /\ Slot(s.name) = Slot(M[x + 1][1])
  BY <1>1, <1>6
<1>11. \A n \in 1 .. x : Slots(M)[n] = Slots(L)[n]
  BY <1>6, <1>7
<1>12. Slots(M)[x + 1] = Slot(s.name)
  BY <1>7, <1>10
<1> HIDE DEF S
<1>13. PICK A : A = Append(Slots(L), Slot(s.name))
  OBVIOUS
<1>14. A \in Seq(S) /\ Len(A) = x + 1 /\ A[x + 1] = Slot(s.name) /\ \A n \in 1 .. x : A[n] = Slots(L)[n]
  BY <1>9, <1>10, <1>13
<1>15. \A n \in 1 .. x + 1 : Slots(M)[n] = A[n]
  <2>1. ASSUME NEW n \in 1 .. x + 1 PROVE Slots(M)[n] = A[n]
    <3>1. n = x + 1 \/ n \in 1 .. x
      OBVIOUS
    <3> QED BY <1>11, <1>12, <1>14, <3>1
  <2> QED BY <2>1
<1>16. Slots(M) = A
  BY <1>8, <1>14, <1>15
<1> QED BY <1>2, <1>5, <1>13, <1>16

LEMMA DebugRuns ==
  ASSUME NEW E, NEW X, NEW what \in Words, NEW s, NEW next, IsSeq(s), what = "OP_SET" \/ AllSlots(s)
  PROVE  Runs(E, X, Debug(what), Point(s, next), Point(s, next))
<1>1. {"DEBUG", ""} \subseteq Words
  BY LiteralsAreWords DEF Literals
<1>2. PICK i \in Instructions : i = Instruction("DEBUG", what, "", "")
  BY <1>1, InstructionTyped
<1>3. i.op = "DEBUG" /\ i.a = what
  BY <1>2 DEF Instruction
<1>4. Traces(i, Point(s, next), Point(s, next))
  BY <1>3, PointParts DEF Traces, AllSlots
<1>5. Straight(E, X, i, Point(s, next), Point(s, next))
  BY <1>3, <1>4 DEF Straight
<1>6. IsSeq(Point(s, next).stack)
  BY PointParts
<1>7. Runs(E, X, <<i>>, Point(s, next), Point(s, next))
  BY <1>3, <1>5, <1>6, RunsStep
<1> QED BY <1>2, <1>7 DEF Debug, Instr

LEMMA DebugPoints ==
  ASSUME NEW E, NEW X, NEW s, NEW next, IsSeq(s), AllSlots(s), NEW c,
         c \in {Debug("TRACE"), Debug("CANARYBEGIN"), Debug("CANARYEND"), Debug("FOR_STARTED"), Debug("FOR_ENDED"),
                Debug("FOR_CYCLE_START"), Debug("FOR_CYCLE_END")}
  PROVE  Runs(E, X, c, Point(s, next), Point(s, next)) /\ c \in Code
<1>1. {"TRACE", "CANARYBEGIN", "CANARYEND", "FOR_STARTED", "FOR_ENDED", "FOR_CYCLE_START", "FOR_CYCLE_END"}
        \subseteq Words
  BY LiteralsAreWords DEF Literals
<1>2. PICK what \in Words : c = Debug(what)
  BY <1>1
<1>3. Runs(E, X, Debug(what), Point(s, next), Point(s, next))
  BY DebugRuns
<1>4. c \in Code
  BY DebugIsCode
<1> QED BY <1>2, <1>3, <1>4

(* The outermost variable of a name is the last one declared.              *)
LEMMA InitialisedLocal ==
  ASSUME NEW s \in Simple, s.kind = "init", NEW L \in Scopes, NEW e \in Expressions, e = <<"id", s.name>>
  PROVE  /\ Place(e, After(s, L)) = Leaf(s.name, Writes)
         /\ Type[e][After(s, L)] = s.type
<1>1. PICK v \in Vars : v = <<s.name, s.type>>
  BY SimpleFields DEF Vars, Declaring
<1>2. PICK M \in Scopes : M = After(s, L)
  BY ScopesGrow
<1>3. M = Append(L, v) /\ L \in Seq(Vars)
  BY <1>1, <1>2 DEF After, Declaring, Scopes, Vars
<1>4. PICK x \in Nat : x = Len(L)
  BY <1>3
<1>5. Len(M) = x + 1 /\ M[x + 1] = v /\ DOMAIN M = 1 .. x + 1
  BY <1>3, <1>4
<1>6. x + 1 \in Places(s.name, M) /\ \A m \in Places(s.name, M) : m \in Nat /\ x + 1 >= m
  BY <1>1, <1>5 DEF Places
<1>7. (CHOOSE n \in Places(s.name, M) : \A m \in Places(s.name, M) : n >= m) = x + 1
  <2>1. PICK n \in Places(s.name, M) : n = CHOOSE k \in Places(s.name, M) : \A m \in Places(s.name, M) : k >= m
    BY <1>6
  <2>2. \A m \in Places(s.name, M) : n >= m
    BY <1>6, <2>1
  <2>3. n >= x + 1 /\ x + 1 >= n /\ n \in Nat
    BY <1>6, <2>2
  <2>4. n = x + 1
    BY <2>3
  <2> QED BY <2>1, <2>4
<1>8. TypeOf(s.name, M) = s.type
  BY <1>1, <1>5, <1>6, <1>7 DEF TypeOf
<1>9. e[1] = "id" /\ e[2] = s.name
  OBVIOUS
<1>10. Type[e][M] = SaidOfNode(Type, e)[M]
  BY TypeEquation
<1>11. Type[e][M] = s.type
  BY <1>8, <1>9, <1>10 DEF SaidOfNode, LeafType
<1>12. Place(e, M) = Leaf(s.name, Writes)
  BY <1>6, <1>9 DEF Place, Variable
<1> QED BY <1>2, <1>11, <1>12

LEMMA TargetTypes ==
  ASSUME NEW lhs \in Targets, NEW L \in Scopes
  PROVE  resolveQualifiedType[lhs][L] = Type[lhs][L]
<1>1. lhs \in Expressions /\ lhs[1] \notin {"unary", "bin"}
  BY TargetFields
<1>2. resolveQualifiedType[lhs][L] = TypeOfNode(resolveQualifiedType, lhs)[L]
      /\ Type[lhs][L] = SaidOfNode(Type, lhs)[L]
  BY <1>1, ResolveEquation, TypeEquation
<1> QED BY <1>1, <1>2, LeafTypesAgree DEF TypeOfNode, SaidOfNode

LEMMA PointeeOfAddress ==
  ASSUME NEW place
  PROVE  Pointee(Address(place)) = place
<1>1. Address(place)[1] = "&" /\ Address(place)[3] = {<<"only", place>>}
  BY DEF Address, Of
<1>2. (CHOOSE a \in {<<"only", place>>} : TRUE) = <<"only", place>>
  OBVIOUS
<1>3. Argument(Address(place)) = place
  BY <1>1, <1>2 DEF Argument
<1> QED BY <1>1, <1>3 DEF Pointee

LEMMA AssignRuns ==
  ASSUME NEW E, NEW X, NEW lhs \in Targets, NEW rhs \in Expressions, NEW L \in Scopes,
         TargetMeans(lhs, L), AssignMeans(Type[lhs][L], rhs, L), NEW id \in Words, NEW next,
         Effect(id, "done", Place(lhs, L), As(Value[rhs][L], Type[rhs][L], Type[lhs][L])) \in X,
         <<id, "done", next>> \in E, NEW s, IsSeq(s)
  PROVE  Runs(E, X, AssignPrefix(lhs, rhs, L) \o <<WithId(SetInstruction(lhs, L), id)>>,
              Point(s, id), Point(s, next))
<1>1. PICK t : t = Type[lhs][L]
  OBVIOUS
<1>2. PICK u : u = Type[rhs][L]
  OBVIOUS
<1>3. PICK p : p = Place(lhs, L)
  OBVIOUS
<1>4. PICK v : v = Value[rhs][L]
  OBVIOUS
<1>5. resolveQualifiedType[lhs][L] = t /\ resolveQualifiedType[rhs][L] = u
  BY <1>1, <1>2, TargetTypes, TypesAgree DEF AssignMeans
<1>6. PICK a \in Code : a = emitLoadAddress(lhs, L)
  BY LoadAddressRuns, SlotsAreSlots
<1>7. Runs(E, X, a, Point(s, id), Point(Append(s, Address(p)), id))
  BY <1>3, <1>6, LoadAddressRuns
<1>8. PICK c \in Code : c = emitExpressionEval[rhs]["rvalue"][L]
  BY EvalIsCode
<1>9. Yields(E, X, c, v)
  BY <1>4, <1>8, ExprYields DEF AssignMeans, Held
<1>10. PICK d : d = performConversion(u, t)
  OBVIOUS
<1>11. PICK w : w = As(v, u, t)
  OBVIOUS
<1>12. Yields(E, X, c \o d, w) /\ c \o d \in Code /\ d \in Code
  BY <1>1, <1>2, <1>9, <1>10, <1>11, ConversionYields, ConversionIsCode DEF AssignMeans
<1>13. IsSeq(Append(s, Address(p))) /\ IsSeq(Append(Append(s, Address(p)), w))
  BY PushIsSeq
<1>14. Runs(E, X, c \o d, Point(Append(s, Address(p)), id), Point(Append(Append(s, Address(p)), w), id))
  BY <1>12, <1>13 DEF Yields
<1>15. PICK g \in Code : g = Debug("OP_SET")
  BY DebugIsCode
<1>16. Runs(E, X, g, Point(Append(Append(s, Address(p)), w), id), Point(Append(Append(s, Address(p)), w), id))
  <2>1. {"OP_SET"} \subseteq Words
    BY LiteralsAreWords DEF Literals
  <2> QED BY <1>13, <1>15, <2>1, DebugRuns
<1>17. PICK i \in Instructions : i = WithId(SetInstruction(lhs, L), id)
  BY TargetSplits, WithIdTyped
<1>18. i.op = "SET" /\ i.metadata = id
  <2>1. SetInstruction(lhs, L) \in Instructions
    BY TargetSplits
  <2>2. SetInstruction(lhs, L).op = "SET"
    BY DEF SetInstruction, Instruction
  <2> QED BY <1>17, <2>1, <2>2, WithIdTyped
<1>19. PICK z : z = Append(Append(s, Address(p)), w)
  OBVIOUS
<1>20. Runs(E, X, <<i>>, Point(z, id), Point(s, next))
  <2>1. IsSeq(z) /\ Len(z) >= 2 /\ TopOf(z) = w /\ BelowOf(z) = Address(p) /\ Less(z, 2) = s
    BY <1>19, PushTwice
  <2>2. Effect(id, "done", p, w) \in X
    BY <1>1, <1>2, <1>3, <1>4, <1>11
  <2>3. Assigns(E, X, i, Point(z, id), Point(s, next), 2, p, w)
    BY <1>18, <2>1, <2>2, PointParts DEF Assigns
  <2>4. Sets(E, X, i, Point(z, id), Point(s, next))
    BY <2>1, <2>3, PointParts, PointeeOfAddress DEF Sets
  <2>5. Straight(E, X, i, Point(z, id), Point(s, next)) /\ IsSeq(Point(z, id).stack)
    BY <1>18, <2>1, <2>4, PointParts DEF Straight
  <2> QED BY <1>18, <2>5, RunsStep
<1>21. <<i>> \in Code
  BY Single DEF Code
<1>22. Runs(E, X, a \o (c \o d), Point(s, id), Point(z, id)) /\ a \o (c \o d) \in Code
  BY <1>7, <1>12, <1>14, <1>19, RunsConcat, ConcatIsCode
<1>23. Runs(E, X, (a \o (c \o d)) \o g, Point(s, id), Point(z, id)) /\ (a \o (c \o d)) \o g \in Code
  BY <1>16, <1>19, <1>22, RunsConcat, ConcatIsCode
<1>24. Runs(E, X, ((a \o (c \o d)) \o g) \o <<i>>, Point(s, id), Point(s, next))
  BY <1>20, <1>21, <1>23, RunsConcat
<1>25. AssignPrefix(lhs, rhs, L) = (a \o (c \o d)) \o g
  <2>1. (a \o c) \o d = a \o (c \o d)
    BY <1>12 DEF Code
  <2>2. AssignPrefix(lhs, rhs, L) = ((a \o c) \o d) \o g
    BY <1>5, <1>6, <1>8, <1>10, <1>15 DEF AssignPrefix
  <2> QED BY <2>1, <2>2
<1> QED BY <1>17, <1>24, <1>25

LEMMA DeclareRuns ==
  ASSUME NEW E, NEW X, NEW s \in Simple, s.kind \in Declaring, NEW L \in Scopes, NEW next
  PROVE  /\ Runs(E, X, <<DeclareInstruction(s)>>, Point(Slots(L), s.id), Point(Slots(After(s, L)), s.id))
         /\ Effect(s.id, "done", Leaf(s.name, Writes), Nowhere) \in X /\ <<s.id, "done", next>> \in E =>
              Runs(E, X, <<WithId(DeclareInstruction(s), s.id)>>, Point(Slots(L), s.id), Point(Slots(After(s, L)), next))
<1>1. PICK i \in Instructions : i = DeclareInstruction(s)
  BY SimpleFields, DeclareTyped
<1>2. i.op = "MOV" /\ i.a = "down" /\ i.b = s.name /\ i.metadata = ""
  BY <1>1 DEF DeclareInstruction, Instruction
<1>3. PICK z : z = Slots(L)
  OBVIOUS
<1>4. IsSeq(z) /\ Len(z) \in Nat
  BY <1>3, SlotsAreSlots
<1>5. PICK y : y = Append(z, Slot(s.name))
  OBVIOUS
<1>6. Slots(After(s, L)) = y
  BY <1>3, <1>5, SlotsPush
<1>7. Runs(E, X, <<i>>, Point(z, s.id), Point(y, s.id))
  <2>0. Point(y, s.id).stack = Append(Point(z, s.id).stack, Slot(i.b))
        /\ Point(y, s.id).next = Point(z, s.id).next
    <3>1. Point(y, s.id).stack = y /\ Point(z, s.id).stack = z /\ Point(y, s.id).next = Point(z, s.id).next
      BY PointParts
    <3>2. Slot(i.b) = Slot(s.name)
      BY <1>2
    <3> QED BY <1>5, <3>1, <3>2
  <2>1. Declares(E, X, i, Point(z, s.id), Point(y, s.id))
    BY <1>2, <2>0 DEF Declares
  <2>2. Straight(E, X, i, Point(z, s.id), Point(y, s.id)) /\ IsSeq(Point(z, s.id).stack)
    BY <1>2, <1>4, <2>1, PointParts DEF Straight
  <2> QED BY <1>2, <2>2, RunsStep
<1>8. ASSUME Effect(s.id, "done", Leaf(s.name, Writes), Nowhere) \in X, <<s.id, "done", next>> \in E
      PROVE  Runs(E, X, <<WithId(i, s.id)>>, Point(z, s.id), Point(y, next))
  <2>1. s.id \in Words /\ s.id # ""
    BY SimpleFields, NamesAreWords DEF Ids
  <2>2. PICK j \in Instructions : j = WithId(i, s.id)
    BY <2>1, WithIdTyped
  <2>3. j.op = "MOV" /\ j.a = "down" /\ j.b = s.name /\ j.metadata = s.id
    BY <1>2, <2>1, <2>2, WithIdTyped
  <2>4. Assigns(E, X, j, Point(z, s.id), Point(y, next), 0, Leaf(s.name, Writes), Nowhere)
    BY <1>4, <1>8, <2>3, PointParts DEF Assigns
  <2>41. Point(y, next).stack = Append(Point(z, s.id).stack, Slot(j.b))
    <3>1. Point(y, next).stack = y /\ Point(z, s.id).stack = z
      BY PointParts
    <3>2. Slot(j.b) = Slot(s.name)
      BY <2>3
    <3> QED BY <1>5, <3>1, <3>2
  <2>42. Assigns(E, X, j, Point(z, s.id), Point(y, next), 0, Leaf(j.b, Writes), Nowhere)
    BY <2>3, <2>4
  <2>5. Declares(E, X, j, Point(z, s.id), Point(y, next))
    BY <2>1, <2>3, <2>41, <2>42 DEF Declares
  <2>6. Straight(E, X, j, Point(z, s.id), Point(y, next)) /\ IsSeq(Point(z, s.id).stack)
    BY <1>4, <2>3, <2>5, PointParts DEF Straight
  <2>7. Runs(E, X, <<j>>, Point(z, s.id), Point(y, next))
    BY <2>3, <2>6, RunsStep
  <2> QED BY <2>2, <2>7
<1> QED BY <1>1, <1>3, <1>6, <1>7, <1>8

LEMMA SimpleRuns ==
  ASSUME NEW E, NEW X, NEW s \in Simple, NodesOf(s) \subseteq Expressions, NEW L \in Scopes, NEW next,
         StatementMeans(s, L), Does(s, L) \subseteq X, <<s.id, "done", next>> \in E
  PROVE  Runs(E, X, compileSimple(s, L), Point(Slots(L), s.id), Point(Slots(After(s, L)), next))
<1>0. s.id \in Words
  BY SimpleFields, NamesAreWords
<1>1. CASE s.kind = "decl"
  <2>1. Effect(s.id, "done", Leaf(s.name, Writes), Nowhere) \in X
    BY <1>1 DEF Does
  <2>2. Declarable(s.name, L)
    BY <1>1 DEF StatementMeans
  <2>3. compileSimple(s, L) = <<WithId(DeclareInstruction(s), s.id)>>
    BY <1>1, <2>2, SimpleSplits
  <2> QED BY <1>1, <2>1, <2>3, DeclareRuns DEF Declaring
<1>2. CASE s.kind = "init"
  <2>1. PICK e \in Expressions : e = <<"id", s.name>>
    BY <1>2 DEF NodesOf
  <2>2. e \in Targets /\ e[1] # "dot"
    BY <2>1 DEF Targets
  <2>3. PICK M \in Scopes : M = After(s, L)
    BY ScopesGrow
  <2>4. Place(e, M) = Leaf(s.name, Writes) /\ Type[e][M] = s.type
    BY <1>2, <2>1, <2>3, InitialisedLocal
  <2>5. Effect(s.id, "done", Place(e, M), As(Value[s.rhs][M], Type[s.rhs][M], Type[e][M])) \in X
    BY <1>2, <2>3, <2>4 DEF Does
  <2>6. AssignMeans(Type[e][M], s.rhs, M) /\ TargetMeans(e, M)
    BY <1>2, <2>1, <2>2, <2>3, <2>4 DEF StatementMeans, TargetMeans, Declarable, IsField
  <2>7. s.rhs \in Expressions
    BY <1>2, SimpleFields
  <2>8. IsSeq(Slots(M))
    BY SlotsAreSlots
  <2>9. PICK p \in Code : p = AssignPrefix(e, s.rhs, M)
    BY <2>2, <2>7, TargetSplits
  <2>10. PICK j \in Instructions : j = WithId(SetInstruction(e, M), s.id)
    BY <1>0, <2>2, <2>7, TargetSplits, WithIdTyped
  <2>11. Runs(E, X, p \o <<j>>, Point(Slots(M), s.id), Point(Slots(M), next))
    BY <1>0, <2>2, <2>5, <2>6, <2>7, <2>8, <2>9, <2>10, AssignRuns
  <2>12. PICK i \in Instructions : i = DeclareInstruction(s)
    BY <1>2, SimpleFields, DeclareTyped DEF Declaring
  <2>13. Runs(E, X, <<i>>, Point(Slots(L), s.id), Point(Slots(M), s.id))
    BY <1>2, <2>3, <2>12, DeclareRuns DEF Declaring
  <2>14. <<i>> \in Code /\ <<j>> \in Code /\ p \o <<j>> \in Code
    BY Single, ConcatIsCode DEF Code
  <2>15. Runs(E, X, <<i>> \o (p \o <<j>>), Point(Slots(L), s.id), Point(Slots(M), next))
    BY <2>11, <2>13, <2>14, RunsConcat
  <2>16. <<i>> \o (p \o <<j>>) = (<<i>> \o p) \o <<j>>
    BY <2>14 DEF Code
  <2>17. compileSimple(s, L) = (<<i>> \o p) \o <<j>>
    BY <1>2, <2>1, <2>3, <2>9, <2>10, <2>12, SimpleSplits DEF StatementMeans
  <2> QED BY <2>3, <2>15, <2>16, <2>17
<1>3. CASE s.kind = "assign"
  <2>1. s.lhs \in Targets /\ s.rhs \in Expressions
    BY <1>3, SimpleFields
  <2>2. TargetMeans(s.lhs, L) /\ AssignMeans(Type[s.lhs][L], s.rhs, L)
    BY <1>3 DEF StatementMeans
  <2>3. Effect(s.id, "done", Place(s.lhs, L), As(Value[s.rhs][L], Type[s.rhs][L], Type[s.lhs][L])) \in X
    BY <1>3 DEF Does
  <2>4. After(s, L) = L /\ IsSeq(Slots(L))
    BY <1>3, SlotsAreSlots DEF After, Declaring
  <2>5. compileSimple(s, L) = AssignPrefix(s.lhs, s.rhs, L) \o <<WithId(SetInstruction(s.lhs, L), s.id)>>
    BY <1>3, SimpleSplits
  <2> QED BY <1>0, <2>1, <2>2, <2>3, <2>4, <2>5, AssignRuns
<1> QED BY <1>1, <1>2, <1>3, SimpleFields

LEMMA TargetAddressRuns ==
  ASSUME NEW E, NEW X, NEW s, NEW next, IsSeq(s), NEW lhs \in Targets, NEW L, TargetMeans(lhs, L)
  PROVE  Runs(E, X, emitOperand(lhs, "lvalue", L), Point(s, next), Point(Append(s, Address(Place(lhs, L))), next))
<1>0. lhs[1] \in {"id", "dot"} /\ lhs[2] \in Words /\ (lhs[1] = "dot" => lhs[3] \in Words)
  BY TargetFields
<1>1. CASE lhs[1] = "id"
  <2>1. emitOperand(lhs, "lvalue", L) = emitVarExpr(lhs[2], "lvalue", L)
    BY <1>1 DEF emitOperand
  <2>2. Place(lhs, L) = Variable(lhs[2], L, Writes)
    BY <1>1 DEF Place
  <2>3. Runs(E, X, emitVarExpr(lhs[2], "lvalue", L), Point(s, next),
             Point(Append(s, Address(Variable(lhs[2], L, Writes))), next))
    BY <1>0, VariableAddressRuns
  <2> QED BY <2>1, <2>2, <2>3
<1>2. CASE lhs[1] = "dot"
  <2>1. emitOperand(lhs, "lvalue", L) = emitMemberOp(lhs[2], lhs[3], "lvalue", L)
    BY <1>2 DEF emitOperand
  <2>2. emitMemberOp(lhs[2], lhs[3], "lvalue", L)
          = emitVarExpr(lhs[2], "rvalue", L) \o Instr("LOADADDR", "THIS", lhs[3], "int32")
    BY DEF emitMemberOp
  <2>3. Place(lhs, L) = Member(lhs[2], lhs[3], L) /\ IsLocal(lhs[2], L) /\ lhs[3] \in Words
    BY <1>0, <1>2 DEF Place, TargetMeans
  <2>4. Runs(E, X, emitVarExpr(lhs[2], "rvalue", L) \o Instr("LOADADDR", "THIS", lhs[3], "int32"), Point(s, next),
             Point(Append(s, Address(Member(lhs[2], lhs[3], L))), next))
    BY <1>0, <2>3, MemberRuns
  <2> QED BY <2>1, <2>2, <2>3, <2>4
<1> QED BY <1>0, <1>1, <1>2

LEMMA UpdateRuns ==
  ASSUME NEW E, NEW X, NEW s \in Increment \cup Assign, NEW L \in Scopes, NEW next,
         s.kind = "increment" => <<"unary", "++", s.lhs>> \in Expressions,
         StatementMeans(s, L), Does(s, L) \subseteq X, <<s.id, "done", next>> \in E
  PROVE  Runs(E, X, compileUpdate(s, L), Point(Slots(L), s.id), Point(Slots(L), next))
<1>0. s.id \in Words /\ s.lhs \in Targets
  BY UpdateFields, NamesAreWords
<1>1. CASE s.kind = "assign"
  <2>1. s \in Simple /\ NodesOf(s) \subseteq Expressions /\ After(s, L) = L
    BY <1>1, UpdateFields DEF NodesOf, After, Declaring
  <2>2. compileUpdate(s, L) = compileSimple(s, L)
    BY <1>1, UpdateSplits
  <2> QED BY <2>1, <2>2, SimpleRuns
<1>2. CASE s.kind = "increment"
  <2>1. PICK c \in Code : c = emitOperand(s.lhs, "lvalue", L)
    BY <1>2, UpdateSplits
  <2>2. PICK i \in Instructions : i = IncrementInstruction(s, L)
    BY <1>2, UpdateSplits
  <2>3. compileUpdate(s, L) = c \o <<WithId(i, s.id)>>
    BY <1>2, <2>1, <2>2, UpdateSplits
  <2>4. TargetMeans(s.lhs, L) /\ Type[s.lhs][L] = "int32"
    BY <1>2 DEF StatementMeans
  <2>5. resolveQualifiedType[s.lhs][L] = "int32"
    BY <1>0, <2>4, TargetTypes
  <2>6. i.op = "INCREMENT" /\ i.a = "int32"
    BY <2>2, <2>5 DEF IncrementInstruction, Instruction, unaryKind
  <2>7. PICK j \in Instructions : j = WithId(i, s.id)
    BY <1>0, WithIdTyped
  <2>8. j.op = "INCREMENT" /\ j.a = "int32" /\ j.metadata = s.id
    BY <1>0, <2>6, <2>7, WithIdTyped
  <2>9. PICK z : z = Slots(L)
    OBVIOUS
  <2>10. PICK p : p = Place(s.lhs, L)
    OBVIOUS
  <2>11. PICK y : y = Append(z, Address(p))
    OBVIOUS
  <2>12. IsSeq(z)
    BY <2>9, SlotsAreSlots
  <2>13. IsSeq(y) /\ Len(y) >= 1 /\ TopOf(y) = Address(p) /\ Less(y, 1) = z
    BY <2>11, <2>12, PushIsSeq
  <2>14. Runs(E, X, c, Point(z, s.id), Point(y, s.id))
    BY <1>0, <2>1, <2>4, <2>10, <2>11, <2>12, TargetAddressRuns
  <2>15. Effect(s.id, "done", p, Leaf("increment", "int32")) \in X
    BY <1>2, <2>4, <2>10 DEF Does
  <2>16. Assigns(E, X, j, Point(y, s.id), Point(z, next), 1, p, Leaf("increment", "int32"))
    BY <2>8, <2>13, <2>15, PointParts DEF Assigns
  <2>17. Pointee(TopOf(Point(y, s.id).stack)) = p /\ Point(z, next).stack = Less(Point(y, s.id).stack, 1)
    BY <2>13, PointParts, PointeeOfAddress
  <2>18. Increments(E, X, j, Point(y, s.id), Point(z, next))
    BY <2>8, <2>16, <2>17 DEF Increments
  <2>19. Straight(E, X, j, Point(y, s.id), Point(z, next)) /\ IsSeq(Point(y, s.id).stack)
    BY <2>8, <2>13, <2>18, PointParts DEF Straight
  <2>20. Runs(E, X, <<j>>, Point(y, s.id), Point(z, next)) /\ <<j>> \in Code
    BY <2>8, <2>19, RunsStep, Single DEF Code
  <2>21. Runs(E, X, c \o <<j>>, Point(z, s.id), Point(z, next))
    BY <2>14, <2>20, RunsConcat
  <2> QED BY <2>3, <2>7, <2>9, <2>21
<1> QED BY <1>1, <1>2, UpdateFields

(***************************************************************************)
(* 10  Blocks, branches and loops do what they say.  A scope that grew     *)
(* from another keeps its locals.                                          *)
(***************************************************************************)
Extends(M, L) == Len(M) >= Len(L) /\ \A n \in 1 .. Len(L) : M[n] = L[n]
Cut(s, n) == SubSeq(s, 1, n)

LEMMA SlotsCut ==
  ASSUME NEW M \in Scopes, NEW n \in 0 .. Len(M)
  PROVE  /\ IsSeq(Cut(Slots(M), n)) /\ Len(Cut(Slots(M), n)) = n
         /\ n > 0 => /\ TopOf(Cut(Slots(M), n)) = Slot(M[n][1])
                     /\ Less(Cut(Slots(M), n), 1) = Cut(Slots(M), n - 1)
<1>1. PICK x \in Nat : x = Len(M)
  BY DEF Scopes
<1>2. PICK z : z = Slots(M)
  OBVIOUS
<1> DEFINE S == {Slot(M[k][1]) : k \in 1 .. x}
<1>3. z = [k \in 1 .. x |-> Slot(M[k][1])]
  BY <1>1, <1>2 DEF Slots
<1>4. z \in Seq(S) /\ Len(z) = x /\ \A k \in 1 .. x : z[k] = Slot(M[k][1])
  BY <1>3
<1> HIDE DEF S
<1>5. n \in 0 .. x
  BY <1>1
<1>6. Cut(z, n) \in Seq(S) /\ Len(Cut(z, n)) = n /\ \A k \in 1 .. n : Cut(z, n)[k] = z[k]
  BY <1>4, <1>5 DEF Cut
<1>7. ASSUME n > 0 PROVE TopOf(Cut(z, n)) = Slot(M[n][1]) /\ Less(Cut(z, n), 1) = Cut(z, n - 1)
  <2>1. TopOf(Cut(z, n)) = z[n]
    BY <1>5, <1>6, <1>7 DEF TopOf
  <2>2. z[n] = Slot(M[n][1])
    BY <1>4, <1>5, <1>7
  <2>3. n - 1 \in 0 .. x
    BY <1>5, <1>7
  <2>4. PICK u : u = Cut(z, n - 1)
    OBVIOUS
  <2>5. u \in Seq(S) /\ Len(u) = n - 1 /\ \A k \in 1 .. n - 1 : u[k] = z[k]
    BY <1>4, <2>3, <2>4 DEF Cut
  <2>6. PICK w : w = Cut(z, n)
    OBVIOUS
  <2>7. w \in Seq(S) /\ Len(w) = n /\ \A k \in 1 .. n : w[k] = z[k]
    BY <1>6, <2>6
  <2>8. SubSeq(w, 1, n - 1) \in Seq(S) /\ Len(SubSeq(w, 1, n - 1)) = n - 1
        /\ \A k \in 1 .. n - 1 : SubSeq(w, 1, n - 1)[k] = w[k]
    BY <2>3, <2>7
  <2>9. SubSeq(w, 1, n - 1) = u
    BY <2>5, <2>7, <2>8
  <2>10. Less(w, 1) = SubSeq(w, 1, n - 1)
    BY <2>7 DEF Less
  <2> QED BY <2>1, <2>2, <2>4, <2>6, <2>9, <2>10
<1> QED BY <1>2, <1>6, <1>7 DEF IsSeq

LEMMA PopScopeRuns ==
  ASSUME NEW E, NEW X, NEW M \in Scopes, NEW L \in Scopes, Extends(M, L), NEW next
  PROVE  Runs(E, X, pop_scope(Declared(M, L)), Point(Slots(M), next), Point(Slots(L), next))
<1>1. PICK x \in Nat : x = Len(M)
  BY DEF Scopes
<1>2. PICK l \in Nat : l = Len(L)
  BY DEF Scopes
<1>3. x >= l /\ \A n \in 1 .. l : M[n] = L[n]
  BY <1>1, <1>2 DEF Extends
<1>4. PICK k \in Nat : k = x - l
  BY <1>3
<1>5. PICK d : d = Declared(M, L)
  OBVIOUS
<1>6. d \in Seq(Vars) /\ Len(d) = k /\ \A n \in 1 .. k : d[n] = M[n + l]
  BY <1>1, <1>2, <1>3, <1>4, <1>5, DeclaredLocals
<1>7. PICK c \in Code : c = pop_scope(d)
  BY <1>5, PopScopeIsCode
<1>8. Len(c) = k /\ \A n \in 1 .. k : c[n] = destructLocalVar(d[k - n + 1])
  BY <1>6, <1>7 DEF pop_scope
<1>9. PICK m : m = [n \in 1 .. k + 1 |-> Point(Cut(Slots(M), x - n + 1), next)]
  OBVIOUS
<1>10. m[1] = Point(Slots(M), next)
  <2>1. Slots(M) = [n \in 1 .. x |-> Slot(M[n][1])]
    BY <1>1 DEF Slots
  <2>2. IsSeq(Slots(M)) /\ Len(Slots(M)) = x
    BY <1>1, SlotsAreSlots
  <2>3. PICK S : Slots(M) \in Seq(S)
    BY <2>2 DEF IsSeq
  <2>4. Cut(Slots(M), x) = Slots(M)
    BY <2>2, <2>3 DEF Cut
  <2> QED BY <1>9, <2>4
<1>11. m[k + 1] = Point(Slots(L), next)
  <2>1. IsSeq(Cut(Slots(M), l)) /\ Len(Cut(Slots(M), l)) = l
    BY <1>1, <1>3, SlotsCut
  <2>2. PICK S : Cut(Slots(M), l) \in Seq(S)
    BY <2>1 DEF IsSeq
  <2>3. Slots(M) = [n \in 1 .. x |-> Slot(M[n][1])] /\ Slots(L) = [n \in 1 .. l |-> Slot(L[n][1])]
    BY <1>1, <1>2 DEF Slots
  <2>4. \A n \in 1 .. l : Slots(M)[n] = Slots(L)[n]
    BY <1>3, <2>3
  <2>5. PICK T : Slots(M) \in Seq(T) /\ Len(Slots(M)) = x
    BY <1>1, SlotsAreSlots DEF IsSeq
  <2>6. \A n \in 1 .. l : Cut(Slots(M), l)[n] = Slots(M)[n]
    BY <1>3, <2>5 DEF Cut
  <2>7. IsSeq(Slots(L)) /\ Len(Slots(L)) = l
    BY <1>2, SlotsAreSlots
  <2>8. PICK U : Slots(L) \in Seq(U)
    BY <2>7 DEF IsSeq
  <2>9. PICK u : u = Cut(Slots(M), l)
    OBVIOUS
  <2>10. PICK w : w = Slots(L)
    OBVIOUS
  <2>11. u \in Seq(S) /\ w \in Seq(U) /\ Len(u) = l /\ Len(w) = l /\ \A n \in 1 .. l : u[n] = w[n]
    BY <2>1, <2>2, <2>4, <2>6, <2>7, <2>8, <2>9, <2>10
  <2>12. u = w
    BY <2>11
  <2>13. k + 1 \in 1 .. k + 1 /\ x - (k + 1) + 1 = l
    BY <1>3, <1>4
  <2>14. m[k + 1] = Point(Cut(Slots(M), l), next)
    BY <1>9, <2>13
  <2> QED BY <2>9, <2>10, <2>12, <2>14
<1>12. ASSUME NEW n \in 1 .. k PROVE Local(E, X, c[n], m, n, k)
  <2>1. PICK j \in Nat : j = x - n + 1
    BY <1>4
  <2>2. j \in 0 .. Len(M) /\ j > 0 /\ k - n + 1 \in 1 .. k /\ k - n + 1 + l = j
    BY <1>1, <1>4, <2>1
  <2>3. d[k - n + 1] = M[j] /\ d[k - n + 1] \in Vars
    BY <1>6, <2>2
  <2>4. c[n].op = "MOV" /\ c[n].a = "up" /\ c[n].b = M[j][1]
    BY <1>8, <2>3, ReleaseTyped
  <2>5. PICK u : u = Cut(Slots(M), j)
    OBVIOUS
  <2>6. IsSeq(u) /\ Len(u) = j /\ TopOf(u) = Slot(M[j][1]) /\ Less(u, 1) = Cut(Slots(M), j - 1)
    BY <2>2, <2>5, SlotsCut
  <2>7. m[n] = Point(u, next) /\ m[n + 1] = Point(Cut(Slots(M), j - 1), next)
    <3>1. x - (n + 1) + 1 = j - 1 /\ n \in 1 .. k + 1 /\ n + 1 \in 1 .. k + 1
      BY <2>1
    <3> QED BY <1>9, <2>1, <2>5, <3>1
  <2>8. m[n].stack = u /\ m[n].next = next
    BY <2>7, PointParts
  <2>9. TopOf(m[n].stack) = Slot(c[n].b) /\ Len(m[n].stack) >= 1
    BY <2>2, <2>4, <2>6, <2>8
  <2>10. m[n + 1] = Point(Less(m[n].stack, 1), m[n].next)
    BY <2>6, <2>7, <2>8
  <2>11. Releases(c[n], m[n], m[n + 1])
    BY <2>4, <2>9, <2>10 DEF Releases
  <2>12. Straight(E, X, c[n], m[n], m[n + 1])
    BY <2>4, <2>11 DEF Straight
  <2> QED BY <2>4, <2>6, <2>8, <2>12 DEF Local
<1>13. Certifies(E, X, c, m, Point(Slots(M), next), Point(Slots(L), next))
  BY <1>8, <1>10, <1>11, <1>12 DEF Certifies
<1> QED BY <1>5, <1>7, <1>13 DEF Runs

LEMMA BlockRuns ==
  ASSUME NEW E, NEW X, NEW statements, statements.code \in Code, statements.scope \in Scopes, NEW L \in Scopes,
         Extends(statements.scope, L), NEW a, NEW b,
         Runs(E, X, statements.code, Point(Slots(L), a), Point(Slots(statements.scope), b))
  PROVE  Runs(E, X, emitBlock(statements, L), Point(Slots(L), a), Point(Slots(L), b))
<1>1. PICK z : z = Slots(L)
  OBVIOUS
<1>2. PICK y : y = Slots(statements.scope)
  OBVIOUS
<1>3. IsSeq(z) /\ AllSlots(z)
  BY <1>1, SlotsAreSlots
<1>4. PICK c : c = Debug("CANARYBEGIN")
  OBVIOUS
<1>5. Runs(E, X, c, Point(z, a), Point(z, a)) /\ c \in Code
  BY <1>3, <1>4, DebugPoints
<1>6. PICK d : d = Debug("CANARYEND")
  OBVIOUS
<1>7. Runs(E, X, d, Point(z, b), Point(z, b)) /\ d \in Code
  BY <1>3, <1>6, DebugPoints
<1>8. PICK p \in Code : p = pop_scope(Declared(statements.scope, L))
  BY PopScopeIsCode
<1>9. Runs(E, X, p, Point(y, b), Point(z, b))
  BY <1>1, <1>2, <1>8, PopScopeRuns
<1>10. PICK g \in Code : g = statements.code
  OBVIOUS
<1>11. Runs(E, X, g, Point(z, a), Point(y, b))
  BY <1>1, <1>2, <1>10
<1>12. Runs(E, X, c \o g, Point(z, a), Point(y, b)) /\ c \o g \in Code
  BY <1>5, <1>11, RunsConcat, ConcatIsCode
<1>13. Runs(E, X, c \o g \o p, Point(z, a), Point(z, b)) /\ c \o g \o p \in Code
  BY <1>9, <1>12, RunsConcat, ConcatIsCode
<1>14. Runs(E, X, c \o g \o p \o d, Point(z, a), Point(z, b))
  BY <1>7, <1>13, RunsConcat
<1>15. emitBlock(statements, L) = c \o g \o p \o d
  BY <1>4, <1>6, <1>8, <1>10 DEF emitBlock
<1> QED BY <1>1, <1>14, <1>15

(* OP_JZ tests the value a comparison of floats left as a float.           *)
LEMMA ValuesAreNotFloats ==
  ASSUME NEW e \in Expressions, NEW L \in Scopes
  PROVE  Value[e][L][1] # "asFloat" \/ Value[e][L][2] # "bool"
<1>1. Value[e][L] = ValueOfNode(Value, e)[L]
  BY ValueEquation
<1>2. e[1] \in {"int", "float", "id", "dot", "unary", "bin"}
  BY ExprNodes
<1>3. CASE e[1] = "unary"
  <2>1. Value[e][L] = Of(e[2], Type[e[3]][L], Value[e[3]][L])
    BY <1>1, <1>3 DEF ValueOfNode
  <2>2. e[2] \in {"-", "++"}
    BY <1>3, ExprNodes
  <2> QED BY <2>1, <2>2 DEF Of
<1>4. CASE e[1] = "bin"
  <2>1. Value[e][L] = BinaryValue(e[2], Value[e[3]][L], Type[e[3]][L], Value[e[4]][L], Type[e[4]][L])
    BY <1>1, <1>4 DEF ValueOfNode
  <2>2. Value[e][L][1] = e[2]
    BY <2>1 DEF BinaryValue, Apply
  <2>3. e[2] \in Operators
    BY <1>4, ExprNodes
  <2> QED BY <2>2, <2>3 DEF Operators
<1>5. CASE e[1] \notin {"unary", "bin"}
  <2>1. Value[e][L] = LeafValue(e, L)
    BY <1>1, <1>5 DEF ValueOfNode
  <2>2. CASE e[1] = "id"
    <3>1. Value[e][L] = Leaf(e[2], Reads) \/ Value[e][L] = Of(e[2], "field", This)
      BY <2>1, <2>2 DEF LeafValue, Variable
    <3> QED BY <3>1 DEF Leaf, Of, Reads
  <2>3. CASE e[1] = "dot"
    <3>1. Value[e][L] = Of(e[3], "field", Variable(e[2], L, Reads))
      BY <2>1, <2>3 DEF LeafValue, Member
    <3> QED BY <3>1 DEF Of
  <2>4. CASE e[1] \in {"int", "float"}
    <3>1. Value[e][L] = Leaf("literal", e[1])
      BY <2>1, <2>4 DEF LeafValue
    <3> QED BY <3>1 DEF Leaf
  <2> QED BY <1>2, <1>5, <2>2, <2>3, <2>4
<1> QED BY <1>3, <1>4, <1>5

LEMMA TestedValue ==
  ASSUME NEW e \in Expressions, NEW L \in Scopes
  PROVE  Tested(Held(e, L)) = Value[e][L]
<1>1. CASE FloatTest(e, L)
  <2>1. PICK v : v = Value[e][L]
    OBVIOUS
  <2>2. Held(e, L) = Of("asFloat", "bool", v)
    BY <1>1, <2>1 DEF Held
  <2>3. Of("asFloat", "bool", v)[1] = "asFloat" /\ Of("asFloat", "bool", v)[2] = "bool"
        /\ Of("asFloat", "bool", v)[3] = {<<"only", v>>}
    BY DEF Of
  <2>4. (CHOOSE a \in {<<"only", v>>} : TRUE) = <<"only", v>>
    OBVIOUS
  <2>5. Argument(Of("asFloat", "bool", v)) = v
    BY <2>3, <2>4 DEF Argument
  <2> QED BY <2>1, <2>2, <2>3, <2>5 DEF Tested
<1>2. CASE ~ FloatTest(e, L)
  <2>1. Held(e, L) = Value[e][L]
    BY <1>2 DEF Held
  <2> QED BY <2>1, ValuesAreNotFloats DEF Tested
<1> QED BY <1>1, <1>2

(* The code of a test: the same for a branch and a loop.                   *)
LEMMA TestRuns ==
  ASSUME NEW E, NEW X, NEW s, s.test \in Expressions, NEW L \in Scopes, TestMeans(s, L)
  PROVE  /\ Yields(E, X, emitExpressionEval[s.test]["rvalue"][L], Held(s.test, L))
         /\ emitExpressionEval[s.test]["rvalue"][L] \in Code
         /\ s.kind # "if" => emitExpressionEval[s.test]["none"][L] = emitExpressionEval[s.test]["rvalue"][L]
         /\ resolveQualifiedType[s.test][L] # "bool" => performConversion(resolveQualifiedType[s.test][L], "bool") = <<>>
<1>1. L \in Meaningful[s.test] /\ Type[s.test][L] \in {"bool", "int32"}
  BY DEF TestMeans
<1>2. Yields(E, X, emitExpressionEval[s.test]["rvalue"][L], Held(s.test, L))
  BY <1>1, ExprYields
<1>3. emitExpressionEval[s.test]["rvalue"][L] \in Code
  BY EvalIsCode
<1>4. resolveQualifiedType[s.test][L] \in {"bool", "int32"}
  BY <1>1, TypesAgree
<1>5. resolveQualifiedType[s.test][L] # "bool" => performConversion(resolveQualifiedType[s.test][L], "bool") = <<>>
  BY <1>4 DEF performConversion
<1>6. ASSUME s.kind # "if"
      PROVE  emitExpressionEval[s.test]["none"][L] = emitExpressionEval[s.test]["rvalue"][L]
  <2>1. PICK e \in Expressions : e = s.test
    OBVIOUS
  <2>2. e[1] \notin {"id", "dot"}
    BY <1>6, <2>1 DEF TestMeans
  <2>3. emitOperand(e, "none", L) = emitLoadLiteral(e) /\ emitOperand(e, "rvalue", L) = emitLoadLiteral(e)
    BY <2>2 DEF emitOperand
  <2>4. "none" \in Contexts /\ "rvalue" \in Contexts
    BY DEF Contexts
  <2>5. emitExpressionEval[e]["none"][L] = emitExpressionEval[e]["rvalue"][L]
    BY <2>3, <2>4, EvalUnfolds
  <2> QED BY <2>1, <2>5
<1> QED BY <1>2, <1>3, <1>5, <1>6

(* What OP_JZ does with the value of a test.                               *)
LEMMA TestStep ==
  ASSUME NEW E, NEW X, NEW e \in Expressions, NEW L \in Scopes, NEW z, IsSeq(z), NEW id, NEW t, NEW f,
         NEW i, i.metadata = id,
         Effect(id, "true", Nowhere, Value[e][L]) \in X, Effect(id, "false", Nowhere, Value[e][L]) \in X,
         <<id, "true", t>> \in E, <<id, "false", f>> \in E
  PROVE  /\ TestsTo(E, X, i, Point(Append(z, Held(e, L)), id), t, f)
         /\ IsSeq(Append(z, Held(e, L))) /\ Less(Append(z, Held(e, L)), 1) = z
<1>1. PICK v : v = Held(e, L)
  OBVIOUS
<1>2. PICK w : w = Append(z, v)
  OBVIOUS
<1>3. IsSeq(w) /\ Len(w) >= 1 /\ TopOf(w) = v /\ Less(w, 1) = z
  BY <1>2, PushIsSeq
<1>4. Tested(v) = Value[e][L]
  BY <1>1, TestedValue
<1>5. w = Append(z, Held(e, L))
  BY <1>1, <1>2
<1>6. PICK u : u = Value[e][L]
  OBVIOUS
<1>7. Effect(id, "true", Nowhere, u) \in X /\ Effect(id, "false", Nowhere, u) \in X
  BY <1>6
<1>8. Point(w, id).stack = w /\ Point(w, id).next = id
  BY PointParts
<1>9. TestsTo(E, X, i, Point(w, id), t, f)
  BY <1>3, <1>4, <1>6, <1>7, <1>8 DEF TestsTo
<1> QED BY <1>3, <1>5, <1>9

LEMMA BranchRuns ==
  ASSUME NEW E, NEW X, NEW s, s.kind = "if", s.test \in Expressions, s.id \in Ids, NEW L \in Scopes,
         TestMeans(s, L), {Effect(s.id, how, Nowhere, Value[s.test][L]) : how \in {"true", "false"}} \subseteq X,
         NEW block \in Code, Len(block) < Half, NEW t, NEW f,
         {<<s.id, "true", t>>, <<s.id, "false", f>>} \subseteq E,
         Runs(E, X, block, Point(Slots(L), t), Point(Slots(L), f))
  PROVE  Runs(E, X, emitBranchCode(s, block, L), Point(Slots(L), s.id), Point(Slots(L), f))
<1>1. PICK e \in Expressions : e = s.test
  OBVIOUS
<1>2. PICK id \in Words : id = s.id
  BY NamesAreWords
<1>3. PICK z : z = Slots(L)
  OBVIOUS
<1>4. IsSeq(z)
  BY <1>3, SlotsAreSlots
<1>5. PICK y : y = Append(z, Held(e, L))
  OBVIOUS
<1>6. PICK c \in Code : c = emitExpressionEval[e]["rvalue"][L]
  BY <1>1, TestRuns
<1>7. Runs(E, X, c, Point(z, id), Point(y, id))
  BY <1>1, <1>4, <1>5, <1>6, TestRuns DEF Yields
<1>8. PICK n \in Nat : n = Len(block)
  BY DEF Code
<1>9. "JZ" \in {"JZ", "JMP"} /\ n \in Int /\ -Half <= n /\ n < Half
  BY <1>8, HalfAssumption
<1>10. Operand(n) = n
  BY <1>9, OperandTyped
<1>11. PICK i \in Instructions : i = WithId(JumpInstruction("JZ", n), id)
  BY <1>9, JumpTyped
<1>12. Marked(Jump("JZ", n), id) = <<i>> /\ i.op = "JZ" /\ i.a = n /\ i.metadata = id
  BY <1>9, <1>10, <1>11, JumpTyped
<1>13. TestsTo(E, X, i, Point(y, id), t, f) /\ IsSeq(y) /\ Less(y, 1) = z
  <2>1. Effect(id, "true", Nowhere, Value[e][L]) \in X /\ Effect(id, "false", Nowhere, Value[e][L]) \in X
    BY <1>1, <1>2
  <2>2. <<id, "true", t>> \in E /\ <<id, "false", f>> \in E
    BY <1>1, <1>2
  <2>3. /\ TestsTo(E, X, i, Point(Append(z, Held(e, L)), id), t, f)
        /\ IsSeq(Append(z, Held(e, L))) /\ Less(Append(z, Held(e, L)), 1) = z
    BY <1>4, <1>5, <1>12, <2>1, <2>2, TestStep
  <2> QED BY <1>5, <2>3
<1>14. Runs(E, X, block, Point(z, t), Point(z, f))
  BY <1>3
<1>15. Point(y, id).stack = y
  BY PointParts
<1>16. Runs(E, X, <<i>> \o block, Point(y, id), Point(z, f))
  <2>1. PICK A : A = Point(y, id)
    OBVIOUS
  <2>2. IsSeq(A.stack) /\ Less(A.stack, 1) = z /\ TestsTo(E, X, i, A, t, f)
    BY <1>13, <1>15, <2>1
  <2>3. i.a = Len(block)
    BY <1>8, <1>12
  <2>4. Runs(E, X, block, Point(Less(A.stack, 1), t), Point(Less(A.stack, 1), f))
    BY <1>14, <2>2
  <2>5. Runs(E, X, <<i>> \o block, A, Point(Less(A.stack, 1), f))
    BY <1>12, <2>2, <2>3, <2>4, RunsBranch
  <2> QED BY <2>1, <2>2, <2>5
<1>17. <<i>> \in Code /\ <<i>> \o block \in Code
  BY Single, ConcatIsCode DEF Code
<1>18. Runs(E, X, c \o (<<i>> \o block), Point(z, id), Point(z, f))
  BY <1>7, <1>16, <1>17, RunsConcat
<1>19. emitBranchCode(s, block, L) = c \o (<<i>> \o block)
  <2>1. PICK t0 : t0 = resolveQualifiedType[e][L]
    OBVIOUS
  <2>2. (IF t0 # "bool" THEN performConversion(t0, "bool") ELSE <<>>) = <<>>
    BY <1>1, <2>1, TestRuns
  <2>3. emitBranchCode(s, block, L)
          = c \o (IF t0 # "bool" THEN performConversion(t0, "bool") ELSE <<>>)
              \o Marked(Jump("JZ", Len(block)), id) \o block
    BY <1>1, <1>2, <1>6, <2>1 DEF emitBranchCode
  <2>4. emitBranchCode(s, block, L) = c \o <<>> \o <<i>> \o block
    BY <1>8, <1>12, <2>2, <2>3
  <2>5. c \o <<>> = c
    BY DEF Code
  <2>6. c \o <<i>> \o block = c \o (<<i>> \o block)
    BY <1>17 DEF Code
  <2> QED BY <2>4, <2>5, <2>6
<1> QED BY <1>2, <1>3, <1>18, <1>19

LEMMA LoopRuns ==
  ASSUME NEW E, NEW X, NEW e \in Expressions, NEW id \in Words, NEW L \in Scopes, NEW c \in Code,
         Yields(E, X, c, Held(e, L)),
         {Effect(id, how, Nowhere, Value[e][L]) : how \in {"true", "false"}} \subseteq X,
         NEW body \in Code, Len(c) + 1 + Len(body) < Half, NEW t, NEW f,
         {<<id, "true", t>>, <<id, "false", f>>} \subseteq E,
         Runs(E, X, body, Point(Slots(L), t), Point(Slots(L), id))
  PROVE  Runs(E, X, Loop(c, id, body), Point(Slots(L), id), Point(Slots(L), f))
<1>3. PICK z : z = Slots(L)
  OBVIOUS
<1>4. IsSeq(z)
  BY <1>3, SlotsAreSlots
<1>5. PICK y : y = Append(z, Held(e, L))
  OBVIOUS
<1>7. Runs(E, X, c, Point(z, id), Point(y, id))
  BY <1>4, <1>5 DEF Yields
<1>8. PICK k \in Nat : k = Len(c)
  BY DEF Code
<1>9. PICK n \in Nat : n = Len(body)
  BY DEF Code
<1>10. k + 1 + n < Half /\ Half \in Nat
  BY <1>8, <1>9, HalfAssumption
<1>11. n + 1 \in Int /\ -Half <= n + 1 /\ n + 1 < Half
  BY <1>10
<1>12. -(k + 1 + n + 1) \in Int /\ -Half <= -(k + 1 + n + 1) /\ -(k + 1 + n + 1) < Half
  BY <1>10
<1>13. Operand(n + 1) = n + 1 /\ Operand(-(k + 1 + n + 1)) = -(k + 1 + n + 1)
  BY <1>11, <1>12, OperandTyped
<1>14. "JZ" \in {"JZ", "JMP"} /\ "JMP" \in {"JZ", "JMP"} /\ "" \in Words
  BY LiteralsAreWords DEF Literals
<1>15. PICK i \in Instructions : i = WithId(JumpInstruction("JZ", n + 1), id)
  BY <1>11, <1>14, JumpTyped
<1>16. Marked(Jump("JZ", n + 1), id) = <<i>> /\ i.op = "JZ" /\ i.a = n + 1 /\ i.metadata = id
  BY <1>11, <1>13, <1>14, <1>15, JumpTyped
<1>17. PICK j \in Instructions : j = JumpInstruction("JMP", -(k + 1 + n + 1))
  BY <1>12, <1>14, JumpTyped
<1>18. Jump("JMP", -(k + 1 + n + 1)) = <<j>>
  BY <1>12, <1>14, <1>17, JumpTyped
<1>19. j.op = "JMP" /\ j.a = -(k + 1 + n + 1)
  BY <1>13, <1>17 DEF JumpInstruction, Instruction
<1>20. TestsTo(E, X, i, Point(y, id), t, f) /\ IsSeq(y) /\ Less(y, 1) = z
  <2>1. Effect(id, "true", Nowhere, Value[e][L]) \in X /\ Effect(id, "false", Nowhere, Value[e][L]) \in X
    OBVIOUS
  <2>2. <<id, "true", t>> \in E /\ <<id, "false", f>> \in E
    OBVIOUS
  <2>3. /\ TestsTo(E, X, i, Point(Append(z, Held(e, L)), id), t, f)
        /\ IsSeq(Append(z, Held(e, L))) /\ Less(Append(z, Held(e, L)), 1) = z
    BY <1>4, <1>5, <1>16, <2>1, <2>2, TestStep
  <2> QED BY <1>5, <2>3
<1>21. Runs(E, X, c \o <<i>> \o body \o <<j>>, Point(z, id), Point(z, f))
  <2>1. PICK A : A = Point(z, id)
    OBVIOUS
  <2>2. PICK B : B = Point(y, id)
    OBVIOUS
  <2>3. A.stack = z /\ B.stack = y
    BY <2>1, <2>2, PointParts
  <2>4. IsSeq(A.stack) /\ IsSeq(B.stack) /\ Less(B.stack, 1) = z /\ TestsTo(E, X, i, B, t, f)
    BY <1>4, <1>20, <2>2, <2>3
  <2>5. Runs(E, X, c, A, B) /\ Runs(E, X, body, Point(Less(B.stack, 1), t), A)
    BY <1>3, <1>7, <2>1, <2>2, <2>4
  <2>6. i.op = "JZ" /\ i.a = Len(body) + 1 /\ j.op = "JMP" /\ j.a = -(Len(c) + 1 + Len(body) + 1)
    BY <1>8, <1>9, <1>16, <1>19
  <2>7. Runs(E, X, c \o <<i>> \o body \o <<j>>, A, Point(Less(B.stack, 1), f))
    BY <2>4, <2>5, <2>6, RunsLoop
  <2> QED BY <2>1, <2>4, <2>7
<1>22. Loop(c, id, body) = c \o <<i>> \o body \o <<j>>
  <2>1. k + 1 + n - k = n + 1
    OBVIOUS
  <2>2. Loop(c, id, body) = c \o Marked(Jump("JZ", k + 1 + n - k), id) \o body \o Jump("JMP", -(k + 1 + n + 1))
    BY <1>8, <1>9 DEF Loop
  <2> QED BY <1>16, <1>18, <2>1, <2>2
<1> QED BY <1>3, <1>21, <1>22

LEMMA AfterExtends ==
  ASSUME NEW s, s \in Simple \/ s \in Statement, NEW L \in Scopes
  PROVE  Extends(After(s, L), L)
<1>0. PICK x \in Nat : x = Len(L)
  BY DEF Scopes
<1>1. CASE s.kind \in Declaring
  <2>1. s \in Simple
    BY <1>1, StatementFields DEF Declaring, Compound
  <2>2. PICK v \in Vars : v = <<s.name, s.type>>
    BY <1>1, <2>1, SimpleFields DEF Vars
  <2>3. After(s, L) = Append(L, v)
    BY <1>1, <2>2 DEF After
  <2>4. L \in Seq(Vars)
    BY DEF Scopes, Vars
  <2>5. PICK M : M = Append(L, v)
    OBVIOUS
  <2>6. Len(M) = x + 1 /\ \A n \in 1 .. x : M[n] = L[n]
    BY <1>0, <2>4, <2>5
  <2> QED BY <1>0, <2>3, <2>5, <2>6 DEF Extends
<1>2. CASE s.kind \notin Declaring
  <2>1. After(s, L) = L
    BY <1>2 DEF After
  <2> QED BY <1>0, <2>1 DEF Extends
<1> QED BY <1>1, <1>2

LEMMA ExtendsFurther ==
  ASSUME NEW L \in Scopes, NEW M \in Scopes, NEW N \in Scopes, Extends(M, L), Extends(N, M)
  PROVE  Extends(N, L)
<1>1. Len(L) \in Nat /\ Len(M) \in Nat /\ Len(N) \in Nat
  BY DEF Scopes
<1>2. Len(N) >= Len(M) /\ Len(M) >= Len(L)
  BY DEF Extends
<1>3. ASSUME NEW n \in 1 .. Len(L) PROVE N[n] = L[n]
  <2>1. n \in 1 .. Len(M)
    BY <1>1, <1>2
  <2> QED BY <2>1 DEF Extends
<1> QED BY <1>1, <1>2, <1>3 DEF Extends

LEMMA WhileRuns ==
  ASSUME NEW E, NEW X, NEW s \in Statement, s.kind = "while", NEW L \in Scopes,
         StatementMeans(s, L), Does(s, L) \subseteq X, NEW block \in Code, block = Block(s, L), NEW t, NEW f,
         <<s.id, "true", t>> \in E, <<s.id, "false", f>> \in E,
         Runs(E, X, block, Point(Slots(L), t), Point(Slots(L), s.id))
  PROVE  Runs(E, X, emitWhileLoop(s, block, L), Point(Slots(L), s.id), Point(Slots(L), f))
<1>1. s.test \in Expressions /\ s.id \in Words
  BY StatementFields, NamesAreWords DEF Compound
<1>2. TestMeans(s, L) /\ JumpsFit(s, L)
  BY DEF StatementMeans
<1>3. {Effect(s.id, how, Nowhere, Value[s.test][L]) : how \in {"true", "false"}} \subseteq X
  BY DEF Does
<1>4. PICK c \in Code : c = emitExpressionEval[s.test]["none"][L]
  BY <1>1, EvalIsCode
<1>5. Yields(E, X, c, Held(s.test, L))
  BY <1>1, <1>2, <1>4, TestRuns
<1>6. Len(c) + 1 + Len(block) < Half
  <2>1. CodeOf(s, L) = block
    BY DEF CodeOf
  <2> QED BY <1>2, <1>4, <2>1 DEF JumpsFit
<1>7. {<<s.id, "true", t>>, <<s.id, "false", f>>} \subseteq E
  OBVIOUS
<1>8. Runs(E, X, Loop(c, s.id, block), Point(Slots(L), s.id), Point(Slots(L), f))
  BY <1>1, <1>3, <1>5, <1>6, <1>7, LoopRuns
<1> QED BY <1>4, <1>8 DEF emitWhileLoop

(* Once round a for loop: its block and its update.                        *)
LEMMA CycleRuns ==
  ASSUME NEW E, NEW X, NEW s \in Statement, s.kind = "for", NodesOf(s) \subseteq Expressions, NEW M \in Scopes,
         StatementMeans(s.update, M), Does(s.update, M) \subseteq X,
         NEW block \in Code, block = Block(s, M), NEW t, NEW next,
         <<s.update.id, "done", next>> \in E,
         Runs(E, X, block, Point(Slots(M), t), Point(Slots(M), s.update.id))
  PROVE  Runs(E, X, CodeOf(s, M), Point(Slots(M), t), Point(Slots(M), next)) /\ CodeOf(s, M) \in Code
<1>1. PICK z : z = Slots(M)
  OBVIOUS
<1>2. IsSeq(z) /\ AllSlots(z)
  BY <1>1, SlotsAreSlots
<1>3. PICK u \in Increment \cup Assign : u = s.update
  BY StatementFields
<1>4. u.kind = "increment" => <<"unary", "++", u.lhs>> \in Expressions
  BY <1>3, UpdateNodes
<1>5. PICK c : c = compileUpdate(u, M)
  OBVIOUS
<1>6. c \in Code
  BY <1>4, <1>5, UpdateSplits
<1>7. Runs(E, X, c, Point(z, u.id), Point(z, next))
  BY <1>1, <1>3, <1>4, <1>5, UpdateRuns
<1>8. PICK d : d = Debug("FOR_CYCLE_START")
  OBVIOUS
<1>9. Runs(E, X, d, Point(z, t), Point(z, t)) /\ d \in Code
  BY <1>2, <1>8, DebugPoints
<1>10. PICK g : g = Debug("FOR_CYCLE_END")
  OBVIOUS
<1>11. Runs(E, X, g, Point(z, u.id), Point(z, u.id)) /\ g \in Code
  BY <1>2, <1>10, DebugPoints
<1>12. Runs(E, X, block, Point(z, t), Point(z, u.id))
  BY <1>1, <1>3
<1>13. Runs(E, X, d \o block, Point(z, t), Point(z, u.id)) /\ d \o block \in Code
  BY <1>9, <1>12, RunsConcat, ConcatIsCode
<1>14. Runs(E, X, d \o block \o g, Point(z, t), Point(z, u.id)) /\ d \o block \o g \in Code
  BY <1>11, <1>13, RunsConcat, ConcatIsCode
<1>15. Runs(E, X, d \o block \o g \o c, Point(z, t), Point(z, next)) /\ d \o block \o g \o c \in Code
  BY <1>6, <1>7, <1>14, RunsConcat, ConcatIsCode
<1>16. CodeOf(s, M) = d \o block \o g \o c
  BY <1>3, <1>5, <1>8, <1>10 DEF CodeOf
<1> QED BY <1>1, <1>15, <1>16

LEMMA ForRuns ==
  ASSUME NEW E, NEW X, NEW s \in Statement, s.kind = "for", NodesOf(s) \subseteq Expressions, NEW L \in Scopes,
         NEW M \in Scopes, M = After(s.init, L),
         StatementMeans(s.init, L), Does(s.init, L) \subseteq X,
         StatementMeans(s, M), Does(s, M) \subseteq X,
         StatementMeans(s.update, M), Does(s.update, M) \subseteq X,
         NEW block \in Code, block = Block(s, M), NEW t, NEW f,
         <<s.init.id, "done", s.id>> \in E, <<s.update.id, "done", s.id>> \in E,
         <<s.id, "true", t>> \in E, <<s.id, "false", f>> \in E,
         Runs(E, X, block, Point(Slots(M), t), Point(Slots(M), s.update.id))
  PROVE  Runs(E, X, emitForLoop(s, block, L), Point(Slots(L), s.init.id), Point(Slots(L), f))
<1>1. s.test \in Expressions /\ s.id \in Words
  BY StatementFields, NamesAreWords DEF Compound
<1>2. TestMeans(s, M) /\ JumpsFit(s, M)
  BY DEF StatementMeans
<1>3. {Effect(s.id, how, Nowhere, Value[s.test][M]) : how \in {"true", "false"}} \subseteq X
  BY DEF Does
<1>4. PICK c \in Code : c = emitExpressionEval[s.test]["none"][M]
  BY <1>1, EvalIsCode
<1>5. Yields(E, X, c, Held(s.test, M))
  BY <1>1, <1>2, <1>4, TestRuns
<1>6. Runs(E, X, CodeOf(s, M), Point(Slots(M), t), Point(Slots(M), s.id)) /\ CodeOf(s, M) \in Code
  BY CycleRuns
<1>7. PICK b \in Code : b = CodeOf(s, M)
  BY <1>6
<1>8. Len(c) + 1 + Len(b) < Half
  BY <1>2, <1>4, <1>7 DEF JumpsFit
<1>9. {<<s.id, "true", t>>, <<s.id, "false", f>>} \subseteq E
  OBVIOUS
<1>10. PICK l : l = Loop(c, s.id, b)
  OBVIOUS
<1>11. Runs(E, X, l, Point(Slots(M), s.id), Point(Slots(M), f)) /\ l \in Code
  BY <1>1, <1>3, <1>5, <1>6, <1>7, <1>8, <1>9, <1>10, LoopRuns, LoopIsCode
<1>12. s.init \in Simple /\ NodesOf(s.init) \subseteq Expressions
  <2>1. s.init \in Simple /\ s.init.kind \in {"decl", "init", "assign"}
    BY StatementFields, SimpleFields
  <2>2. s.init.kind = "init" => <<"id", s.init.name>> \in Expressions
    BY DEF NodesOf
  <2> QED BY <2>1, <2>2 DEF NodesOf
<1>13. PICK i : i = compileSimple(s.init, L)
  OBVIOUS
<1>14. Runs(E, X, i, Point(Slots(L), s.init.id), Point(Slots(M), s.id)) /\ i \in Code
  BY <1>12, <1>13, SimpleRuns, SimpleSplits
<1>15. PICK d : d = Debug("FOR_STARTED")
  OBVIOUS
<1>16. Runs(E, X, d, Point(Slots(L), s.init.id), Point(Slots(L), s.init.id)) /\ d \in Code
  BY <1>15, SlotsAreSlots, DebugPoints
<1>17. PICK g : g = Debug("FOR_ENDED")
  OBVIOUS
<1>18. Runs(E, X, g, Point(Slots(L), f), Point(Slots(L), f)) /\ g \in Code
  BY <1>17, SlotsAreSlots, DebugPoints
<1>19. Extends(M, L)
  BY <1>12, AfterExtends
<1>20. PICK p \in Code : p = pop_scope(Declared(M, L))
  BY PopScopeIsCode
<1>21. Runs(E, X, p, Point(Slots(M), f), Point(Slots(L), f))
  BY <1>19, <1>20, PopScopeRuns
<1>22. Runs(E, X, d \o i, Point(Slots(L), s.init.id), Point(Slots(M), s.id)) /\ d \o i \in Code
  BY <1>14, <1>16, RunsConcat, ConcatIsCode
<1>23. Runs(E, X, d \o i \o l, Point(Slots(L), s.init.id), Point(Slots(M), f)) /\ d \o i \o l \in Code
  BY <1>11, <1>22, RunsConcat, ConcatIsCode
<1>24. Runs(E, X, d \o i \o l \o p, Point(Slots(L), s.init.id), Point(Slots(L), f)) /\ d \o i \o l \o p \in Code
  BY <1>21, <1>23, RunsConcat, ConcatIsCode
<1>25. Runs(E, X, d \o i \o l \o p \o g, Point(Slots(L), s.init.id), Point(Slots(L), f))
  BY <1>18, <1>24, RunsConcat
<1>26. LocalsAfter(s.init, L) = M
  BY <1>12, ScopesGrow
<1>27. b = Debug("FOR_CYCLE_START") \o block \o Debug("FOR_CYCLE_END") \o compileUpdate(s.update, M)
  BY <1>7 DEF CodeOf
<1>28. emitForLoop(s, block, L) = d \o i \o l \o p \o g
  BY <1>4, <1>10, <1>13, <1>15, <1>17, <1>20, <1>26, <1>27 DEF emitForLoop
<1> QED BY <1>25, <1>28

(***************************************************************************)
(* A block whose statements mean something does what it says.              *)
(***************************************************************************)
Good(X, s, L) == StatementMeans(s, L) /\ Does(s, L) \subseteq X
AllGood(X, sites) == \A site \in sites : Good(X, site[1], site[2])

Kept(E, X, body) ==
  \A L \in Scopes, after \in Labels :
    Edges[body][after] \subseteq E /\ AllGood(X, Sites[body][L]) =>
      /\ Extends(Statements[body][L].scope, L)
      /\ Runs(E, X, Statements[body][L].code, Point(Slots(L), First(body, after)),
              Point(Slots(Statements[body][L].scope), after))

Entry(s) == IF s.kind = "for" THEN s.init.id ELSE s.id

LEMMA InnerBlockRuns ==
  ASSUME NEW E, NEW X, NEW body \in Bodies, Kept(E, X, body), NEW M \in Scopes, NEW after \in Labels,
         Edges[body][after] \subseteq E, AllGood(X, Sites[body][M])
  PROVE  /\ emitBlock(Statements[body][M], M) \in Code
         /\ Runs(E, X, emitBlock(Statements[body][M], M), Point(Slots(M), First(body, after)), Point(Slots(M), after))
<1>1. PICK r : r = Statements[body][M]
  OBVIOUS
<1>2. r.code \in Code /\ r.scope \in Scopes
  BY <1>1, StatementsEquation DEF Pieces
<1>3. Extends(r.scope, M) /\ Runs(E, X, r.code, Point(Slots(M), First(body, after)), Point(Slots(r.scope), after))
  BY <1>1 DEF Kept
<1> QED BY <1>1, <1>2, <1>3, BlockRuns, BlockIsCode

(* The edges and the sites of the statement at the head of a block.        *)
Arrived(E, s, next) ==
  /\ s.kind \in Compound => /\ <<s.id, "true", First(s.body, Again(s, next))>> \in E
                            /\ <<s.id, "false", next>> \in E
                            /\ Edges[s.body][Again(s, next)] \subseteq E
  /\ s.kind \notin Compound => <<s.id, "done", next>> \in E
  /\ s.kind = "for" => <<s.init.id, "done", s.id>> \in E /\ <<s.update.id, "done", s.id>> \in E
Seen(X, s, L) ==
  /\ Good(X, s, Inner(s, L))
  /\ s.kind \in Compound => AllGood(X, Sites[s.body][Inner(s, L)])
  /\ s.kind = "for" => Good(X, s.init, L) /\ Good(X, s.update, Inner(s, L))

LEMMA StatementRuns ==
  ASSUME NEW E, NEW X, NEW s \in Statement, NodesOf(s) \subseteq Expressions, NEW L \in Scopes, NEW next \in Labels,
         Arrived(E, s, next), Seen(X, s, L), s.kind \in Compound => Kept(E, X, s.body)
  PROVE  Runs(E, X, emitStatement(s, BlockOf(Statements, s, L), L), Point(Slots(L), Entry(s)),
              Point(Slots(After(s, L)), next))
<1>1. PICK M \in Scopes : M = Inner(s, L)
  BY ScopesStay
<1>2. s.kind \in {"decl", "init", "assign", "if", "while", "for"} /\ s.id \in Ids
  BY StatementFields
<1>3. PICK again \in Labels : again = Again(s, next)
  BY AgainIsLabel
<1>4. ASSUME s.kind \in Compound
      PROVE  /\ BlockOf(Statements, s, L) = emitBlock(Statements[s.body][M], M)
             /\ emitBlock(Statements[s.body][M], M) \in Code
             /\ Runs(E, X, emitBlock(Statements[s.body][M], M), Point(Slots(M), First(s.body, again)),
                     Point(Slots(M), again))
             /\ <<s.id, "true", First(s.body, again)>> \in E /\ <<s.id, "false", next>> \in E
             /\ After(s, L) = L /\ s.test \in Expressions
  <2>1. s.body \in Bodies /\ s.test \in Expressions
    BY <1>4, StatementFields
  <2>2. Edges[s.body][again] \subseteq E /\ AllGood(X, Sites[s.body][M]) /\ Kept(E, X, s.body)
    BY <1>1, <1>3, <1>4 DEF Arrived, Seen
  <2>3. /\ emitBlock(Statements[s.body][M], M) \in Code
        /\ Runs(E, X, emitBlock(Statements[s.body][M], M), Point(Slots(M), First(s.body, again)),
                Point(Slots(M), again))
    BY <2>1, <2>2, InnerBlockRuns
  <2>4. <<s.id, "true", First(s.body, again)>> \in E /\ <<s.id, "false", next>> \in E
    BY <1>3, <1>4 DEF Arrived
  <2>5. BlockOf(Statements, s, L) = emitBlock(Statements[s.body][M], M)
    BY <1>1, <1>4 DEF BlockOf
  <2> QED BY <1>4, <2>1, <2>3, <2>4, <2>5, ScopesStay
<1>5. StatementMeans(s, M) /\ Does(s, M) \subseteq X
  BY <1>1 DEF Seen, Good
<1>6. CASE s.kind = "if"
  <2>1. s.kind \in Compound /\ M = L /\ again = next /\ Entry(s) = s.id
    BY <1>1, <1>3, <1>6 DEF Compound, Inner, Again, Entry
  <2>2. PICK block \in Code : block = emitBlock(Statements[s.body][L], L)
    BY <1>4, <2>1
  <2>3. TestMeans(s, L) /\ JumpsFit(s, L)
    BY <1>5, <1>6, <2>1 DEF StatementMeans
  <2>4. Len(block) < Half
    BY <1>6, <2>2, <2>3 DEF JumpsFit, Block
  <2>5. {Effect(s.id, how, Nowhere, Value[s.test][L]) : how \in {"true", "false"}} \subseteq X
    BY <1>5, <1>6, <2>1 DEF Does
  <2>6. PICK t : t = First(s.body, next)
    OBVIOUS
  <2>7. {<<s.id, "true", t>>, <<s.id, "false", next>>} \subseteq E
    BY <1>4, <2>1, <2>6
  <2>8. Runs(E, X, block, Point(Slots(L), t), Point(Slots(L), next))
    BY <1>4, <2>1, <2>2, <2>6
  <2>9. s.test \in Expressions /\ After(s, L) = L
    BY <1>4, <2>1
  <2>10. Runs(E, X, emitBranchCode(s, block, L), Point(Slots(L), s.id), Point(Slots(L), next))
    BY <1>2, <1>6, <2>3, <2>4, <2>5, <2>7, <2>8, <2>9, BranchRuns
  <2>11. emitStatement(s, block, L) = emitBranchCode(s, block, L)
    BY <1>6 DEF emitStatement
  <2>12. BlockOf(Statements, s, L) = block
    BY <1>4, <2>1, <2>2
  <2> QED BY <2>1, <2>9, <2>10, <2>11, <2>12
<1>7. CASE s.kind = "while"
  <2>1. s.kind \in Compound /\ M = L /\ again = s.id /\ Entry(s) = s.id
    BY <1>1, <1>3, <1>7 DEF Compound, Inner, Again, Entry
  <2>2. PICK block \in Code : block = emitBlock(Statements[s.body][L], L)
    BY <1>4, <2>1
  <2>3. block = Block(s, L)
    BY <2>2 DEF Block
  <2>4. PICK t : t = First(s.body, s.id)
    OBVIOUS
  <2>5. <<s.id, "true", t>> \in E /\ <<s.id, "false", next>> \in E
    BY <1>4, <2>1, <2>4
  <2>6. Runs(E, X, block, Point(Slots(L), t), Point(Slots(L), s.id))
    BY <1>4, <2>1, <2>2, <2>4
  <2>7. StatementMeans(s, L) /\ Does(s, L) \subseteq X
    BY <1>5, <2>1
  <2>8. Runs(E, X, emitWhileLoop(s, block, L), Point(Slots(L), s.id), Point(Slots(L), next))
    BY <1>7, <2>3, <2>5, <2>6, <2>7, WhileRuns
  <2>9. emitStatement(s, block, L) = emitWhileLoop(s, block, L)
    BY <1>7 DEF emitStatement
  <2>10. BlockOf(Statements, s, L) = block /\ After(s, L) = L
    BY <1>4, <2>1, <2>2
  <2> QED BY <2>1, <2>8, <2>9, <2>10
<1>8. CASE s.kind = "for"
  <2>1. s.kind \in Compound /\ M = After(s.init, L) /\ again = s.update.id /\ Entry(s) = s.init.id
    BY <1>1, <1>3, <1>8, InnerScopes DEF Compound, Again, Entry
  <2>2. PICK block \in Code : block = emitBlock(Statements[s.body][M], M)
    BY <1>4, <2>1
  <2>3. block = Block(s, M)
    BY <2>2 DEF Block
  <2>4. PICK t : t = First(s.body, s.update.id)
    OBVIOUS
  <2>5. <<s.id, "true", t>> \in E /\ <<s.id, "false", next>> \in E
    BY <1>4, <2>1, <2>4
  <2>6. Runs(E, X, block, Point(Slots(M), t), Point(Slots(M), s.update.id))
    BY <1>4, <2>1, <2>2, <2>4
  <2>7. <<s.init.id, "done", s.id>> \in E /\ <<s.update.id, "done", s.id>> \in E
    BY <1>8 DEF Arrived
  <2>8. StatementMeans(s.init, L) /\ Does(s.init, L) \subseteq X
        /\ StatementMeans(s.update, M) /\ Does(s.update, M) \subseteq X
    BY <1>1, <1>8 DEF Seen, Good
  <2>9. Runs(E, X, emitForLoop(s, block, L), Point(Slots(L), s.init.id), Point(Slots(L), next))
    BY <1>5, <1>8, <2>1, <2>3, <2>5, <2>6, <2>7, <2>8, ForRuns
  <2>10. emitStatement(s, block, L) = emitForLoop(s, block, L)
    BY <1>8 DEF emitStatement
  <2>11. BlockOf(Statements, s, L) = block /\ After(s, L) = L
    BY <1>4, <2>1, <2>2
  <2> QED BY <2>1, <2>9, <2>10, <2>11
<1>9. CASE s.kind \notin Compound
  <2>1. s \in Simple /\ Entry(s) = s.id
    BY <1>9, StatementFields DEF Entry, Compound
  <2>2. M = L
    BY <1>1, <1>9 DEF Inner, Compound
  <2>3. StatementMeans(s, L) /\ Does(s, L) \subseteq X /\ <<s.id, "done", next>> \in E
    BY <1>5, <1>9, <2>2 DEF Arrived
  <2>4. Runs(E, X, compileSimple(s, L), Point(Slots(L), s.id), Point(Slots(After(s, L)), next))
    BY <2>1, <2>3, SimpleRuns
  <2>5. emitStatement(s, BlockOf(Statements, s, L), L) = compileSimple(s, L)
    BY <1>9 DEF emitStatement, Compound
  <2> QED BY <2>1, <2>4, <2>5
<1> QED BY <1>2, <1>6, <1>7, <1>8, <1>9 DEF Compound

LEMMA HeadIsArrivedAt ==
  ASSUME NEW E, NEW X, NEW body \in Bodies, body # <<>>, NEW L \in Scopes, NEW after \in Labels,
         Edges[body][after] \subseteq E, AllGood(X, Sites[body][L])
  PROVE  /\ Arrived(E, Head(body), First(Tail(body), after)) /\ Seen(X, Head(body), L)
         /\ Edges[Tail(body)][after] \subseteq E
         /\ AllGood(X, Sites[Tail(body)][After(Head(body), L)])
<1>0. PICK next : next = First(Tail(body), after)
  OBVIOUS
<1>1. PICK s \in Statement : s = Head(body)
  BY BodyNodes
<1>2. PICK M : M = Inner(s, L)
  OBVIOUS
<1>3. M = IF s.kind = "for" THEN After(s.init, L) ELSE L
  BY <1>2, InnerScopes
<1>4. Edges[body][after] = EdgesOf(Edges, body)[after]
  BY EdgesEquation
<1>5. EdgesOf(Edges, body)[after] =
        Edges[Tail(body)][after]
        \cup (IF s.kind \in Compound
              THEN {<<s.id, "true", First(s.body, Again(s, next))>>, <<s.id, "false", next>>}
                   \cup Edges[s.body][Again(s, next)]
              ELSE {<<s.id, "done", next>>})
        \cup (IF s.kind = "for" THEN {<<s.init.id, "done", s.id>>, <<s.update.id, "done", s.id>>} ELSE {})
  BY <1>0, <1>1 DEF EdgesOf
<1>6. Arrived(E, s, next) /\ Edges[Tail(body)][after] \subseteq E
  BY <1>4, <1>5 DEF Arrived
<1>7. Sites[body][L] = SitesOf(Sites, body)[L]
  BY SitesEquation
<1>8. SitesOf(Sites, body)[L] =
        {<<s, M>>} \cup Sites[Tail(body)][After(s, L)]
        \cup (IF s.kind \in Compound THEN Sites[s.body][M] ELSE {})
        \cup (IF s.kind = "for" THEN {<<s.init, L>>, <<s.update, M>>} ELSE {})
  BY <1>1, <1>3 DEF SitesOf
<1>9. PICK sites : sites = Sites[body][L]
  OBVIOUS
<1>10. \A site \in sites : Good(X, site[1], site[2])
  BY <1>9 DEF AllGood
<1>11. <<s, M>> \in sites /\ Sites[Tail(body)][After(s, L)] \subseteq sites
       /\ (s.kind \in Compound => Sites[s.body][M] \subseteq sites)
       /\ (s.kind = "for" => <<s.init, L>> \in sites /\ <<s.update, M>> \in sites)
  BY <1>7, <1>8, <1>9
<1>12. Good(X, s, M) /\ (s.kind = "for" => Good(X, s.init, L) /\ Good(X, s.update, M))
  BY <1>10, <1>11
<1>13. AllGood(X, Sites[Tail(body)][After(s, L)]) /\ (s.kind \in Compound => AllGood(X, Sites[s.body][M]))
  BY <1>10, <1>11 DEF AllGood
<1>14. Seen(X, s, L)
  BY <1>2, <1>12, <1>13 DEF Seen
<1> QED BY <1>0, <1>1, <1>6, <1>13, <1>14

LEMMA FirstIsEntry ==
  ASSUME NEW body, body # <<>>, NEW after
  PROVE  First(body, after) = Entry(Head(body))
BY DEF First, Entry

LEMMA RestKeeps ==
  ASSUME NEW E, NEW X, NEW body \in Bodies, body # <<>>, BlocksOf(body) \subseteq {b \in Bodies : Kept(E, X, b)},
         NEW L \in Scopes, NEW after \in Labels, Edges[body][after] \subseteq E, AllGood(X, Sites[body][L])
  PROVE  /\ Extends(Statements[body][L].scope, L)
         /\ Runs(E, X, Statements[body][L].code, Point(Slots(L), First(body, after)),
                 Point(Slots(Statements[body][L].scope), after))
<1>1. PICK s \in Statement : s = Head(body) /\ NodesOf(s) \subseteq Expressions
  BY BodyNodes
<1>2. PICK next \in Labels : next = First(Tail(body), after)
  BY BodyNodes, BodyParts, FirstIsLabel
<1>3. PICK M \in Scopes : M = After(s, L)
  BY ScopesStay
<1>4. PICK r : r = Statements[Tail(body)][M]
  OBVIOUS
<1>5. Tail(body) \in Bodies /\ Kept(E, X, Tail(body)) /\ (s.kind \in Compound => Kept(E, X, s.body))
  BY <1>1, BodyNodes
<1>6. r.code \in Code /\ r.scope \in Scopes
  BY <1>4, <1>5, StatementsEquation DEF Pieces
<1>7. /\ Arrived(E, s, next) /\ Seen(X, s, L)
      /\ Edges[Tail(body)][after] \subseteq E /\ AllGood(X, Sites[Tail(body)][M])
  <2>1. /\ Arrived(E, Head(body), First(Tail(body), after)) /\ Seen(X, Head(body), L)
        /\ Edges[Tail(body)][after] \subseteq E
        /\ AllGood(X, Sites[Tail(body)][After(Head(body), L)])
    BY HeadIsArrivedAt
  <2> QED BY <1>1, <1>2, <1>3, <2>1
<1>8. Extends(r.scope, M) /\ Runs(E, X, r.code, Point(Slots(M), next), Point(Slots(r.scope), after))
  BY <1>2, <1>4, <1>5, <1>7 DEF Kept
<1>9. Extends(M, L)
  BY <1>3, AfterExtends
<1>10. Extends(r.scope, L)
  BY <1>6, <1>8, <1>9, ExtendsFurther
<1>11. PICK block : block = BlockOf(Statements, s, L)
  OBVIOUS
<1>12. block \in Code
  <2>1. CASE s.kind \in Compound
    <3>1. s.body \in Bodies
      BY <2>1, StatementFields
    <3>2. PICK q : q = Statements[s.body][Inner(s, L)]
      OBVIOUS
    <3>3. q.code \in Code /\ q.scope \in Scopes
      BY <3>1, <3>2, ScopesStay, StatementsEquation DEF Pieces
    <3>4. emitBlock(q, Inner(s, L)) \in Code
      BY <3>3, BlockIsCode, ScopesStay
    <3> QED BY <1>11, <2>1, <3>2, <3>4 DEF BlockOf
  <2>2. CASE s.kind \notin Compound
    BY <1>11, <2>2, EmptyIsCode DEF BlockOf
  <2> QED BY <2>1, <2>2
<1>13. PICK c \in Code : c = emitStatement(s, block, L)
  BY <1>1, <1>12, StatementIsCode
<1>14. Runs(E, X, c, Point(Slots(L), Entry(s)), Point(Slots(M), next))
  BY <1>1, <1>3, <1>5, <1>7, <1>11, <1>13, StatementRuns
<1>15. PICK d : d = Debug("TRACE")
  OBVIOUS
<1>16. Runs(E, X, d, Point(Slots(M), next), Point(Slots(M), next)) /\ d \in Code
  BY <1>15, SlotsAreSlots, DebugPoints
<1>17. Runs(E, X, c \o d, Point(Slots(L), Entry(s)), Point(Slots(M), next)) /\ c \o d \in Code
  BY <1>14, <1>16, RunsConcat, ConcatIsCode
<1>18. Runs(E, X, c \o d \o r.code, Point(Slots(L), Entry(s)), Point(Slots(r.scope), after))
  BY <1>6, <1>8, <1>17, RunsConcat
<1>19. Statements[body][L] = PieceOf(Statements, body, L)
  <2>1. Statements[body] = PiecesOf(Statements, body)
    BY StatementsEquation
  <2> QED BY <2>1 DEF PiecesOf
<1>20. LocalsAfter(s, L) = M
  BY <1>3, ScopesStay
<1>21. Statements[body][L].code = c \o d \o r.code /\ Statements[body][L].scope = r.scope
  <2>1. PieceOf(Statements, body, L) =
          [code |-> emitStatement(s, BlockOf(Statements, s, L), L) \o Debug("TRACE")
                      \o Statements[Tail(body)][LocalsAfter(s, L)].code,
           scope |-> Statements[Tail(body)][LocalsAfter(s, L)].scope]
    BY <1>1 DEF PieceOf
  <2>2. PieceOf(Statements, body, L) = [code |-> c \o d \o r.code, scope |-> r.scope]
    BY <1>4, <1>11, <1>13, <1>15, <1>20, <2>1
  <2>3. PICK w : w = c \o d \o r.code
    OBVIOUS
  <2>4. PICK scope : scope = r.scope
    OBVIOUS
  <2>5. Statements[body][L] = [code |-> w, scope |-> scope]
    BY <1>19, <2>2, <2>3, <2>4
  <2>6. Statements[body][L].code = w /\ Statements[body][L].scope = scope
    BY <2>5
  <2> QED BY <2>3, <2>4, <2>6
<1>22. First(body, after) = Entry(s)
  BY <1>1, FirstIsEntry
<1> QED BY <1>10, <1>18, <1>21, <1>22

LEMMA BodyRuns ==
  ASSUME NEW E, NEW X, NEW body \in Bodies
  PROVE  Kept(E, X, body)
<1> DEFINE T == {b \in Bodies : Kept(E, X, b)}
<1>1. ASSUME NEW b \in Bodies, BlocksOf(b) \subseteq T PROVE Kept(E, X, b)
  <2>1. CASE b = <<>>
    <3>1. ASSUME NEW L \in Scopes, NEW after \in Labels
          PROVE  /\ Extends(Statements[b][L].scope, L)
                 /\ Runs(E, X, Statements[b][L].code, Point(Slots(L), First(b, after)),
                         Point(Slots(Statements[b][L].scope), after))
      <4>1. Statements[b] = PiecesOf(Statements, b)
        BY StatementsEquation
      <4>2. Statements[b][L] = [code |-> <<>>, scope |-> L]
        BY <2>1, <4>1 DEF PiecesOf
      <4>3. Statements[b][L].code = <<>> /\ Statements[b][L].scope = L
        BY <4>2
      <4>4. First(b, after) = after
        BY <2>1 DEF First
      <4>5. Extends(L, L)
        BY DEF Extends, Scopes
      <4>6. Runs(E, X, <<>>, Point(Slots(L), after), Point(Slots(L), after))
        BY RunsEmpty
      <4> QED BY <4>3, <4>4, <4>5, <4>6
    <3> QED BY <3>1 DEF Kept
  <2>2. CASE b # <<>>
    <3>1. ASSUME NEW L \in Scopes, NEW after \in Labels, Edges[b][after] \subseteq E, AllGood(X, Sites[b][L])
          PROVE  /\ Extends(Statements[b][L].scope, L)
                 /\ Runs(E, X, Statements[b][L].code, Point(Slots(L), First(b, after)),
                         Point(Slots(Statements[b][L].scope), after))
      BY <1>1, <2>2, <3>1, RestKeeps
    <3> QED BY <3>1 DEF Kept
  <2> QED BY <2>1, <2>2
<1> HIDE DEF T
<1>2. \A b \in Bodies : BlocksOf(b) \subseteq T => b \in T
  BY <1>1 DEF T
<1>3. Bodies \subseteq T
  BY <1>2, BodyInduct
<1> QED BY <1>3 DEF T

(***************************************************************************)
(* 11  A method.  Its code is a prefix and OP_RETURN, and the prefix has a *)
(* certificate from the stack of the caller's "this" to the empty stack.   *)
(***************************************************************************)
Prefix(body) == emitBlock(Statements[body][Receiver], Receiver) \o Instr("MOV", "up", "this", "")
Caller(body) == Point(<< Slot("this") >>, Start(body))
Done == Point(<<>>, "end")

LEMMA OrderIsArrows ==
  ASSUME NEW body \in Bodies
  PROVE  Order(body) \subseteq Arrows
<1>1. "end" \in Labels
  BY DEF Labels
<1>2. Edges[body]["end"] \in SUBSET Arrows
  BY <1>1, EdgesEquation
<1> QED BY <1>2 DEF Order

LEMMA StatementsAreGood ==
  ASSUME NEW body \in Bodies, Means(body)
  PROVE  AllGood(Effects(body), Sites[body][Receiver])
<1>1. ASSUME NEW site \in Sites[body][Receiver] PROVE Good(Effects(body), site[1], site[2])
  <2>1. StatementMeans(site[1], site[2])
    BY DEF Means
  <2>2. Does(site[1], site[2]) \subseteq Effects(body)
    BY DEF Effects
  <2> QED BY <2>1, <2>2 DEF Good
<1> QED BY <1>1 DEF AllGood

LEMMA ReceiverSlots == Slots(Receiver) = << Slot("this") >>
<1>1. PICK v : v = Slot("this")
  OBVIOUS
<1>2. Len(Receiver) = 1 /\ Receiver[1][1] = "this"
  BY ReceiverIsScope
<1>3. Slots(Receiver) = [n \in 1 .. 1 |-> v]
  <2>1. \A n \in 1 .. 1 : Slot(Receiver[n][1]) = v
    BY <1>1, <1>2
  <2>2. Slots(Receiver) = [n \in 1 .. 1 |-> Slot(Receiver[n][1])]
    BY <1>2 DEF Slots
  <2> QED BY <2>1, <2>2
<1>4. [n \in 1 .. 1 |-> v] = <<v>>
  OBVIOUS
<1> QED BY <1>1, <1>3, <1>4

LEMMA MethodRuns ==
  ASSUME NEW body \in Bodies, Means(body)
  PROVE  Prefix(body) \in Code /\ Runs(Order(body), Effects(body), Prefix(body), Caller(body), Done)
<1>1. PICK E : E = Order(body)
  OBVIOUS
<1>2. PICK X : X = Effects(body)
  OBVIOUS
<1>3. "end" \in Labels /\ Receiver \in Scopes
  BY ReceiverIsScope DEF Labels
<1>4. Edges[body]["end"] \subseteq E /\ AllGood(X, Sites[body][Receiver])
  BY <1>1, <1>2, StatementsAreGood DEF Order
<1>5. PICK b : b = emitBlock(Statements[body][Receiver], Receiver)
  OBVIOUS
<1>6. b \in Code /\ Runs(E, X, b, Point(Slots(Receiver), First(body, "end")), Point(Slots(Receiver), "end"))
  BY <1>3, <1>4, <1>5, BodyRuns, InnerBlockRuns
<1>7. PICK z : z = << Slot("this") >>
  OBVIOUS
<1>8. Runs(E, X, b, Point(z, Start(body)), Point(z, "end"))
  BY <1>6, <1>7, ReceiverSlots DEF Start
<1>9. PICK u : u = Slot("this")
  OBVIOUS
<1>10. z = Append(<<>>, u) /\ IsSeq(<<>>)
  BY <1>7, <1>9 DEF IsSeq
<1>11. IsSeq(z) /\ Len(z) >= 1 /\ TopOf(z) = u /\ Less(z, 1) = <<>>
  <2>1. PICK e : e = <<>>
    OBVIOUS
  <2>2. IsSeq(e) /\ Len(e) = 0 /\ z = Append(e, u)
    BY <1>10, <2>1
  <2>3. IsSeq(Append(e, u)) /\ Len(Append(e, u)) = Len(e) + 1 /\ TopOf(Append(e, u)) = u
        /\ Less(Append(e, u), 1) = e
    BY <2>2, PushIsSeq
  <2> QED BY <2>1, <2>2, <2>3
<1>12. {"MOV", "up", "this", ""} \subseteq Words
  BY LiteralsAreWords DEF Literals
<1>13. PICK i \in Instructions : i = Instruction("MOV", "up", "this", "")
  BY <1>12, InstructionTyped
<1>14. i.op = "MOV" /\ i.a = "up" /\ i.b = "this"
  BY <1>13 DEF Instruction
<1>15. Releases(i, Point(z, "end"), Done)
  <2>1. Point(z, "end").stack = z /\ Point(z, "end").next = "end"
    BY PointParts
  <2>2. TopOf(z) = Slot(i.b)
    BY <1>9, <1>11, <1>14
  <2> QED BY <1>11, <1>14, <2>1, <2>2 DEF Releases, Done
<1>16. Straight(E, X, i, Point(z, "end"), Done)
  BY <1>14, <1>15 DEF Straight
<1>17. IsSeq(Point(z, "end").stack)
  BY <1>11, PointParts
<1>18. Runs(E, X, <<i>>, Point(z, "end"), Done) /\ <<i>> \in Code
  BY <1>14, <1>16, <1>17, RunsStep, Single DEF Code
<1>19. Runs(E, X, b \o <<i>>, Point(z, Start(body)), Done) /\ b \o <<i>> \in Code
  BY <1>6, <1>8, <1>18, RunsConcat, ConcatIsCode
<1>20. Prefix(body) = b \o <<i>>
  BY <1>5, <1>13 DEF Prefix, Instr
<1> QED BY <1>1, <1>2, <1>7, <1>19, <1>20 DEF Caller

LEMMA CodeOfMethod ==
  ASSUME NEW body \in Bodies, Means(body)
  PROVE  /\ compileFunction(body) \in Code /\ Len(Prefix(body)) \in Nat
         /\ Len(compileFunction(body)) = Len(Prefix(body)) + 1
         /\ \A n \in 1 .. Len(Prefix(body)) : compileFunction(body)[n] = Prefix(body)[n]
         /\ compileFunction(body)[Len(Prefix(body)) + 1].op = "RETURN"
<1>1. PICK p \in Code : p = Prefix(body)
  BY MethodRuns
<1>2. {"RETURN", ""} \subseteq Words
  BY LiteralsAreWords DEF Literals
<1>3. PICK r \in Instructions : r = Instruction("RETURN", "", "", "")
  BY <1>2, InstructionTyped
<1>4. r.op = "RETURN"
  BY <1>3 DEF Instruction
<1>5. compileFunction(body) = p \o <<r>>
  BY <1>1, <1>3 DEF compileFunction, Prefix, Instr
<1>6. PICK k \in Nat : k = Len(p)
  BY DEF Code
<1>7. p \in Seq(Instructions) /\ <<r>> \in Seq(Instructions) /\ Len(<<r>>) = 1 /\ <<r>>[1] = r
  BY Single DEF Code
<1>8. PICK c : c = p \o <<r>>
  OBVIOUS
<1>9. c \in Code /\ Len(c) = k + 1 /\ (\A n \in 1 .. k : c[n] = p[n]) /\ c[k + 1] = r
  BY <1>6, <1>7, <1>8 DEF Code
<1> QED BY <1>1, <1>4, <1>5, <1>6, <1>8, <1>9

(***************************************************************************)
(* 12  The machine.  It is somewhere in the prefix, at the point of a      *)
(* certificate, or it has returned.                                        *)
(***************************************************************************)
FollowOf(body, e) ==
  IF e = Begin THEN Start(body)
  ELSE (CHOOSE x \in Order(body) : x[1] = e.at /\ x[2] = e.how)[3]

At(body, m, n, s, e) ==
  /\ Certifies(Order(body), Effects(body), Prefix(body), m, Caller(body), Done)
  /\ n \in 1 .. Len(Prefix(body)) + 1
  /\ s = m[n].stack
  /\ FollowOf(body, e) = m[n].next
  /\ e # End

Outcomes == {"done", "true", "false"}
Running == \E m : At(program, m, pc, stack, last)
Returned == pc = 0 /\ stack = <<>> /\ last = End
Inv ==
  /\ program \in Programs
  /\ code = compileFunction(program)
  /\ last.how \in Outcomes
  /\ Running \/ Returned

LEMMA ProgramsMean ==
  ASSUME MethodsMean, NEW body \in Programs
  PROVE  body \in Bodies /\ Means(body)
BY ProgramAssumption DEF MethodsMean

(* The statement that follows is the one the edge leads to.                *)
LEMMA EdgeFollows ==
  ASSUME NEW body \in Bodies, Means(body), NEW at, NEW how, NEW next, <<at, how, next>> \in Order(body),
         NEW target, NEW value, NEW e, e = Effect(at, how, target, value)
  PROVE  FollowOf(body, e) = next /\ e # End /\ how \in Outcomes /\ e.how = how /\ e.at = at
<1>1. PICK O : O = Order(body)
  OBVIOUS
<1>2. PICK x \in O : x = <<at, how, next>>
  BY <1>1
<1>3. x \in Arrows
  BY <1>1, OrderIsArrows
<1>4. at \in Ids /\ how \in Outcomes
  BY <1>2, <1>3 DEF Arrows, Outcomes
<1>5. e.at = at /\ e.how = how
  BY DEF Effect
<1>6. Begin.at = "begin" /\ End.at = "end"
  BY DEF Begin, End, Effect
<1>7. e # Begin /\ e # End
  BY <1>4, <1>5, <1>6 DEF Ids
<1>8. \A y \in O : y[1] = x[1] /\ y[2] = x[2] => y = x
  BY <1>1, <1>2 DEF Means
<1>9. PICK y : y = CHOOSE z \in O : z[1] = e.at /\ z[2] = e.how
  OBVIOUS
<1>10. y \in O /\ y[1] = e.at /\ y[2] = e.how
  <2>1. x[1] = e.at /\ x[2] = e.how
    BY <1>2, <1>5
  <2> QED BY <1>9, <2>1
<1>11. y = x
  BY <1>2, <1>5, <1>8, <1>10
<1>12. FollowOf(body, e) = y[3]
  BY <1>1, <1>7, <1>9 DEF FollowOf
<1> QED BY <1>2, <1>4, <1>5, <1>7, <1>11, <1>12

(* The instruction at a point of the prefix, and the one after the prefix. *)
LEMMA AtInstruction ==
  ASSUME MethodsMean, NEW body \in Programs, NEW m, NEW n, NEW s, NEW e, At(body, m, n, s, e), NEW c,
         c = compileFunction(body)
  PROVE  /\ n \in DOMAIN c /\ n \in Nat /\ n # 0
         /\ n = Len(Prefix(body)) + 1 => c[n].op = "RETURN" /\ s = <<>> /\ FollowOf(body, e) = "end"
         /\ n # Len(Prefix(body)) + 1 =>
              /\ IsSeq(s) /\ n \in 1 .. Len(Prefix(body))
              /\ Local(Order(body), Effects(body), c[n], m, n, Len(Prefix(body)))
<1>1. body \in Bodies /\ Means(body)
  BY ProgramsMean
<1>2. PICK k \in Nat : k = Len(Prefix(body))
  BY <1>1, CodeOfMethod
<1>3. c \in Code /\ Len(c) = k + 1 /\ c[k + 1].op = "RETURN" /\ \A j \in 1 .. k : c[j] = Prefix(body)[j]
  BY <1>1, <1>2, CodeOfMethod
<1>4. n \in 1 .. k + 1
  BY <1>2 DEF At
<1>5. DOMAIN c = 1 .. k + 1
  BY <1>3 DEF Code
<1>6. ASSUME n = k + 1 PROVE c[n].op = "RETURN" /\ s = <<>> /\ FollowOf(body, e) = "end"
  <2>1. m[n] = Done /\ s = m[n].stack /\ FollowOf(body, e) = m[n].next
    BY <1>2, <1>6 DEF At, Certifies
  <2>2. Done.stack = <<>> /\ Done.next = "end"
    BY PointParts DEF Done
  <2> QED BY <1>3, <1>6, <2>1, <2>2
<1>7. ASSUME n # k + 1
      PROVE  IsSeq(s) /\ n \in 1 .. k /\ Local(Order(body), Effects(body), c[n], m, n, k)
  <2>1. n \in 1 .. k
    BY <1>4, <1>7
  <2>2. Local(Order(body), Effects(body), c[n], m, n, k)
    BY <1>2, <1>3, <2>1 DEF At, Certifies
  <2>3. s = m[n].stack
    BY DEF At
  <2> QED BY <2>1, <2>2, <2>3 DEF Local
<1>8. n \in Nat /\ n # 0
  BY <1>2, <1>4
<1> QED BY <1>2, <1>4, <1>5, <1>6, <1>7, <1>8

(* A step that completes no statement.                                     *)
LEMMA AtNext ==
  ASSUME NEW body, NEW m, NEW n, NEW s, NEW e, At(body, m, n, s, e), NEW k \in 1 .. Len(Prefix(body)) + 1, NEW t,
         t = m[k].stack, m[k].next = m[n].next
  PROVE  At(body, m, k, t, e)
BY DEF At

(* A step that completes one.                                              *)
LEMMA AtCompleted ==
  ASSUME NEW body \in Bodies, Means(body), NEW m, NEW n, NEW s, NEW e, At(body, m, n, s, e),
         NEW k \in 1 .. Len(Prefix(body)) + 1, NEW t, t = m[k].stack,
         NEW at, at = m[n].next, NEW how, <<at, how, m[k].next>> \in Order(body), NEW target, NEW value,
         NEW f, f = Effect(at, how, target, value)
  PROVE  At(body, m, k, t, f) /\ f.how \in Outcomes /\ f.at = FollowOf(body, e)
<1>1. PICK next : next = m[k].next
  OBVIOUS
<1>2. <<at, how, next>> \in Order(body)
  BY <1>1
<1>3. FollowOf(body, f) = next /\ f # End /\ how \in Outcomes /\ f.how = how /\ f.at = at
  BY <1>2, EdgeFollows
<1>4. FollowOf(body, e) = at
  BY DEF At
<1>5. At(body, m, k, t, f)
  BY <1>1, <1>3 DEF At
<1> QED BY <1>3, <1>4, <1>5

LEMMA OpsAreApart ==
  ASSUME NEW E, NEW X, NEW i, NEW p, NEW q, Straight(E, X, i, p, q)
  PROVE  /\ i.op \in Computing => Computes(i, p, q)
         /\ i.op = "SET" => Sets(E, X, i, p, q)
         /\ i.op = "INCREMENT" => Increments(E, X, i, p, q)
         /\ i.op = "MOV" => Declares(E, X, i, p, q) \/ Releases(i, p, q)
         /\ i.op = "DEBUG" => Traces(i, p, q)
         /\ i.op \in Computing \cup {"SET", "INCREMENT", "MOV", "DEBUG"}
<1>1. DOMAIN Commuting = {"ADD", "MUL", "EQ", "NEQ", "AND", "OR"} /\ DOMAIN Sided = {"SUB", "DIV", "LT", "GT"}
  BY DEF Commuting, Sided
<1>2. Computing \cap {"SET", "INCREMENT", "MOV", "DEBUG"} = {}
  BY <1>1 DEF Computing
<1> QED BY <1>2 DEF Straight

LEMMA FollowsAreTheSame ==
  Src!Follow(last) = FollowOf(program, last)
BY DEF Src!Follow, FollowOf, Src!Begin, Begin, Src!Effect, Effect, Src!Nowhere, Nowhere, Src!Leaf, Leaf

(***************************************************************************)
(* 13  Every action leads to the next point.                               *)
(***************************************************************************)
Situation(m) ==
  /\ MethodsMean
  /\ program \in Programs
  /\ code = compileFunction(program)
  /\ last.how \in Outcomes
  /\ At(program, m, pc, stack, last)

Goes(m) ==
  /\ At(program, m, pc', stack', last')
  /\ last'.how \in Outcomes
  /\ UNCHANGED <<program, code>>
  /\ last' = last \/ Src!Next

LEMMA Here ==
  ASSUME NEW m, Situation(m), inst.op # "RETURN"
  PROVE  /\ IsSeq(stack) /\ pc \in 1 .. Len(Prefix(program)) /\ Len(Prefix(program)) \in Nat
         /\ m[pc].stack = stack /\ m[pc].next = FollowOf(program, last)
         /\ Local(Order(program), Effects(program), inst, m, pc, Len(Prefix(program)))
         /\ inst.op \notin {"JZ", "JMP"} => Straight(Order(program), Effects(program), inst, m[pc], m[pc + 1])
         /\ pc + 1 \in 1 .. Len(Prefix(program)) + 1
<1>1. MethodsMean /\ program \in Programs /\ code = compileFunction(program) /\ At(program, m, pc, stack, last)
  BY DEF Situation
<1>2. /\ pc = Len(Prefix(program)) + 1 => code[pc].op = "RETURN"
      /\ pc # Len(Prefix(program)) + 1 =>
           /\ IsSeq(stack) /\ pc \in 1 .. Len(Prefix(program))
           /\ Local(Order(program), Effects(program), code[pc], m, pc, Len(Prefix(program)))
  BY <1>1, AtInstruction
<1>3. /\ IsSeq(stack) /\ pc \in 1 .. Len(Prefix(program))
      /\ Local(Order(program), Effects(program), inst, m, pc, Len(Prefix(program)))
  BY <1>2 DEF inst
<1>4. m[pc].stack = stack /\ m[pc].next = FollowOf(program, last)
  BY <1>1 DEF At
<1>5. Len(Prefix(program)) \in Nat
  BY <1>1, ProgramsMean, CodeOfMethod
<1>6. inst.op \notin {"JZ", "JMP"} => Straight(Order(program), Effects(program), inst, m[pc], m[pc + 1])
  BY <1>3 DEF Local
<1>7. pc + 1 \in 1 .. Len(Prefix(program)) + 1
  BY <1>3, <1>5
<1> QED BY <1>3, <1>4, <1>5, <1>6, <1>7

(* A step that completes no statement, to the position n.                  *)
LEMMA GoesOn ==
  ASSUME NEW m, Situation(m), NEW n \in 1 .. Len(Prefix(program)) + 1, pc' = n, stack' = m[n].stack,
         m[n].next = m[pc].next, UNCHANGED <<program, code, last>>
  PROVE  Goes(m)
<1>1. At(program, m, pc, stack, last) /\ last.how \in Outcomes
  BY DEF Situation
<1>2. PICK t : t = m[n].stack
  OBVIOUS
<1>3. At(program, m, n, t, last)
  BY <1>1, <1>2, AtNext
<1>4. At(program, m, pc', stack', last')
  BY <1>2, <1>3
<1> QED BY <1>1, <1>4 DEF Goes

(* A step that completes the statement that is to come.                    *)
LEMMA GoesFurther ==
  ASSUME NEW m, Situation(m), NEW n \in 1 .. Len(Prefix(program)) + 1, pc' = n, stack' = m[n].stack,
         NEW how, NEW target, NEW value, last' = Effect(m[pc].next, how, target, value),
         Effect(m[pc].next, how, target, value) \in Effects(program), <<m[pc].next, how, m[n].next>> \in Order(program),
         UNCHANGED <<program, code>>
  PROVE  Goes(m)
<1>1. At(program, m, pc, stack, last) /\ program \in Bodies /\ Means(program)
  BY ProgramsMean DEF Situation
<1>2. PICK t : t = m[n].stack
  OBVIOUS
<1>3. PICK at : at = m[pc].next
  OBVIOUS
<1>4. PICK f : f = Effect(at, how, target, value)
  OBVIOUS
<1>5. <<at, how, m[n].next>> \in Order(program) /\ f \in Effects(program) /\ last' = f
  BY <1>3, <1>4
<1>6. At(program, m, n, t, f) /\ f.how \in Outcomes /\ f.at = FollowOf(program, last)
  BY <1>1, <1>2, <1>3, <1>4, <1>5, AtCompleted
<1>7. At(program, m, pc', stack', last') /\ last'.how \in Outcomes
  BY <1>2, <1>5, <1>6
<1>8. last # Src!End
  <2>1. last # End
    BY <1>1 DEF At
  <2>2. Src!End = End
    BY DEF Src!End, End, Src!Effect, Effect, Src!Nowhere, Nowhere, Src!Leaf, Leaf
  <2> QED BY <2>1, <2>2
<1>9. last' \in {e \in Effects(program) \cup {Src!End} : e.at = Src!Follow(last)}
  BY <1>5, <1>6, FollowsAreTheSame
<1>10. Src!Next
  BY <1>8, <1>9 DEF Src!Next
<1> QED BY <1>7, <1>10 DEF Goes

LEMMA ComputeGoes ==
  ASSUME NEW m, Situation(m), inst.op \in Computing, NEW k, k = Pops(inst), NEW v, v = Result(inst, stack), Leaves(k, v)
  PROVE  Goes(m)
<1>1. inst.op \notin {"RETURN", "JZ", "JMP"}
  <2>1. DOMAIN Commuting = {"ADD", "MUL", "EQ", "NEQ", "AND", "OR"} /\ DOMAIN Sided = {"SUB", "DIV", "LT", "GT"}
    BY DEF Commuting, Sided
  <2> QED BY <2>1 DEF Computing
<1>2. Computes(inst, m[pc], m[pc + 1])
  BY <1>1, Here, OpsAreApart
<1>3. m[pc + 1] = Point(Append(Less(stack, k), v), m[pc].next)
  BY <1>1, <1>2, Here DEF Computes
<1>4. m[pc + 1].stack = Append(Less(stack, k), v) /\ m[pc + 1].next = m[pc].next
  <2>1. PICK z : z = Append(Less(stack, k), v)
    OBVIOUS
  <2>2. PICK next : next = m[pc].next
    OBVIOUS
  <2>3. m[pc + 1] = Point(z, next)
    BY <1>3, <2>1, <2>2
  <2>4. m[pc + 1].stack = z /\ m[pc + 1].next = next
    BY <2>3, PointParts
  <2> QED BY <2>1, <2>2, <2>4
<1>5. stack' = m[pc + 1].stack /\ pc' = pc + 1 /\ UNCHANGED <<program, code, last>>
  BY <1>4 DEF Leaves, Pop, Less
<1>6. pc + 1 \in 1 .. Len(Prefix(program)) + 1
  BY <1>1, Here
<1> QED BY <1>4, <1>5, <1>6, GoesOn

LEMMA LoadGoes ==
  ASSUME NEW m, Situation(m), DoLoad
  PROVE  Goes(m)
<1>1. inst.op = "LOAD" /\ inst.op \in Computing
  BY DEF DoLoad, Is, Computing
<1>2. CASE inst.a = "EBP"
  <2>1. Pops(inst) = 0 /\ Result(inst, stack) = Leaf(inst.b, Reads)
    BY <1>1, <1>2 DEF Pops, Result, LoadResult
  <2>2. Leaves(0, Leaf(inst.b, Reads))
    BY <1>2 DEF DoLoad
  <2> QED BY <1>1, <2>1, <2>2, ComputeGoes
<1>3. CASE inst.a # "EBP"
  <2>1. Pops(inst) = 1
        /\ Result(inst, stack) = IF inst.kind = "ptr" THEN Uninitialised ELSE Of(inst.b, "field", Top)
    BY <1>1, <1>3 DEF Pops, Result, LoadResult, Top, TopOf
  <2>2. Leaves(1, IF inst.kind = "ptr" THEN Uninitialised ELSE Of(inst.b, "field", Top))
    BY <1>3 DEF DoLoad
  <2> QED BY <1>1, <2>1, <2>2, ComputeGoes
<1> QED BY <1>2, <1>3

LEMMA LoadAddrGoes ==
  ASSUME NEW m, Situation(m), DoLoadAddr
  PROVE  Goes(m)
<1>1. inst.op = "LOADADDR" /\ inst.op \in Computing
  BY DEF DoLoadAddr, Is, Computing
<1>2. CASE inst.a = "EBP"
  <2>1. Pops(inst) = 0 /\ Result(inst, stack) = Address(Leaf(inst.b, Writes))
    BY <1>1, <1>2 DEF Pops, Result, LoadAddrResult
  <2>2. Leaves(0, Address(Leaf(inst.b, Writes)))
    BY <1>2 DEF DoLoadAddr
  <2> QED BY <1>1, <2>1, <2>2, ComputeGoes
<1>3. CASE inst.a # "EBP"
  <2>1. Pops(inst) = 1 /\ Result(inst, stack) = Address(Of(inst.b, "field", Top))
    BY <1>1, <1>3 DEF Pops, Result, LoadAddrResult, Top, TopOf
  <2>2. Leaves(1, Address(Of(inst.b, "field", Top)))
    BY <1>3 DEF DoLoadAddr
  <2> QED BY <1>1, <2>1, <2>2, ComputeGoes
<1> QED BY <1>2, <1>3

LEMMA LoadConstantGoes ==
  ASSUME NEW m, Situation(m), DoLoadConstant
  PROVE  Goes(m)
<1>1. inst.op = "LOADK" /\ inst.op \in Computing /\ Leaves(0, Leaf("literal", inst.a))
  BY DEF DoLoadConstant, Is, Computing
<1>2. Pops(inst) = 0 /\ Result(inst, stack) = Leaf("literal", inst.a)
  BY <1>1 DEF Pops, Result
<1> QED BY <1>1, <1>2, ComputeGoes

LEMMA UnarySubGoes ==
  ASSUME NEW m, Situation(m), DoUnarySub
  PROVE  Goes(m)
<1>1. inst.op = "UNARYSUB" /\ inst.op \in Computing /\ Leaves(1, Computed(inst.a, Top, Of("-", inst.a, Top)))
  BY DEF DoUnarySub, Is, Computing
<1>2. Pops(inst) = 1 /\ Result(inst, stack) = Computed(inst.a, Top, Of("-", inst.a, Top))
  BY <1>1 DEF Pops, Result, Top, TopOf
<1> QED BY <1>1, <1>2, ComputeGoes

LEMMA ConversionGoes ==
  ASSUME NEW m, Situation(m), DoConversion
  PROVE  Goes(m)
<1>1. inst.op = "CONV" /\ inst.op \in Computing /\ Leaves(1, Converted(Top, inst.a, inst.b))
  BY DEF DoConversion, Is, Computing
<1>2. Pops(inst) = 1 /\ Result(inst, stack) = Converted(Top, inst.a, inst.b)
  BY <1>1 DEF Pops, Result, Top, TopOf
<1> QED BY <1>1, <1>2, ComputeGoes

LEMMA CommutingGoes ==
  ASSUME NEW m, Situation(m), NEW op \in DOMAIN Commuting, DoCommuting(op)
  PROVE  Goes(m)
<1>1. op \in {"ADD", "MUL", "EQ", "NEQ", "AND", "OR"} /\ DOMAIN Commuting = {"ADD", "MUL", "EQ", "NEQ", "AND", "OR"}
  BY DEF Commuting
<1>2. inst.op = op /\ op \in Computing
  BY DEF DoCommuting, Is, Computing
<1>3. PICK b : b = IF op \in {"AND", "OR"} /\ inst.a = "int32" THEN Top ELSE Below
  OBVIOUS
<1>4. PICK v : v = Computed(inst.a, Top, AsFloat(op, inst.a, Apply(Commuting[op], inst.a, b, Top)))
  OBVIOUS
<1>5. Leaves(2, v)
  BY <1>3, <1>4 DEF DoCommuting
<1>6. Pops(inst) = 2
  BY <1>1, <1>2 DEF Pops
<1>7. Result(inst, stack) = CommutingResult(inst, stack)
  BY <1>1, <1>2 DEF Result
<1>8. CommutingResult(inst, stack) = v
  BY <1>2, <1>3, <1>4 DEF CommutingResult, Top, TopOf, Below, BelowOf
<1> QED BY <1>2, <1>5, <1>6, <1>7, <1>8, ComputeGoes

LEMMA SidedGoes ==
  ASSUME NEW m, Situation(m), NEW op \in DOMAIN Sided, DoSided(op)
  PROVE  Goes(m)
<1>1. /\ op \in {"SUB", "DIV", "LT", "GT"} /\ DOMAIN Sided = {"SUB", "DIV", "LT", "GT"}
      /\ DOMAIN Commuting = {"ADD", "MUL", "EQ", "NEQ", "AND", "OR"}
  BY DEF Commuting, Sided
<1>2. inst.op = op /\ op \in Computing
  BY DEF DoSided, Is, Computing
<1>4. PICK v : v = Computed(inst.a, Below, AsFloat(op, inst.a, Apply(Sided[op], inst.a, Below, Top)))
  OBVIOUS
<1>5. Leaves(2, v)
  BY <1>4 DEF DoSided
<1>6. Pops(inst) = 2
  BY <1>1, <1>2 DEF Pops
<1>7. Result(inst, stack) = SidedResult(inst, stack)
  BY <1>1, <1>2 DEF Result
<1>8. SidedResult(inst, stack) = v
  BY <1>2, <1>4 DEF SidedResult, Top, TopOf, Below, BelowOf
<1> QED BY <1>2, <1>5, <1>6, <1>7, <1>8, ComputeGoes

(* DoDebugOp is the only one of the three that is emitted here.            *)
LEMMA SkipGoes ==
  ASSUME NEW m, Situation(m), Skip
  PROVE  Goes(m)
<1>1. inst.op \in {"LTE", "GTE", "DEBUG"} /\ pc' = pc + 1 /\ UNCHANGED <<program, code, stack, last>>
  BY DEF Skip, Is
<1>2. Straight(Order(program), Effects(program), inst, m[pc], m[pc + 1])
      /\ m[pc].stack = stack /\ pc + 1 \in 1 .. Len(Prefix(program)) + 1
  BY <1>1, Here
<1>3. DOMAIN Commuting = {"ADD", "MUL", "EQ", "NEQ", "AND", "OR"} /\ DOMAIN Sided = {"SUB", "DIV", "LT", "GT"}
  BY DEF Commuting, Sided
<1>4. inst.op = "DEBUG"
  BY <1>1, <1>2, <1>3, OpsAreApart DEF Computing
<1>5. m[pc + 1] = m[pc]
  BY <1>2, <1>4, OpsAreApart DEF Traces
<1> QED BY <1>1, <1>2, <1>5, GoesOn

LEMMA AssignGoes ==
  ASSUME NEW m, Situation(m), DoAssign
  PROVE  Goes(m)
<1>1. /\ inst.op = "SET" /\ stack' = Less(stack, 2) /\ pc' = pc + 1 /\ UNCHANGED <<program, code>>
      /\ last' = Effect(inst.metadata, "done", Pointee(Below), Top)
  BY DEF DoAssign, Is, Pop, Less
<1>2. Straight(Order(program), Effects(program), inst, m[pc], m[pc + 1])
      /\ m[pc].stack = stack /\ pc + 1 \in 1 .. Len(Prefix(program)) + 1
  BY <1>1, Here
<1>3. Sets(Order(program), Effects(program), inst, m[pc], m[pc + 1])
  BY <1>1, <1>2, OpsAreApart
<1>4. m[pc + 1].stack = Less(stack, 2)
      /\ Assigns(Order(program), Effects(program), inst, m[pc], m[pc + 1], 2, Pointee(Below), Top)
  BY <1>2, <1>3 DEF Sets, Below, BelowOf, Top, TopOf
<1>5. /\ inst.metadata = m[pc].next /\ <<m[pc].next, "done", m[pc + 1].next>> \in Order(program)
      /\ Effect(m[pc].next, "done", Pointee(Below), Top) \in Effects(program)
  BY <1>4 DEF Assigns
<1> QED BY <1>1, <1>2, <1>4, <1>5, GoesFurther

LEMMA IncrementGoes ==
  ASSUME NEW m, Situation(m), DoIncrement
  PROVE  Goes(m)
<1>1. /\ inst.op = "INCREMENT" /\ stack' = Less(stack, 1) /\ pc' = pc + 1 /\ UNCHANGED <<program, code>>
      /\ inst.a = "int32" => last' = Effect(inst.metadata, "done", Pointee(Top), Leaf("increment", "int32"))
  BY DEF DoIncrement, Is, Pop, Less
<1>2. Straight(Order(program), Effects(program), inst, m[pc], m[pc + 1])
      /\ m[pc].stack = stack /\ pc + 1 \in 1 .. Len(Prefix(program)) + 1
  BY <1>1, Here
<1>3. Increments(Order(program), Effects(program), inst, m[pc], m[pc + 1])
  BY <1>1, <1>2, OpsAreApart
<1>4. /\ m[pc + 1].stack = Less(stack, 1) /\ inst.a = "int32"
      /\ Assigns(Order(program), Effects(program), inst, m[pc], m[pc + 1], 1, Pointee(Top), Leaf("increment", "int32"))
  BY <1>2, <1>3 DEF Increments, Top, TopOf
<1>5. /\ inst.metadata = m[pc].next /\ <<m[pc].next, "done", m[pc + 1].next>> \in Order(program)
      /\ Effect(m[pc].next, "done", Pointee(Top), Leaf("increment", "int32")) \in Effects(program)
  BY <1>4 DEF Assigns
<1> QED BY <1>1, <1>2, <1>4, <1>5, GoesFurther

LEMMA MoveGoes ==
  ASSUME NEW m, Situation(m), Move
  PROVE  Goes(m)
<1>1. inst.op = "MOV" /\ pc' = pc + 1 /\ UNCHANGED <<program, code>>
  BY DEF Move, Is
<1>2. Straight(Order(program), Effects(program), inst, m[pc], m[pc + 1])
      /\ m[pc].stack = stack /\ pc + 1 \in 1 .. Len(Prefix(program)) + 1
  BY <1>1, Here
<1>3. Declares(Order(program), Effects(program), inst, m[pc], m[pc + 1]) \/ Releases(inst, m[pc], m[pc + 1])
  BY <1>1, <1>2, OpsAreApart
<1>4. CASE inst.a = "down"
  <2>1. Declares(Order(program), Effects(program), inst, m[pc], m[pc + 1])
    BY <1>3, <1>4 DEF Releases
  <2>2. stack' = m[pc + 1].stack
    BY <1>2, <1>4, <2>1 DEF Move, Declares
  <2>3. CASE inst.metadata = ""
    <3>1. last' = last /\ m[pc + 1].next = m[pc].next
      BY <1>4, <2>1, <2>3 DEF Move, Declares
    <3> QED BY <1>1, <1>2, <2>2, <3>1, GoesOn
  <2>4. CASE inst.metadata # ""
    <3>1. last' = Effect(inst.metadata, "done", Leaf(inst.b, Writes), Nowhere)
      BY <1>4, <2>4 DEF Move
    <3>2. Assigns(Order(program), Effects(program), inst, m[pc], m[pc + 1], 0, Leaf(inst.b, Writes), Nowhere)
      BY <2>1, <2>4 DEF Declares
    <3>3. /\ inst.metadata = m[pc].next /\ <<m[pc].next, "done", m[pc + 1].next>> \in Order(program)
          /\ Effect(m[pc].next, "done", Leaf(inst.b, Writes), Nowhere) \in Effects(program)
      BY <3>2 DEF Assigns
    <3> QED BY <1>1, <1>2, <2>2, <3>1, <3>3, GoesFurther
  <2> QED BY <2>3, <2>4
<1>5. CASE inst.a # "down"
  <2>1. Releases(inst, m[pc], m[pc + 1])
    BY <1>3, <1>5 DEF Declares
  <2>2. stack' = Less(stack, 1) /\ last' = last
    BY <1>5 DEF Move, Pop, Less
  <2>3. m[pc + 1] = Point(Less(m[pc].stack, 1), m[pc].next)
    BY <2>1 DEF Releases
  <2>4. m[pc + 1].stack = Less(m[pc].stack, 1) /\ m[pc + 1].next = m[pc].next
    <3>1. PICK z : z = Less(m[pc].stack, 1)
      OBVIOUS
    <3>2. PICK next : next = m[pc].next
      OBVIOUS
    <3>3. m[pc + 1] = Point(z, next)
      BY <2>3, <3>1, <3>2
    <3> QED BY <3>1, <3>2, <3>3, PointParts
  <2> QED BY <1>1, <1>2, <2>2, <2>4, GoesOn
<1> QED BY <1>4, <1>5

LEMMA JumpIfZeroGoes ==
  ASSUME NEW m, Situation(m), DoJumpIfZero
  PROVE  Goes(m)
<1>1. inst.op = "JZ" /\ stack' = Less(stack, 1) /\ UNCHANGED <<program, code>>
  BY DEF DoJumpIfZero, Is, Pop, Less
<1>2. Local(Order(program), Effects(program), inst, m, pc, Len(Prefix(program))) /\ m[pc].stack = stack
      /\ pc + 1 \in 1 .. Len(Prefix(program)) + 1
  BY <1>1, Here
<1>3. Branches(Order(program), Effects(program), inst, m, pc, Len(Prefix(program)))
  BY <1>1, <1>2 DEF Local
<1>4. PICK t, f : /\ TestsTo(Order(program), Effects(program), inst, m[pc], t, f)
                  /\ m[pc + 1] = Point(Less(m[pc].stack, 1), t)
                  /\ m[pc + inst.a + 1] = Point(Less(m[pc].stack, 1), f)
  BY <1>3 DEF Branches
<1>5. PICK z : z = Less(stack, 1)
  OBVIOUS
<1>6. m[pc + 1] = Point(z, t) /\ m[pc + inst.a + 1] = Point(z, f)
  BY <1>2, <1>4, <1>5
<1>7. m[pc + 1].stack = z /\ m[pc + 1].next = t /\ m[pc + inst.a + 1].stack = z /\ m[pc + inst.a + 1].next = f
  BY <1>6, PointParts
<1>8. PICK v : v = Tested(Top)
  OBVIOUS
<1>9. /\ inst.metadata = m[pc].next
      /\ Effect(m[pc].next, "true", Nowhere, v) \in Effects(program)
      /\ Effect(m[pc].next, "false", Nowhere, v) \in Effects(program)
      /\ <<m[pc].next, "true", t>> \in Order(program) /\ <<m[pc].next, "false", f>> \in Order(program)
  <2>1. TopOf(m[pc].stack) = Top
    BY <1>2 DEF TopOf, Top
  <2> QED BY <1>4, <1>8, <2>1 DEF TestsTo
<1>10. PICK zero \in BOOLEAN :
         /\ pc' = IF zero THEN pc + inst.a + 1 ELSE pc + 1
         /\ last' = Effect(inst.metadata, IF zero THEN "false" ELSE "true", Nowhere, Tested(Top))
  BY DEF DoJumpIfZero
<1>11. CASE zero
  <2>1. PICK n : n = pc + inst.a + 1
    OBVIOUS
  <2>2. n \in 1 .. Len(Prefix(program)) + 1
    BY <1>3, <2>1 DEF Branches, Within
  <2>3. pc' = n /\ last' = Effect(m[pc].next, "false", Nowhere, v)
    BY <1>8, <1>9, <1>10, <1>11, <2>1
  <2>4. stack' = m[n].stack /\ <<m[pc].next, "false", m[n].next>> \in Order(program)
    BY <1>1, <1>5, <1>7, <1>9, <2>1
  <2> QED BY <1>1, <1>9, <2>2, <2>3, <2>4, GoesFurther
<1>12. CASE ~ zero
  <2>1. PICK n : n = pc + 1
    OBVIOUS
  <2>2. n \in 1 .. Len(Prefix(program)) + 1
    BY <1>2, <2>1
  <2>3. pc' = n /\ last' = Effect(m[pc].next, "true", Nowhere, v)
    BY <1>8, <1>9, <1>10, <1>12, <2>1
  <2>4. stack' = m[n].stack /\ <<m[pc].next, "true", m[n].next>> \in Order(program)
    BY <1>1, <1>5, <1>7, <1>9, <2>1
  <2> QED BY <1>1, <1>9, <2>2, <2>3, <2>4, GoesFurther
<1> QED BY <1>11, <1>12

LEMMA JumpGoes ==
  ASSUME NEW m, Situation(m), DoJump
  PROVE  Goes(m)
<1>1. inst.op = "JMP" /\ pc' = pc + inst.a + 1 /\ UNCHANGED <<program, code, stack, last>>
  BY DEF DoJump, Is
<1>2. Local(Order(program), Effects(program), inst, m, pc, Len(Prefix(program))) /\ m[pc].stack = stack
  BY <1>1, Here
<1>3. Jumps(inst, m, pc, Len(Prefix(program)))
  BY <1>1, <1>2 DEF Local
<1>4. PICK n : n = pc + inst.a + 1
  OBVIOUS
<1>5. n \in 1 .. Len(Prefix(program)) + 1 /\ m[n] = m[pc]
  BY <1>3, <1>4 DEF Jumps, Within
<1> QED BY <1>1, <1>2, <1>4, <1>5, GoesOn

(* OP_RETURN is after the prefix only, and the source is at its end there. *)
LEMMA ReturnEnds ==
  ASSUME NEW m, Situation(m), DoReturn
  PROVE  Returned' /\ last'.how \in Outcomes /\ UNCHANGED <<program, code>> /\ Src!Next
<1>1. inst.op = "RETURN" /\ pc' = 0 /\ last' = End /\ UNCHANGED <<program, code, stack>>
  BY DEF DoReturn, Is
<1>2. MethodsMean /\ program \in Programs /\ code = compileFunction(program) /\ At(program, m, pc, stack, last)
  BY DEF Situation
<1>3. pc = Len(Prefix(program)) + 1
  <2>1. ASSUME pc # Len(Prefix(program)) + 1 PROVE FALSE
    <3>1. Local(Order(program), Effects(program), code[pc], m, pc, Len(Prefix(program)))
      BY <1>2, <2>1, AtInstruction
    <3>2. Straight(Order(program), Effects(program), code[pc], m[pc], m[pc + 1]) /\ code[pc].op = "RETURN"
      BY <1>1, <3>1 DEF Local, inst
    <3>3. DOMAIN Commuting = {"ADD", "MUL", "EQ", "NEQ", "AND", "OR"} /\ DOMAIN Sided = {"SUB", "DIV", "LT", "GT"}
      BY DEF Commuting, Sided
    <3>4. code[pc].op \in Computing \cup {"SET", "INCREMENT", "MOV", "DEBUG"}
      BY <3>2, OpsAreApart
    <3> QED BY <3>2, <3>3, <3>4 DEF Computing
  <2> QED BY <2>1
<1>4. stack = <<>> /\ FollowOf(program, last) = "end"
  BY <1>2, <1>3, AtInstruction
<1>5. Src!End = End /\ End.at = "end" /\ End.how = "done"
  BY DEF Src!End, End, Src!Effect, Effect, Src!Nowhere, Nowhere, Src!Leaf, Leaf
<1>6. last # End
  BY <1>2 DEF At
<1>7. Src!Next
  <2>1. last' \in {e \in Effects(program) \cup {Src!End} : e.at = Src!Follow(last)}
    BY <1>1, <1>4, <1>5, FollowsAreTheSame
  <2> QED BY <1>1, <1>5, <1>6, <2>1 DEF Src!Next
<1> QED BY <1>1, <1>4, <1>5, <1>7 DEF Returned, Outcomes

(***************************************************************************)
(* 14  The theorems.                                                       *)
(***************************************************************************)
LEMMA InvInit ==
  ASSUME MethodsMean, Init
  PROVE  Inv /\ Src!Init
<1>1. /\ program \in Programs /\ code = compileFunction(program) /\ pc = 1
      /\ stack = << Slot("this") >> /\ last = Begin
  BY DEF Init
<1>2. program \in Bodies /\ Means(program)
  BY <1>1, ProgramsMean
<1>3. PICK m : Certifies(Order(program), Effects(program), Prefix(program), m, Caller(program), Done)
  BY <1>2, MethodRuns DEF Runs
<1>4. m[1] = Caller(program) /\ Len(Prefix(program)) \in Nat
  BY <1>2, <1>3, CodeOfMethod DEF Certifies
<1>5. m[1].stack = << Slot("this") >> /\ m[1].next = Start(program)
  BY <1>4, PointParts DEF Caller
<1>6. FollowOf(program, last) = Start(program)
  BY <1>1 DEF FollowOf
<1>7. last # End /\ last.how = "done"
  BY <1>1 DEF Begin, End, Effect
<1>8. 1 \in 1 .. Len(Prefix(program)) + 1
  BY <1>4
<1>9. At(program, m, pc, stack, last)
  BY <1>1, <1>3, <1>5, <1>6, <1>7, <1>8 DEF At
<1>10. Inv
  BY <1>1, <1>7, <1>9 DEF Inv, Running, Outcomes
<1>11. Src!Init
  BY <1>1 DEF Src!Init, Src!Begin, Begin, Src!Effect, Effect, Src!Nowhere, Nowhere, Src!Leaf, Leaf
<1> QED BY <1>10, <1>11

LEMMA ReturnedStops ==
  ASSUME MethodsMean, Inv, Next
  PROVE  Running
<1>1. program \in Programs /\ code = compileFunction(program) /\ (Running \/ Returned)
  BY DEF Inv
<1>2. code \in Code
  BY <1>1, ProgramsMean, CodeOfMethod
<1>3. 0 \notin DOMAIN code
  BY <1>2 DEF Code
<1>4. \E op : Is(op)
  BY DEF Next, DoLoad, DoLoadAddr, DoLoadConstant, DoCommuting, DoSided, DoUnarySub, DoConversion, DoIncrement,
         Skip, DoAssign, Move, DoJumpIfZero, DoJump, DoReturn
<1>5. pc \in DOMAIN code
  BY <1>4 DEF Is
<1> QED BY <1>1, <1>3, <1>5 DEF Returned

LEMMA InvStep ==
  ASSUME MethodsMean, Inv, [Next]_vars
  PROVE  Inv' /\ [Src!Next]_<<program, last>>
<1>1. CASE UNCHANGED vars
  <2>1. UNCHANGED <<program, code, pc, stack, last>>
    BY <1>1 DEF vars
  <2>2. Running' <=> Running
    BY <2>1 DEF Running
  <2>3. Returned' <=> Returned
    BY <2>1 DEF Returned
  <2>4. Inv'
    BY <2>1, <2>2, <2>3 DEF Inv
  <2> QED BY <2>1, <2>4
<1>2. CASE Next
  <2>1. PICK m : At(program, m, pc, stack, last)
    BY <1>2, ReturnedStops DEF Running
  <2>2. Situation(m)
    BY <2>1 DEF Situation, Inv
  <2>3. ASSUME ~ DoReturn PROVE Goes(m)
    <3>1. CASE DoLoad
      BY <2>2, <3>1, LoadGoes
    <3>2. CASE DoLoadAddr
      BY <2>2, <3>2, LoadAddrGoes
    <3>3. CASE DoLoadConstant
      BY <2>2, <3>3, LoadConstantGoes
    <3>4. CASE \E op \in DOMAIN Commuting : DoCommuting(op)
      BY <2>2, <3>4, CommutingGoes
    <3>5. CASE \E op \in DOMAIN Sided : DoSided(op)
      BY <2>2, <3>5, SidedGoes
    <3>6. CASE DoUnarySub
      BY <2>2, <3>6, UnarySubGoes
    <3>7. CASE DoConversion
      BY <2>2, <3>7, ConversionGoes
    <3>8. CASE DoIncrement
      BY <2>2, <3>8, IncrementGoes
    <3>9. CASE Skip
      BY <2>2, <3>9, SkipGoes
    <3>10. CASE DoAssign
      BY <2>2, <3>10, AssignGoes
    <3>11. CASE Move
      BY <2>2, <3>11, MoveGoes
    <3>12. CASE DoJumpIfZero
      BY <2>2, <3>12, JumpIfZeroGoes
    <3>13. CASE DoJump
      BY <2>2, <3>13, JumpGoes
    <3> QED BY <1>2, <2>3, <3>1, <3>2, <3>3, <3>4, <3>5, <3>6, <3>7, <3>8, <3>9, <3>10, <3>11, <3>12, <3>13 DEF Next
  <2>4. ASSUME ~ DoReturn PROVE Inv' /\ [Src!Next]_<<program, last>>
    <3>1. Goes(m)
      BY <2>3, <2>4
    <3>2. Running' /\ last'.how \in Outcomes /\ UNCHANGED <<program, code>>
      BY <3>1 DEF Goes, Running
    <3>3. Inv'
      BY <3>2 DEF Inv
    <3> QED BY <3>1, <3>3 DEF Goes
  <2>5. ASSUME DoReturn PROVE Inv' /\ [Src!Next]_<<program, last>>
    <3>1. Returned' /\ last'.how \in Outcomes /\ UNCHANGED <<program, code>> /\ Src!Next
      BY <2>2, <2>5, ReturnEnds
    <3>2. Inv'
      BY <3>1 DEF Inv
    <3> QED BY <3>1, <3>2
  <2> QED BY <2>4, <2>5
<1> QED BY <1>1, <1>2

LEMMA InvImplies ==
  ASSUME MethodsMean, Inv
  PROVE  TypeOK /\ StackBalanced
<1>1. program \in Programs /\ code = compileFunction(program) /\ last.how \in Outcomes /\ (Running \/ Returned)
  BY DEF Inv
<1>2. Len(Prefix(program)) \in Nat /\ Len(code) = Len(Prefix(program)) + 1 /\ code \in Code
  BY <1>1, ProgramsMean, CodeOfMethod
<1>3. CASE Returned
  <2>1. pc = 0 /\ stack = <<>> /\ 0 \notin DOMAIN code
    BY <1>2, <1>3 DEF Returned, Code
  <2>2. TypeOK
    BY <1>1, <1>2, <2>1 DEF TypeOK, Outcomes
  <2> QED BY <2>1, <2>2 DEF StackBalanced, Released, Is
<1>4. CASE Running
  <2>1. PICK m : At(program, m, pc, stack, last)
    BY <1>4 DEF Running
  <2>2. Situation(m)
    BY <1>1, <2>1 DEF Situation
  <2>3. pc \in 1 .. Len(code) /\ pc # 0
    BY <1>2, <2>1 DEF At
  <2>4. TypeOK
    BY <1>1, <1>2, <2>3 DEF TypeOK, Outcomes
  <2>5. ASSUME Is("DEBUG"), inst.a # "OP_SET" PROVE \A n \in DOMAIN stack : stack[n][2] = "slot"
    <3>1. inst.op = "DEBUG"
      BY <2>5 DEF Is
    <3>2. Traces(inst, m[pc], m[pc + 1]) /\ m[pc].stack = stack
      BY <2>2, <3>1, Here, OpsAreApart
    <3> QED BY <2>5, <3>2 DEF Traces
  <2>6. ASSUME Released PROVE stack # <<>> /\ Top = Slot(inst.b)
    <3>1. inst.op = "MOV" /\ inst.a = "up"
      BY <2>6 DEF Released, Is
    <3>2. Declares(Order(program), Effects(program), inst, m[pc], m[pc + 1]) \/ Releases(inst, m[pc], m[pc + 1])
      BY <2>2, <3>1, Here, OpsAreApart
    <3>3. Releases(inst, m[pc], m[pc + 1]) /\ m[pc].stack = stack
      BY <2>2, <3>1, <3>2, Here DEF Declares
    <3>4. Len(stack) >= 1 /\ TopOf(stack) = Slot(inst.b)
      BY <3>3 DEF Releases
    <3> QED BY <3>4 DEF TopOf, Top
  <2> QED BY <2>3, <2>4, <2>5, <2>6 DEF StackBalanced
<1> QED BY <1>1, <1>3, <1>4

(* The code of a method is the one its body was compiled to,               *)
(* dispatch_execute stays in it, and every statement ends with one of the  *)
(* three outcomes.                                                         *)
THEOREM TypeCorrect ==
  ASSUME MethodsMean
  PROVE  Spec => []TypeOK
<1>1. Init => Inv
  BY InvInit
<1>2. Inv /\ [Next]_vars => Inv'
  BY InvStep
<1>3. Inv => TypeOK
  BY InvImplies
<1> QED BY <1>1, <1>2, <1>3, PTL DEF Spec

(* No statement leaves a value on the stack or takes one, whatever its     *)
(* branches and however often its loops go round; a local is released when *)
(* its own slot is on top; a method leaves the stack empty.                *)
THEOREM StatementsBalance ==
  ASSUME MethodsMean
  PROVE  Spec => []StackBalanced
<1>1. Init => Inv
  BY InvInit
<1>2. Inv /\ [Next]_vars => Inv'
  BY InvStep
<1>3. Inv => StackBalanced
  BY InvImplies
<1> QED BY <1>1, <1>2, <1>3, PTL DEF Spec

(* RzCompiler and dispatch_execute together: the code of a method makes    *)
(* the assignments and the tests of its source, in the order of its        *)
(* blocks, branches and loops: each to the variable the source names, with *)
(* the conversions and operators of the source on the sides the source has *)
(* them, applied to what OP_LOAD yields for the variables it names.  That  *)
(* OP_LOAD yields the variable is no part of it (LoadsTheLocal).           *)
THEOREM OrderAndOperandsHold ==
  ASSUME MethodsMean
  PROVE  Spec => Src!Init /\ InOrder
<1>1. Init => Inv /\ Src!Init
  BY InvInit
<1>2. Inv /\ [Next]_vars => Inv' /\ [Src!Next]_<<program, last>>
  BY InvStep
<1> QED BY <1>1, <1>2, PTL DEF Spec, InOrder
===============================================================================
