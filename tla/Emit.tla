--------------------------------- MODULE Emit ---------------------------------
(***************************************************************************)
(* The instructions RzCompiler emits for the statements and expressions of *)
(* a method.  Every function of the compiler is an operator that gives the *)
(* code it appends to m_module->m_code; a jump is relative, so a piece of  *)
(* code does not depend on where it stands.  An operand that is the offset *)
(* of a variable is the name of the variable here: module FrameLayout has  *)
(* the numbers.  L holds the locals of m_scopes, innermost last.  A        *)
(* function that recurs on the tree is a recursive function, a function it *)
(* calls is an operator that takes the code of the parts.                  *)
(***************************************************************************)
EXTENDS Integers, FiniteSetsExt, Scripts

CONSTANT Half   (* operands are int8_t: -Half .. Half-1, Half = 128        *)

ASSUME HalfAssumption == Half \in Nat \ {0}

(* metadata names the statement an instruction completes; RzInstruction    *)
(* has such a text for the listing, the machine never reads it.            *)
Instruction(op, a, b, kind) == [op |-> op, a |-> a, b |-> b, kind |-> kind, metadata |-> ""]
Instr(op, a, b, kind) == << Instruction(op, a, b, kind) >>
Marked(code, id) == [code EXCEPT ![Len(code)].metadata = id]
Debug(what) == Instr("DEBUG", what, "", "")

(* setinst_a and emitInstruction store an int in an int8_t.                *)
Operand(n) == ((n + Half) % (2 * Half)) - Half
Jump(op, n) == Instr(op, Operand(n), "", "")

(***************************************************************************)
(* Types.  A name that is neither in scope nor a field of the class makes  *)
(* getVariable dereference null; module Methods leaves such methods out.   *)
(***************************************************************************)
getVariable(x, L) ==
  LET found == {n \in DOMAIN L : L[n][1] = x}
  IN IF found # {} THEN [mode |-> "local", type |-> L[Max(found)][2]]
     ELSE [mode |-> "field", type |-> FieldType[x]]

Primitive == {"int32", "float", "bool"}
isRelational(op) == op \in {">", ">=", "<", "<=", "==", "!=", "||", "&&"}
isArithmetic(op) == op \in {"+", "-", "*", "/"}

resolvePromotedType(t, u) ==
  CASE t = u -> t
    [] {t, u} = {"int32", "float"} -> "float"
    [] OTHER -> ""

operandType(e, L) ==
  CASE e[1] = "int" -> "int32"
    [] e[1] = "float" -> "float"
    [] e[1] = "id" -> getVariable(e[2], L).type
    [] OTHER -> MemberType[e[3]]

resolveQualifiedType[e \in Expressions] ==
  [L \in Scopes |->
     IF e[1] = "unary" THEN resolveQualifiedType[e[3]][L]
     ELSE IF e[1] = "bin"
          THEN IF isRelational(e[2]) THEN "bool"
               ELSE resolvePromotedType(resolveQualifiedType[e[3]][L], resolveQualifiedType[e[4]][L])
     ELSE operandType(e, L)]

resolvePrimitiveConstantFromType(t) == IF t \in {"int32", "float"} THEN t ELSE "invalid"

(* Every pair performConversion does not know is left alone.               *)
performConversion(t, u) ==
  CASE t = "int32" /\ u = "float" -> Instr("CONV", "int32", "float", "")
    [] t = "float" /\ u \in {"int32", "bool"} -> Instr("CONV", "float", "int32", "")
    [] OTHER -> <<>>

(***************************************************************************)
(* Expressions.  The context is "rvalue" (rx_value), "lvalue", or "none"   *)
(* (neither, as loops and initialisers ask for).                           *)
(***************************************************************************)
emitPushThis == Instr("LOAD", "EBP", "this", "ptr")

(* The kind of a load, by the name of the type.                            *)
Kind(t) == CASE t \in {"int32", "boolean"} -> "int32" [] t = "float" -> "float" [] OTHER -> "ptr"
LocalKind(t) == CASE t \in {"int32", "bool"} -> "int32" [] t = "float" -> "float" [] OTHER -> "ptr"

loadMemberVariable(x, L) == emitPushThis \o Instr("LOAD", "THIS", x, Kind(getVariable(x, L).type))
loadMemberAddress(x) == emitPushThis \o Instr("LOADADDR", "THIS", x, "")

emitVarExpr(x, context, L) ==
  LET var == getVariable(x, L)
  IN CASE var.mode = "field" /\ context = "rvalue" -> loadMemberVariable(x, L)
       [] var.mode = "field" /\ context = "lvalue" -> loadMemberAddress(x)
       [] var.mode = "local" /\ context = "rvalue" -> Instr("LOAD", "EBP", x, LocalKind(var.type))
       [] var.mode = "local" /\ context = "lvalue" -> Instr("LOADADDR", "EBP", x, "")
       [] OTHER -> <<>>

emitMemberOp(x, member, context, L) ==
  emitVarExpr(x, "rvalue", L) \o
  CASE context = "rvalue" -> Instr("LOAD", "THIS", member, "int32")
    [] context = "lvalue" -> Instr("LOADADDR", "THIS", member, "int32")
    [] OTHER -> <<>>

emitLoadLiteral(e) == Instr("LOADK", e[1], "", "")

emitLoadAddress(e, L) ==
  CASE e[1] = "dot" -> emitVarExpr(e[2], "rvalue", L) \o Instr("LOADADDR", "THIS", e[3], "int32")
    [] e[1] = "id" /\ getVariable(e[2], L).mode = "local" -> Instr("LOADADDR", "EBP", e[2], "")
    [] e[1] = "id" /\ getVariable(e[2], L).mode = "field" -> loadMemberAddress(e[2])
    [] OTHER -> <<>>

Opcode == [ op \in Operators |->
  CASE op = "+" -> "ADD" [] op = "-" -> "SUB" [] op = "*" -> "MUL" [] op = "/" -> "DIV"
    [] op = ">" -> "GT" [] op = "<" -> "LT" [] op = ">=" -> "GTE" [] op = "<=" -> "LTE"
    [] op = "==" -> "EQ" [] op = "!=" -> "NEQ" [] op = "&&" -> "AND" [] op = "||" -> "OR" ]

(* Only ++ wants an address, and only ++ leaves nothing on the stack.      *)
unaryKind(t) == CASE t \in {"int32", "bool"} -> "int32" [] t = "float" -> "float" [] OTHER -> "ptr"

operandContext(op) == IF op = "++" THEN "lvalue" ELSE "rvalue"

compileUnaryOperation(e, operand, L) ==
  LET t == unaryKind(resolveQualifiedType[e[3]][L])
  IN operand \o IF e[2] = "++" THEN Instr("INCREMENT", t, 0, "") ELSE Instr("UNARYSUB", t, 1, "")

(* Operands of one type, or two primitive ones that are promoted; others   *)
(* are not evaluated at all.                                               *)
emitArithmeticOp(e, lhs, rhs, L) ==
  LET lhsType == resolveQualifiedType[e[3]][L]
      rhsType == resolveQualifiedType[e[4]][L]
      promoted == resolvePromotedType(lhsType, rhsType)
      effectiveOperationType ==
        IF lhsType = rhsType THEN lhsType
        ELSE IF {lhsType, rhsType} \subseteq Primitive THEN promoted ELSE ""
  IN (CASE lhsType = rhsType -> lhs \o rhs
        [] lhsType # rhsType /\ {lhsType, rhsType} \subseteq Primitive ->
             lhs \o performConversion(lhsType, promoted) \o rhs \o performConversion(rhsType, promoted)
        [] OTHER -> <<>>)
     \o Instr(Opcode[e[2]], resolvePrimitiveConstantFromType(effectiveOperationType), "", "")

emitOperand(e, context, L) ==
  CASE e[1] = "id" -> emitVarExpr(e[2], context, L)
    [] e[1] = "dot" -> emitMemberOp(e[2], e[3], context, L)
    [] OTHER -> emitLoadLiteral(e)

Contexts == {"rvalue", "lvalue", "none"}
emitExpressionEval[e \in Expressions] ==
  [context \in Contexts |-> [L \in Scopes |->
     IF e[1] = "unary"
     THEN compileUnaryOperation(e, emitExpressionEval[e[3]][operandContext(e[2])][L], L)
     ELSE IF e[1] = "bin"
     THEN emitArithmeticOp(e, emitExpressionEval[e[3]]["rvalue"][L], emitExpressionEval[e[4]]["rvalue"][L], L)
     ELSE emitOperand(e, context, L)]]

(***************************************************************************)
(* Assignments and declarations (of a class without bindings).             *)
(***************************************************************************)
compileStaticAssign(lhs, rhs, L) ==
  LET T1 == resolveQualifiedType[lhs][L]
      T2 == resolveQualifiedType[rhs][L]
      assignType == IF T1 \in {"int32", "float"} THEN T1 ELSE "ptr"
  IN emitLoadAddress(lhs, L) \o emitExpressionEval[rhs]["rvalue"][L]
     \o performConversion(T2, T1) \o Debug("OP_SET") \o Instr("SET", "", "", assignType)

declareStackVar(s, L) == Append(L, <<s.name, s.type>>)

(* The name is looked up before it is declared: only that of a field goes  *)
(* on.  A local in scope aborts the method, any other name dereferences    *)
(* null; either way there is no code to run (module FrameLayout has what   *)
(* happens then), and a mark that is no instruction stands for that.       *)
Declarable(x, L) == x \in DOMAIN FieldType /\ \A n \in DOMAIN L : L[n][1] # x
Refused == Instr("REFUSED", "", "", "")

compileVarDecl(s, L) ==
  LET M == declareStackVar(s, L)
  IN IF Declarable(s.name, L)
     THEN Instr("MOV", "down", s.name, "")
          \o IF s.kind = "init" THEN compileStaticAssign(<<"id", s.name>>, s.rhs, M) ELSE <<>>
     ELSE Refused

destructLocalVar(var) == Instruction("MOV", "up", var[1], "")
(* A plausible slip: the locals leave in the order they came.              *)
pop_scope_Forwards(locals) == [n \in 1 .. Len(locals) |-> destructLocalVar(locals[n])]

pop_scope(locals) == [n \in 1 .. Len(locals) |-> destructLocalVar(locals[Len(locals) - n + 1])]

(***************************************************************************)
(* Branches, loops and blocks.  A piece of code comes with the scope it    *)
(* leaves: [code, scope].                                                  *)
(***************************************************************************)
LocalsAfter(s, L) == IF s.kind \in Declaring THEN declareStackVar(s, L) ELSE L

(* What a block leaves to be destructed: the locals it declared.           *)
Declared(scope, L) == SubSeq(scope, Len(L) + 1, Len(scope))
emitBlock(statements, L) ==
  Debug("CANARYBEGIN") \o statements.code \o pop_scope(Declared(statements.scope, L)) \o Debug("CANARYEND")

(* The jump is set when the block is known: to the end of it.              *)
emitBranchCode(s, block, L) ==
  LET t == resolveQualifiedType[s.test][L]
  IN emitExpressionEval[s.test]["rvalue"][L]
     \o (IF t # "bool" THEN performConversion(t, "bool") ELSE <<>>)
     \o Marked(Jump("JZ", Len(block)), s.id) \o block

(* A plausible slip: the jump back misses the test's first instruction.    *)
Loop_OneOff(test, id, body) ==
  test \o Marked(Jump("JZ", Len(body) + 1), id) \o body \o Jump("JMP", -(Len(test) + 1 + Len(body)))

(* Another: the place of the test is taken when its block is emitted.      *)
Loop_Late(test, id, body) ==
  test \o Marked(Jump("JZ", Len(body) + 1), id) \o body \o Jump("JMP", -1)

(* cursor is counted from the first instruction of the test.               *)
Loop(test, id, body) ==
  LET cursor == Len(test) + 1 + Len(body)
  IN test \o Marked(Jump("JZ", cursor - Len(test)), id) \o body \o Jump("JMP", -(cursor + 1))

emitWhileLoop(s, block, L) == Loop(emitExpressionEval[s.test]["none"][L], s.id, block)

compileSimple(s, L) ==
  Marked(IF s.kind = "assign" THEN compileStaticAssign(s.lhs, s.rhs, L) ELSE compileVarDecl(s, L), s.id)

compileUpdate(s, L) ==
  Marked(IF s.kind = "increment" THEN emitExpressionEval[<<"unary", "++", s.lhs>>]["none"][L]
         ELSE compileStaticAssign(s.lhs, s.rhs, L), s.id)

emitForLoop(s, block, L) ==
  LET M == LocalsAfter(s.init, L)
  IN Debug("FOR_STARTED") \o compileSimple(s.init, L)
     \o Loop(emitExpressionEval[s.test]["none"][M], s.id,
             Debug("FOR_CYCLE_START") \o block \o Debug("FOR_CYCLE_END") \o compileUpdate(s.update, M))
     \o pop_scope(Declared(M, L)) \o Debug("FOR_ENDED")

emitStatement(s, block, L) ==
  CASE s.kind = "if" -> emitBranchCode(s, block, L)
    [] s.kind = "while" -> emitWhileLoop(s, block, L)
    [] s.kind = "for" -> emitForLoop(s, block, L)
    [] OTHER -> compileSimple(s, L)

(* The scope the block of a statement opens in.                            *)
Inner(s, L) == IF s.kind = "for" THEN LocalsAfter(s.init, L) ELSE L

Statements[body \in Bodies] ==
  [L \in Scopes |->
     IF body = <<>> THEN [code |-> <<>>, scope |-> L]
     ELSE LET s == Head(body)
              block == IF s.kind \in Compound
                       THEN emitBlock(Statements[s.body][Inner(s, L)], Inner(s, L)) ELSE <<>>
              rest == Statements[Tail(body)][LocalsAfter(s, L)]
          IN [code |-> emitStatement(s, block, L) \o Debug("TRACE") \o rest.code, scope |-> rest.scope]]

(* A plausible slip: no return is emitted.                                 *)
compileFunction_NoReturn(body) ==
  emitBlock(Statements[body][Receiver], Receiver) \o Instr("MOV", "up", "this", "")

(* A method without parameters: its block, the release of "this".          *)
compileFunction(body) ==
  emitBlock(Statements[body][Receiver], Receiver)
  \o Instr("MOV", "up", "this", "") \o Instr("RETURN", "", "", "")

=============================================================================
