-------------------------------- MODULE Methods -------------------------------
(***************************************************************************)
(* The methods whose code does what their source says, and the machine on  *)
(* them.  What RzCompiler gets wrong is left out, condition by condition:  *)
(* the names it does not find and the locals it does not declare, the      *)
(* jumps that do not fit their operand, the operators dispatch_execute has *)
(* no case for, the fields no instruction reads.                           *)
(***************************************************************************)
EXTENDS Machine

Numeric == {"int32", "float"}
IsLocal(x, L) == Places(x, L) # {}
IsField(x) == x \in DOMAIN FieldType

(* dispatch_execute leaves 1.0 or 0.0 for these, and only OP_JZ takes that *)
(* for a truth value.                                                      *)
FloatTest(e, L) ==
  e[1] = "bin" /\ e[2] \in {"<", "==", "!="} /\ "float" \in {Type[e[3]][L], Type[e[4]][L]}

(* loadMemberVariable loads a field that is neither an int nor a float as a*)
(* pointer, and DoLoad does not read pointers; so a member is read of a    *)
(* local.                                                                  *)
LeafMeans(e, L) ==
  /\ e[1] = "id" => IsLocal(e[2], L) \/ (IsField(e[2]) /\ Kind(FieldType[e[2]]) # "ptr")
  /\ e[1] = "dot" => IsLocal(e[2], L) /\ e[3] \in DOMAIN MemberType

(* The scopes an expression can be evaluated in: operands are numbers, and *)
(* the operators those the machine has (OP_GTE and OP_LTE do nothing,      *)
(* OP_AND and OP_OR take one operand for both).                            *)
Meaningful[e \in Expressions] ==
  {L \in Scopes :
     IF e[1] = "unary"
     THEN e[2] = "-" /\ L \in Meaningful[e[3]] /\ Type[e[3]][L] \in Numeric
     ELSE IF e[1] = "bin"
     THEN /\ e[2] \in {"+", "-", "*", "/", "<", ">", "==", "!="}
          /\ L \in Meaningful[e[3]] /\ Type[e[3]][L] \in Numeric
          /\ L \in Meaningful[e[4]] /\ Type[e[4]][L] \in Numeric
     ELSE LeafMeans(e, L)}

(* A value of type u goes where one of type t is wanted.                   *)
Fits(t, u) == t = u \/ {t, u} \subseteq Numeric
AssignMeans(t, rhs, L) == L \in Meaningful[rhs] /\ ~ FloatTest(rhs, L) /\ Fits(t, Type[rhs][L])
TargetMeans(lhs, L) ==
  /\ lhs[1] = "id" => IsLocal(lhs[2], L) \/ IsField(lhs[2])
  /\ lhs[1] = "dot" => IsLocal(lhs[2], L) /\ lhs[3] \in DOMAIN MemberType

(* performConversion turns a float into an int before an if, not before a  *)
(* loop; a loop does not evaluate a variable that is its whole test.       *)
TestMeans(s, L) ==
  /\ L \in Meaningful[s.test]
  /\ Type[s.test][L] \in {"bool", "int32"}
  /\ s.kind # "if" => s.test[1] \notin {"id", "dot"}

(* The jumps over a block and back to a test are int8_t.                   *)
Block(s, L) == emitBlock(Statements[s.body][L], L)
CodeOf(s, L) ==
  IF s.kind = "for"
  THEN Debug("FOR_CYCLE_START") \o Block(s, L) \o Debug("FOR_CYCLE_END") \o compileUpdate(s.update, L)
  ELSE Block(s, L)
JumpsFit(s, L) ==
  IF s.kind = "if" THEN Len(Block(s, L)) < Half
  ELSE Len(emitExpressionEval[s.test]["none"][L]) + 1 + Len(CodeOf(s, L)) < Half

StatementMeans(s, L) ==
  CASE s.kind = "decl" -> Declarable(s.name, L)
    [] s.kind = "init" -> Declarable(s.name, L) /\ AssignMeans(s.type, s.rhs, After(s, L))
    [] s.kind = "assign" -> TargetMeans(s.lhs, L) /\ AssignMeans(Type[s.lhs][L], s.rhs, L)
    [] s.kind = "increment" -> TargetMeans(s.lhs, L) /\ Type[s.lhs][L] = "int32"
    [] OTHER -> TestMeans(s, L) /\ JumpsFit(s, L)

(* One thing follows each outcome of a statement: its name is its own.     *)
Means(body) ==
  /\ \A site \in Sites[body][Receiver] : StatementMeans(site[1], site[2])
  /\ \A x, y \in Order(body) : x[1] = y[1] /\ x[2] = y[2] => x = y

MethodsMean == \A body \in Programs : Means(body)

=============================================================================
