---------------------------------- MODULE IR ----------------------------------
(***************************************************************************)
(* The second way scripts are compiled, the one the driver runs: for each  *)
(* method EmitFunction and IRBuilder make a list of IR instructions, and   *)
(* CodeGenVM turns the lists into the code of module "test".               *)
(*                                                                         *)
(* A function is a record with its class, name and body.  A statement or   *)
(* expression is a record with a tag "is"; calls, news and assignments     *)
(* have an id, which the instruction that completes them keeps.  Left out: *)
(* the operators but "=" (createBinaryOp never sets the type of its        *)
(* instruction) and x.f that is not a call (compiled to nothing).          *)
(***************************************************************************)
EXTENDS Integers, SequencesExt

CONSTANTS
  Fields,    (* the members of each class, in their order (m_members)      *)
  Natives    (* the functions hosts registered: name -> a record           *)

(* A member of a class of one is looked for behind the end of m_fields.    *)
ASSUME FieldsAssumption == \A class \in DOMAIN Fields : Len(Fields[class]) # 1

Ast == INSTANCE Emit WITH FieldType <- [f \in {} |-> f], MemberType <- [f \in {} |-> f], Half <- 128,
         Expressions <- {}, Bodies <- {<<>>},
         ExprDepth <- [e \in {} |-> 0], BodyDepth <- [body \in {<<>>} |-> 0]

(***************************************************************************)
(* ScopeStack: one function from names to values for each open block.      *)
(***************************************************************************)
Null == <<"null">>

set(b, name, value) == [b EXCEPT !.scopes[Len(b.scopes)] = (name :> value) @@ @]

locate(scopes, name) ==
  LET with == {i \in DOMAIN scopes : name \in DOMAIN scopes[i]}
  IN IF with = {} THEN Null ELSE scopes[Max(with)][name]

(***************************************************************************)
(* IRBuilder: the instructions of one function.  An IRValue is known by    *)
(* the instruction it was made with; value is what the last call returned. *)
(***************************************************************************)
Builder(class) == [class |-> class, code |-> <<>>, scopes |-> <<>>, value |-> Null]
makeValue(b) == <<"value", Len(b.code)>>
getLastStmtType(b) == IF b.code = <<>> THEN "" ELSE Last(b.code).type

Create(b, type, args, a, id, value) ==
  [b EXCEPT !.code = Append(@, [type |-> type, args |-> args, a |-> a, id |-> id]), !.value = value]

createStore(b, memory, value, id) == Create(b, "Store", <<memory, value>>, "", id, Null)
createCall(b, func, args, id) == Create(b, "CALL", args, func, id, makeValue(b))
createReturn(b) == Create(b, "Return", <<>>, "", "", Null)
createLoad(b, ptr) == Create(b, "Load", <<>>, ptr, "", makeValue(b))
createLabelStmt(b) == LET label == makeValue(b) IN Create(b, "Label", <<>>, label, "", label)
createJumpStmt(b, label) == Create(b, "Jump", <<>>, label, "", Null)

(* The value of a local is not the value of its instruction, null; the     *)
(* value of a heap allocation is.                                          *)
createLocalAlloc(b) == Create(b, "StackAlloc", <<>>, Null, "", makeValue(b))
createHeapAlloc(b) == Create(b, "StackAlloc", <<>>, makeValue(b), "", makeValue(b))

(* The value of a member is the type of its class, the same each time.     *)
createDestructure(b, fieldIndex) ==
  Create(b, "Destructure", <<>>, [ty |-> b.class, fieldIndex |-> fieldIndex], "", <<"type", b.class>>)

(* Only calls and stores read values.                                      *)
doesReadValue(inst, value) == \E n \in DOMAIN inst.args : inst.args[n] = value

(***************************************************************************)
(* EmitFunction.                                                           *)
(***************************************************************************)
hasField(class, name) == name \in Range(Fields[class])

(* The parser makes members only, and of a member what is returned is      *)
(* true: every member has the index 1.                                     *)
getFieldIndex(class, name) == 1

locateIdentifier(name, intent, b) ==
  LET local == locate(b.scopes, name)
      member == IF hasField(b.class, name) THEN createDestructure(b, getFieldIndex(b.class, name))
                ELSE [b EXCEPT !.value = Null]
  IN IF local # Null THEN [b EXCEPT !.value = local]
     ELSE IF intent = "Read" THEN createLoad(member, member.value)
     ELSE member

(* A plausible slip: the memory is used before its constructor is called.  *)
compileNewExpression_NoConstructor(e, b) == createHeapAlloc(b)

compileNewExpression(e, b) ==
  LET mem == createHeapAlloc(b)
  IN [createCall(mem, e.type \o "." \o e.type, << mem.value >>, e.id) EXCEPT !.value = mem.value]

RECURSIVE compileExpression(_, _, _)
compileArgs(args, first, b) ==
  FoldLeft(LAMBDA acc, e : LET c == compileExpression(e, "Write", acc.b)
                           IN [b |-> c, values |-> Append(acc.values, c.value)],
           [b |-> b, values |-> first], args)

compileExpression(e, intent, b) ==
  CASE e.is = "=" ->
         LET l == compileExpression(e.lhs, "Write", b)
             r == compileExpression(e.rhs, "Write", l)
         IN createStore(r, l.value, r.value, e.id)
    [] e.is = "dot" ->
         LET on == compileExpression(e.on, "Read", b)
             args == compileArgs(e.args, << on.value >>, on)
         IN createCall(args.b, e.fun, args.values, e.id)
    [] e.is = "call" ->
         LET args == compileArgs(e.args, <<>>, b)
         IN createCall(args.b, e.fun, args.values, e.id)
    [] e.is = "name" -> locateIdentifier(e.name, intent, b)
    [] e.is = "new" -> compileNewExpression(e, b)
    [] e.is = "int" -> [b EXCEPT !.value = <<"int", e.value>>]

compileVarDecl(s, b) ==
  LET alloc == createLocalAlloc(b)
      rhs == compileExpression(s.init, "Write", alloc)
  IN set(createStore(rhs, alloc.value, rhs.value, ""), s.name, alloc.value)

(* Neither the test of a while nor the start and test of a for is          *)
(* compiled, and an if or a return is dropped.                             *)
RECURSIVE compileBlock(_, _)
compileFor(s, b) ==
  LET label == createLabelStmt(b)
      block == compileBlock(s.body, label)
  IN createJumpStmt(compileExpression(s.update, "Write", block), label.value)

compileWhile(s, b) ==
  LET label == createLabelStmt(b) IN createJumpStmt(compileBlock(s.body, label), label.value)

compileStatement(b, s) ==
  CASE s.is = "var" -> compileVarDecl(s, b)
    [] s.is \in {"=", "call", "dot"} -> compileExpression(s, "Write", b)
    [] s.is = "for" -> compileFor(s, b)
    [] s.is = "while" -> compileWhile(s, b)
    [] OTHER -> b

compileBlock(body, b) ==
  LET block == FoldLeft(compileStatement, [b EXCEPT !.scopes = Append(@, <<>>)], body)
  IN [block EXCEPT !.scopes = Front(@)]

(* A plausible slip: main falls off the end of its code.                   *)
compile_NoReturn(f) == compileBlock(f.body, Builder(f.class)).code

(* Every list of instructions ends with a return.                           *)
WithReturn(b) == IF getLastStmtType(b) = "Return" THEN b ELSE createReturn(b)
compile(f) == WithReturn(compileBlock(f.body, Builder(f.class))).code

(* The functions compileClass hands to EmitFunction: those with statements.*)
irCtx(functions) == SelectSeq(functions, LAMBDA f : f.body # <<>>)

(***************************************************************************)
(* CodeGenVM.  table holds the functions of the modules std, main and test *)
(* in the order getFunctionByName looks through them.                      *)
(***************************************************************************)
Emit(op, a, id) == << [op |-> op, a |-> a, id |-> id] >>
getFunctionByName(table, name) == SelectInSeq(table, LAMBDA f : f.name = name)
countReads(func, value) == Cardinality({n \in DOMAIN func : doesReadValue(func[n], value)})

loadValueToStack(value) == IF value[1] = "int" THEN Emit("LOADK", value[2], "") ELSE <<>>

(* A plausible slip: the arguments from left to right.                     *)
iterateArgs_LeftToRight(args) == FlattenSeq([n \in DOMAIN args |-> loadValueToStack(args[n])])
iterateArgs(args) == FlattenSeq(Reverse([n \in DOMAIN args |-> loadValueToStack(args[n])]))

buildCall(inst, table) ==
  LET n == getFunctionByName(table, inst.a)
  IN iterateArgs(inst.args) \o Emit(IF table[n].module = "std" THEN "NATIVECALL" ELSE "CALL", n, inst.id)

(* A plausible slip: only one of the readers finds the memory on the stack.*)
buildAlloc_NoCopy(inst, func) == Emit("ALLOC", "", "")

buildAlloc(inst, func) ==
  Emit("ALLOC", "", "") \o (IF countReads(func, inst.a) > 1 THEN Emit("DUP", "", "") ELSE <<>>)

(* The offset is that of the field with the index, named by that field.    *)
buildDestructure(inst) ==
  Emit("LOAD", 0, "") \o Emit("LOADADDR", Fields[inst.a.ty][inst.a.fieldIndex + 1], "")

buildJump(inst, g) == Emit("JMP", -((Len(g.code) - g.labels[inst.a]) + 1), "")

Built(g, inst, func) ==
  CASE inst.type = "Destructure" -> buildDestructure(inst)
    [] inst.type = "StackAlloc" -> buildAlloc(inst, func)
    [] inst.type = "Store" -> Emit("SET", "", inst.id)
    [] inst.type = "Load" -> Emit("DEREF", "", "")
    [] inst.type = "Label" -> <<>>
    [] inst.type = "Jump" -> buildJump(inst, g)
    [] inst.type = "Return" -> Emit("RETURN", "", "")
    [] inst.type = "CALL" -> buildCall(inst, g.table)

buildLabel(g, inst) == IF inst.type = "Label" THEN (inst.a :> Len(g.code)) @@ g.labels ELSE g.labels

(* Every function becomes a function of class App.                         *)
buildFunction(g, f) ==
  LET func == compile(f)
      entry == [module |-> "test", name |-> "App." \o f.name, offset |-> Len(g.code)]
  IN FoldLeft(LAMBDA h, inst : [h EXCEPT !.labels = buildLabel(h, inst),
                                         !.code = @ \o Built(h, inst, func)],
              [g EXCEPT !.table = Append(@, entry), !.labels = <<>>], func)

(***************************************************************************)
(* The other modules.  registerFunction, registerMethod and                *)
(* registerTypeConstructor fill std; RzCompiler fills main with every      *)
(* method.  Scripts call only empty methods of main: what RzCompiler emits *)
(* for the others is in module Emit, and they have no code here.           *)
(***************************************************************************)
std == SetToSeq({[module |-> "std", name |-> f, offset |-> -1] : f \in DOMAIN Natives})
main(functions) ==
  [n \in DOMAIN functions |->
     [module |-> "main", name |-> functions[n].class \o "." \o functions[n].name, offset |-> 0]]

Code(functions) ==
  LET g == FoldLeft(buildFunction,
                    [table |-> std \o main(functions), code |-> <<>>, labels |-> <<>>], irCtx(functions))
  IN [table |-> g.table, test |-> g.code, main |-> Ast!compileFunction(<<>>)]

===============================================================================
