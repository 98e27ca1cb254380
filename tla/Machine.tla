-------------------------------- MODULE Machine -------------------------------
(***************************************************************************)
(* The virtual machine running the code RzCompiler emits for one method:   *)
(* dispatch_execute takes the instruction at pc, executes it on the stack  *)
(* and adds one to pc, until OP_RETURN leaves the only frame.  The stack   *)
(* holds terms (module Terms) for the RzStackValues and slots for the      *)
(* locals; module FrameLayout has their sizes.                             *)
(***************************************************************************)
EXTENDS Emit, Meaning

CONSTANT Programs   (* the bodies of methods                               *)

ASSUME ProgramAssumption == Programs \subseteq Bodies

VARIABLES
  program,   (* the body of the method that runs                           *)
  code,      (* m_module->m_code: the code of that method                  *)
  pc,        (* RzStackFrame::pc, from 1; 0 when no frame is left          *)
  stack,     (* what lies between the base of the frame and esp, top last  *)
  last       (* the last assignment or test made, and what it did          *)

vars == <<program, code, pc, stack, last>>

Slot(x) == Leaf(x, "slot")
Address(place) == Of("&", "ptr", place)
Argument(v) == (CHOOSE a \in v[3] : TRUE)[2]
Pointee(v) == IF v[1] = "&" THEN Argument(v) ELSE Leaf("wild", "ptr")
Uninitialised == Leaf("uninitialised", "ptr")

(* RzVirtualMachine::call has moved "this" into the frame.                 *)
Init ==
  /\ program \in Programs
  /\ code = compileFunction(program)
  /\ pc = 1
  /\ stack = << Slot("this") >>
  /\ last = Begin

inst == code[pc]
Top == stack[Len(stack)]
Below == stack[Len(stack) - 1]
Pop(n) == SubSeq(stack, 1, Len(stack) - n)
Is(op) == pc \in DOMAIN code /\ inst.op = op

(* The end of an instruction that pushes v after popping n values.         *)
Leaves(n, v) ==
  /\ Len(stack) >= n
  /\ stack' = Append(Pop(n), v)
  /\ pc' = pc + 1
  /\ UNCHANGED <<program, code, last>>

(* A pointer in a field is not read: loadedValue is not initialised.       *)
DoLoad ==
  /\ Is("LOAD")
  /\ \/ inst.a = "EBP" /\ Leaves(0, Leaf(inst.b, Reads))
     \/ /\ inst.a = "THIS"
        /\ Leaves(1, IF inst.kind = "ptr" THEN Uninitialised ELSE Of(inst.b, "field", Top))

DoLoadAddr ==
  /\ Is("LOADADDR")
  /\ \/ inst.a = "EBP" /\ Leaves(0, Address(Leaf(inst.b, Writes)))
     \/ inst.a = "THIS" /\ Leaves(1, Address(Of(inst.b, "field", Top)))

DoLoadConstant == Is("LOADK") /\ Leaves(0, Leaf("literal", inst.a))

(***************************************************************************)
(* Operators.  Those that commute pop the right side into a and the left   *)
(* into b, the others the right side into b; a type that the switch has no *)
(* case for leaves a alone.                                                *)
(***************************************************************************)
Computed(kind, a, term) == IF kind \in {"int32", "float"} THEN term ELSE a

(* A comparison of floats other than > leaves 1.0 or 0.0.                  *)
AsFloat(op, kind, term) ==
  IF op \in {"LT", "EQ", "NEQ"} /\ kind = "float" THEN Of("asFloat", "bool", term) ELSE term

Commuting == [ADD |-> "+", MUL |-> "*", EQ |-> "==", NEQ |-> "!=", AND |-> "&&", OR |-> "||"]
Sided == [SUB |-> "-", DIV |-> "/", LT |-> "<", GT |-> ">"]

(* && and || of ints take a for both sides.                                *)
DoCommuting(op) ==
  LET b == IF op \in {"AND", "OR"} /\ inst.a = "int32" THEN Top ELSE Below
  IN Is(op) /\ Leaves(2, Computed(inst.a, Top, AsFloat(op, inst.a, Apply(Commuting[op], inst.a, b, Top))))

DoSided(op) ==
  Is(op) /\ Leaves(2, Computed(inst.a, Below, AsFloat(op, inst.a, Apply(Sided[op], inst.a, Below, Top))))

DoUnarySub == Is("UNARYSUB") /\ Leaves(1, Computed(inst.a, Top, Of("-", inst.a, Top)))
DoConversion == Is("CONV") /\ Leaves(1, Converted(Top, inst.a, inst.b))

(* OP_LTE and OP_GTE have empty cases, and DoDebugOp touches no value.     *)
Skip ==
  /\ \E op \in {"LTE", "GTE", "DEBUG"} : Is(op)
  /\ pc' = pc + 1
  /\ UNCHANGED <<program, code, stack, last>>

(***************************************************************************)
(* What changes memory, esp or pc.                                         *)
(***************************************************************************)
DoAssign ==
  /\ Is("SET")
  /\ Len(stack) >= 2
  /\ stack' = Pop(2)
  /\ last' = Effect(inst.metadata, "done", Pointee(Below), Top)
  /\ pc' = pc + 1
  /\ UNCHANGED <<program, code>>

(* With rvalue 0, the only one emitted, just an int is incremented.        *)
DoIncrement ==
  /\ Is("INCREMENT")
  /\ Len(stack) >= 1
  /\ stack' = Pop(1)
  /\ last' = IF inst.a = "int32" THEN Effect(inst.metadata, "done", Pointee(Top), Leaf("increment", "int32"))
             ELSE last
  /\ pc' = pc + 1
  /\ UNCHANGED <<program, code>>

Move ==
  /\ Is("MOV")
  /\ \/ /\ inst.a = "down"
        /\ stack' = Append(stack, Slot(inst.b))
        /\ last' = IF inst.metadata = "" THEN last
                   ELSE Effect(inst.metadata, "done", Leaf(inst.b, Writes), Nowhere)
     \/ /\ inst.a = "up"
        /\ Len(stack) >= 1
        /\ stack' = Pop(1)
        /\ UNCHANGED last
  /\ pc' = pc + 1
  /\ UNCHANGED <<program, code>>

Tested(v) == IF v[1] = "asFloat" /\ v[2] = "bool" THEN Argument(v) ELSE v

DoJumpIfZero ==
  /\ Is("JZ")
  /\ Len(stack) >= 1
  /\ stack' = Pop(1)
  /\ \E zero \in BOOLEAN :
       /\ pc' = IF zero THEN pc + inst.a + 1 ELSE pc + 1
       /\ last' = Effect(inst.metadata, IF zero THEN "false" ELSE "true", Nowhere, Tested(Top))
  /\ UNCHANGED <<program, code>>

DoJump ==
  /\ Is("JMP")
  /\ pc' = pc + inst.a + 1
  /\ UNCHANGED <<program, code, stack, last>>

DoReturn ==
  /\ Is("RETURN")
  /\ pc' = 0
  /\ last' = End
  /\ UNCHANGED <<program, code, stack>>

Next ==
  \/ DoLoad \/ DoLoadAddr \/ DoLoadConstant
  \/ \E op \in DOMAIN Commuting : DoCommuting(op)
  \/ \E op \in DOMAIN Sided : DoSided(op)
  \/ DoUnarySub \/ DoConversion \/ DoIncrement \/ Skip
  \/ DoAssign \/ Move \/ DoJumpIfZero \/ DoJump \/ DoReturn

Spec == Init /\ [][Next]_vars /\ WF_vars(Next)

(***************************************************************************)
(* Properties.                                                             *)
(***************************************************************************)
(* dispatch_execute only ever takes an instruction of the method, and      *)
(* pop_value never takes more than the method pushed.                      *)
TypeOK ==
  /\ code = compileFunction(program)
  /\ pc \in 0 .. Len(code)
  /\ last.how \in {"done", "true", "false"}

(* emitDebugTrace after every statement finds only the slots of locals on  *)
(* the stack: no statement leaves or takes a value, whatever its branches. *)
(* A local is released while its own slot is on top.                       *)
Released == Is("MOV") /\ inst.a = "up"
StackBalanced ==
  /\ (Is("DEBUG") /\ inst.a # "OP_SET") => \A n \in DOMAIN stack : stack[n][2] = "slot"
  /\ Released => stack # <<>> /\ Top = Slot(inst.b)
  /\ pc = 0 => stack = <<>>

Src == INSTANCE Source

(* OP_LOAD "pushes the contents of local variable" (InstructionSet.h): the *)
(* place it reads is the one the local is written to.  The machine does    *)
(* not do that.                                                            *)
LoadsTheLocal == [][DoLoad /\ inst.a = "EBP" => stack'[Len(stack')] = Leaf(inst.b, Writes)]_vars

(* emitBranchCode makes "sure the if jmp goes to the end of the block if it*)
(* fails": what is done after a test, and after anything else, is what the *)
(* source says comes next, to the variable it says, with its operators on  *)
(* what OP_LOAD yields for the variables it says, on the sides it says.    *)
(* (That OP_LOAD yields the variable is LoadsTheLocal, which fails.)       *)
InOrder == [][Src!Next]_<<program, last>>

(* The method follows its source, up to what OP_LOAD yields: it begins     *)
(* where the source does, goes on in its order with the source's operators *)
(* and variables, and the next assignment or test always comes.            *)
Implements == Src!Spec

=============================================================================
