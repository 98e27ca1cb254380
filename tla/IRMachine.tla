------------------------------- MODULE IRMachine ------------------------------
(***************************************************************************)
(* A host runs what module IR compiles: createObject calls the constructor *)
(* of App on a virtual machine of its own, then the host pushes the object *)
(* on a second one and calls App.main.  The machine keeps a frame for each *)
(* function that runs; the code of module "test" calls natives, which take *)
(* their operands from the stack themselves, and methods of module "main". *)
(*                                                                         *)
(* The memory that matters is the fields of the App object and what the    *)
(* allocations hold: "raw" until a constructor has run there.              *)
(***************************************************************************)
EXTENDS IR

CONSTANTS
  Scripts,   (* sequences of functions                                     *)
  Memory     (* what malloc may return                                     *)

VARIABLES
  script,
  says,      (* what its source says: only compared with, never read       *)
  code,      (* the code and functions of the modules                      *)
  phase,     (* "create" or "main": which of the two machines runs         *)
  frames,    (* RzThreadContext::frames, top last                          *)
  ebp,       (* the place in the stack ebp points at                       *)
  stack,     (* what lies between the base of the stack and esp, top last  *)
  fields,    (* the fields of the App object                               *)
  heap,      (* what the memory at each address holds                      *)
  last       (* the last call or assignment, and what it gave              *)

vars == <<script, says, code, phase, frames, ebp, stack, fields, heap, last>>

Effect(id, fun, args, gives) == [id |-> id, fun |-> fun, args |-> args, gives |-> gives]
Begin == Effect("begin", "", <<>>, Null)
End == Effect("end", "", <<>>, Null)
This == <<"this">>

(* What is shown to happen: the script as its source reads.  A field it    *)
(* names holds what lies in the field the code addresses for that name.    *)
Addressed(name) == Fields["App"][getFieldIndex("App", name) + 1]
Held == [name \in says.names |-> fields[Addressed(name)]]
Src == INSTANCE Calls WITH fields <- Held

(***************************************************************************)
(* The host.                                                               *)
(***************************************************************************)
Frame(f, base) == [function |-> f, pc |-> f.offset, ebp |-> base]
getFunction(table, name) == SelectInSeq(table, LAMBDA f : f.module = "test" /\ f.name = name)

(* The object is on the stack, and RzCall makes esp the base of the frame. *)
RzCall(f) == << Frame(f, 1) >>

(* A class without a constructor is only allocated, its fields zero.       *)
Init ==
  /\ script \in Scripts
  /\ says = Src!Says(script)
  /\ code = Code(script)
  /\ phase = "create"
  /\ fields = [f \in Range(Fields["App"]) |-> Null]
  /\ heap = [m \in Memory |-> "raw"]
  /\ last = Begin
  /\ ebp = 1
  /\ LET n == getFunction(code.table, "App.App")
     IN IF n = 0 THEN frames = <<>> /\ stack = <<>>
        ELSE frames = RzCall(code.table[n]) /\ stack = << This >>

buildAndRun ==
  /\ phase = "create"
  /\ frames = <<>>
  /\ phase' = "main"
  /\ frames' = RzCall(code.table[getFunction(code.table, "App.main")])
  /\ stack' = << This >>
  /\ ebp' = 1
  /\ UNCHANGED <<script, says, code, fields, heap, last>>

(***************************************************************************)
(* dispatch_execute.  pc counts from 0.                                    *)
(***************************************************************************)
cl == Last(frames)
inst == code[cl.function.module][cl.pc + 1]
Is(op) == frames # <<>> /\ inst.op = op
Top == Last(stack)
Pop(n) == SubSeq(stack, 1, Len(stack) - n)
Popped(n) == [k \in 1 .. n |-> stack[Len(stack) + 1 - k]]
Advance == frames' = [frames EXCEPT ![Len(frames)].pc = @ + 1]

(* The end of an instruction that pushes values after popping n.           *)
Leaves(n, values) ==
  /\ Len(stack) >= n
  /\ stack' = Pop(n) \o values
  /\ Advance
  /\ UNCHANGED <<script, says, code, phase, ebp>>

(* this is loaded as a pointer, whatever the mode of the operand's kind.   *)
DoLoad ==
  /\ Is("LOAD")
  /\ ebp + inst.a \in DOMAIN stack
  /\ Leaves(0, << stack[ebp + inst.a] >>)
  /\ UNCHANGED <<fields, heap, last>>

DoLoadAddr == Is("LOADADDR") /\ Leaves(1, << <<"field", inst.a, Top>> >>) /\ UNCHANGED <<fields, heap, last>>

IsField(v) == v[1] = "field" /\ v[3] = This
DoDeref ==
  /\ Is("DEREF")
  /\ Leaves(1, << IF IsField(Top) THEN fields[Top[2]] ELSE <<"wild">> >>)
  /\ UNCHANGED <<fields, heap, last>>

DoLoadConstant == Is("LOADK") /\ Leaves(0, << <<"int", inst.a>> >>) /\ UNCHANGED <<fields, heap, last>>
DoDup == Is("DUP") /\ Leaves(1, << Top, Top >>) /\ UNCHANGED <<fields, heap, last>>

(* malloc returns memory nothing refers to; what nothing refers to counts  *)
(* as free, for nothing here frees it.                                     *)
InUse == {stack[n] : n \in DOMAIN stack} \cup {fields[f] : f \in DOMAIN fields}
DoAlloc ==
  /\ Is("ALLOC")
  /\ LET m == CHOOSE m \in Memory : m \notin InUse
     IN Leaves(0, << m >>) /\ heap' = [heap EXCEPT ![m] = "raw"]
  /\ UNCHANGED <<fields, last>>

(* The memory of a local is written and never read: no code loads a local. *)
DoAssign ==
  /\ Is("SET")
  /\ Leaves(2, <<>>)
  /\ LET operand == Top
         dest_addr == stack[Len(stack) - 1]
     IN IF IsField(dest_addr)
        THEN /\ fields' = [fields EXCEPT ![dest_addr[2]] = operand]
             /\ last' = Effect(inst.id, "=", << operand >>, Null)
        ELSE UNCHANGED <<fields, last>>
  /\ UNCHANGED heap

(* Natives take their object, if any, and then their parameters in order.  *)
DoNativeCall ==
  /\ Is("NATIVECALL")
  /\ LET f == code.table[inst.a].name
         native == Natives[f]
         args == Popped(native.takes)
     IN \/ /\ native.constructs
           /\ Leaves(1, <<>>)
           /\ heap' = [m \in Memory |-> IF m = Top THEN native.of ELSE heap[m]]
           /\ last' = Effect(inst.id, f, args, Top)
        \/ /\ ~native.constructs
           /\ Leaves(native.takes, IF native.gives THEN << <<"result", f>> >> ELSE <<>>)
           /\ last' = Effect(inst.id, f, args, <<"result", f>>)
           /\ UNCHANGED heap
  /\ UNCHANGED fields

(* ebp stays what it was: the callee shares the frame of its caller.       *)
DoCall ==
  /\ Is("CALL")
  /\ LET f == code.table[inst.a]
     IN /\ frames' = Append([frames EXCEPT ![Len(frames)].pc = @ + 1], Frame(f, ebp))
        /\ last' = Effect(inst.id, f.name, << Top >>, <<"result", f.name>>)
  /\ UNCHANGED <<script, says, code, phase, ebp, stack, fields, heap>>

DoJump ==
  /\ Is("JMP")
  /\ frames' = [frames EXCEPT ![Len(frames)].pc = @ + inst.a + 1]
  /\ UNCHANGED <<script, says, code, phase, ebp, stack, fields, heap, last>>

DoReturn ==
  /\ Is("RETURN")
  /\ frames' = Front(frames)
  /\ ebp' = IF frames' = <<>> THEN ebp ELSE Last(frames').ebp
  /\ last' = IF frames' = <<>> /\ phase = "main" THEN End ELSE last
  /\ UNCHANGED <<script, says, code, phase, stack, fields, heap>>

(* The code of an empty method: it traces and releases "this".             *)
DoDebugOp == Is("DEBUG") /\ Leaves(0, <<>>) /\ UNCHANGED <<fields, heap, last>>
Move == Is("MOV") /\ inst.a = "up" /\ Leaves(1, <<>>) /\ UNCHANGED <<fields, heap, last>>

Next ==
  \/ buildAndRun
  \/ DoLoad \/ DoLoadAddr \/ DoDeref \/ DoLoadConstant \/ DoAlloc \/ DoDup
  \/ DoAssign \/ DoNativeCall \/ DoCall \/ DoJump \/ DoReturn \/ DoDebugOp \/ Move

Spec == Init /\ [][Next]_vars /\ WF_vars(Next)

(***************************************************************************)
(* Properties.                                                             *)
(***************************************************************************)
(* dispatch_execute takes every instruction from the function whose frame  *)
(* is on top: no offset, jump, call or return leads into another function. *)
Extent(f) ==
  LET after == {g.offset : g \in {h \in Range(code.table) : h.module = f.module /\ h.offset > f.offset}}
  IN f.offset .. (IF after = {} THEN Len(code[f.module]) ELSE Min(after)) - 1
TypeOK ==
  /\ phase \in {"create", "main"}
  /\ \A n \in DOMAIN frames : frames[n].pc \in Extent(frames[n].function)

(* Every statement leaves the stack as it was, with the object at ebp: the *)
(* next "this" is read there, an iteration starts where the one before it  *)
(* did, and the host finds what it pushed.                                 *)
StackBalanced ==
  frames # <<>> =>
    /\ ebp \in DOMAIN stack /\ stack[ebp] = This
    /\ Is("JMP") \/ (Is("RETURN") /\ Len(frames) = 1) => stack = << This >>

(* The fields of the object never hold memory whose constructor has not    *)
(* been run, nor an address on the way to it.                              *)
FieldsConstructed ==
  \A f \in DOMAIN fields :
    \/ fields[f] \in Memory /\ heap[fields[f]] # "raw"
    \/ fields[f][1] \in {"null", "result"}

(* The run does what the source says: every call of a native takes the     *)
(* operands its source has, in their order, every field is set to what its *)
(* source says, in the order of the statements, loops come round, and the  *)
(* next call is always made.                                               *)
Implements == Src!Spec

(* "The this argument is the farthest from ebp": wherever it lies, what a  *)
(* native method takes for its object is one its constructor made.         *)
ReceiverIsObject ==
  LET f == last.fun
  IN f \in DOMAIN Natives /\ Natives[f].of # "" =>
       last.args[1] \in Memory /\ heap[last.args[1]] = Natives[f].of

===============================================================================
