----------------------------- MODULE FrameLayout -----------------------------
(***************************************************************************)
(* The stack frame as the bytecode compiler lays it out: RzCompiler's      *)
(* scope stack (m_scopes), the running slot offset (m_OffsetFromBasePtr)   *)
(* and, beside them, what the code emitted so far does to the thread's     *)
(* stack at run time: depth = ebp - esp, and the debug canaries.           *)
(*                                                                         *)
(* Compiling a function is sequential and recursive: compileFunction ->    *)
(* emitBlock -> emitStatement -> emitBranchCode / emitWhileLoop /          *)
(* emitForLoop -> emitBlock ...  Every scope on m_scopes remembers which   *)
(* of these calls opened it ("by"): that is where control returns to when  *)
(* the scope is popped.  One step is one statement, one destructLocalVar   *)
(* or one scope operation.  The emitted code is followed along the path    *)
(* that runs every block once, entered through RzVirtualMachine::call.     *)
(***************************************************************************)
EXTENDS Integers, Sequences, FiniteSets

CONSTANTS
  Names,       (* identifiers of locals and parameters                     *)
  Fields,      (* those of Names that are also fields of the class         *)
  Types,       (* the types a parameter, local or result may have          *)
  Var,         (* the dynamic type "var"                                   *)
  Native,      (* types registered by the host (RzType::is_native)         *)
  Size,        (* RzQualType::getSize, in bytes                            *)
  SlotSize,    (* sizeof(RzStackValue), also the size of "this"            *)
  Half,        (* operands are int8_t: -Half .. Half-1, Half = 128         *)
  Kinds,       (* the kinds of function compiled                           *)
  ParamTypes,  (* types the parameters are drawn from                      *)
  LocalTypes,  (* types the locals are drawn from                          *)
  Failures,    (* BOOLEAN: are programs with compile errors considered?    *)
  BlockResults,(* what a completed emitBlock, which has no return          *)
               (* statement, may leave in its RzCompileResult              *)
  MaxFns,      (* bound: functions compiled one after the other            *)
  MaxLocals,   (* bound: locals in all scopes together                     *)
  MaxOffset,   (* bound: m_OffsetFromBasePtr, which drifts                 *)
  MaxScopes    (* bound: scopes on m_scopes, and pending canaries          *)

(* Functions are those of a class: see FreeFunction for the others.        *)
FunctionKinds == {"static", "method", "ctor"}

ASSUME FrameAssumption ==
  /\ Fields \subseteq Names
  /\ ParamTypes \subseteq Types
  /\ LocalTypes \subseteq Types
  /\ Native \subseteq Types
  /\ Var \notin Native
  /\ Size \in [Types -> Nat]
  /\ SlotSize \in Nat
  /\ Half \in Nat \ {0}
  /\ Kinds \subseteq FunctionKinds
  /\ Failures \in BOOLEAN
  /\ BlockResults \subseteq {"ok", "aborted"}
  /\ MaxFns \in Nat /\ MaxLocals \in Nat /\ MaxOffset \in Nat /\ MaxScopes \in Nat

VARIABLES
  m_scopes,             (* m_scopes: opener and first local of each scope  *)
  locals,               (* the locals of all scopes, oldest first          *)
  m_OffsetFromBasePtr,  (* the offset the next declareStackVar hands out   *)
  depth,                (* ebp - esp after the code emitted so far         *)
  canary,               (* s_canaryStack while that code runs              *)
  leaked,               (* a CANARYEND found another esp than its BEGIN    *)
  phase,                (* what the compiler is doing                      *)
  functions             (* the functions compiled so far, in order         *)

vars == <<m_scopes, locals, m_OffsetFromBasePtr, depth, canary, leaked,
          phase, functions>>

Openers == {"params", "function", "branch", "while", "forscope", "forblock"}

Phases == {"idle", "this", "params", "block", "forinit", "forbody",
           "unwind", "abort", "release", "crashed"}

(* An operand passes through emitInstruction(uint8_t, int8_t, int8_t, int8_t). *)
Operand(x) ==
  IF x \in -Half .. Half - 1 THEN x ELSE ((x + Half) % (2 * Half)) - Half

Last(s)     == s[Len(s)]
DropLast(s) == SubSeq(s, 1, Len(s) - 1)

-----------------------------------------------------------------------------
(* The scope stack and the function being compiled.                        *)

TopScope == Last(m_scopes)

CanPush    == Len(m_scopes) < MaxScopes /\ Len(canary) < MaxScopes
CanDeclare == Len(locals) < MaxLocals /\ m_OffsetFromBasePtr <= MaxOffset

(* Mutant: the new scope is marked one local too low.                      *)
push_scope_LowMark(opener) ==
  m_scopes' = Append(m_scopes, [by |-> opener, mark |-> Len(locals) - 1])

push_scope(opener) ==
  m_scopes' = Append(m_scopes, [by |-> opener, mark |-> Len(locals)])

fn == Len(functions)

Kind == functions[fn].kind

HasThis(kind) == kind \in {"method", "ctor"}

(* The record declareStackVar adds; "at" is the depth of the stack before  *)
(* the local's own storage and "fn" the function that declares it.         *)
Slot(n, t, size, offset, at, f) ==
  [name |-> n, type |-> t, size |-> size, offset |-> offset, at |-> at, fn |-> f]

ResultSize(t) == IF t = "void" THEN 0 ELSE Size[t]

declareStackVar(n, t, size) ==
  /\ locals' = Append(locals, Slot(n, t, size, m_OffsetFromBasePtr, depth, fn))
  /\ m_OffsetFromBasePtr' = m_OffsetFromBasePtr + size

(* getVariable looks through every scope on m_scopes, innermost first.     *)
IsLocal(n) == \E i \in 1 .. Len(locals) : locals[i].name = n

getVariable(n) ==
  locals[CHOOSE i \in 1 .. Len(locals) :
           /\ locals[i].name = n
           /\ \A j \in i + 1 .. Len(locals) : locals[j].name # n]

-----------------------------------------------------------------------------
(* compileFunction, up to the body.                                        *)

Init ==
  /\ m_scopes = <<>>
  /\ locals = <<>>
  /\ m_OffsetFromBasePtr = 0
  /\ depth = 0
  /\ canary = <<>>
  /\ leaked = FALSE
  /\ phase = "idle"
  /\ functions = <<>>

(* A fresh frame: RzVirtualMachine::call sets ebp to esp and reserves the  *)
(* result; the compiler restarts its offsets and gives "__ret" the first.  *)
BeginFunction(kind, result) ==
  /\ phase = "idle"
  /\ fn < MaxFns
  /\ CanPush
  /\ functions' = Append(functions,
       [kind |-> kind, result |-> result, params |-> 0,
        m_compiled |-> TRUE, finished |-> FALSE])
  /\ push_scope("params")
  /\ locals' = IF result = "void" THEN locals
               ELSE Append(locals, Slot("__ret", result, Size[result], 0, 0, fn + 1))
  /\ m_OffsetFromBasePtr' = ResultSize(result)
  /\ depth' = ResultSize(result)
  /\ canary' = <<>>
  /\ phase' = IF HasThis(kind) THEN "this" ELSE "params"
  /\ UNCHANGED leaked

(* A function outside a class was never collected: compileFunction writes  *)
(* m_compiled through the null pointer getFunction returned.               *)
FreeFunction ==
  /\ phase = "idle"
  /\ phase' = "crashed"
  /\ UNCHANGED <<m_scopes, locals, m_OffsetFromBasePtr, depth, canary, leaked,
                 functions>>

(* An argument: a slot for the compiler, pushMemory for the caller.        *)
Argument(n, t, size) ==
  /\ declareStackVar(n, t, size)
  /\ depth' = depth + size
  /\ functions' = [functions EXCEPT ![fn].params = @ + 1]
  /\ phase' = "params"
  /\ UNCHANGED <<m_scopes, canary, leaked>>

(* Mutant: params.size() leaves "this" out.                                *)
DeclareThis_Uncounted ==
  /\ phase = "this"
  /\ declareStackVar("this", "handle", SlotSize)
  /\ depth' = depth + SlotSize
  /\ phase' = "params"
  /\ UNCHANGED <<m_scopes, canary, leaked, functions>>

DeclareThis ==
  /\ phase = "this"
  /\ Argument("this", "handle", SlotSize)

DeclareParam(n, t) ==
  /\ phase = "params"
  /\ CanDeclare
  /\ Argument(n, t, Size[t])

(* emitStackCanaryBegin and push_scope at the head of emitBlock.           *)
OpenBlock(opener, d) ==
  /\ CanPush
  /\ push_scope(opener)
  /\ canary' = Append(canary, d)
  /\ phase' = "block"
  /\ depth' = d
  /\ UNCHANGED <<locals, m_OffsetFromBasePtr, leaked, functions>>

(* emitConstructorInjection ends with emitPushThis.                        *)
BeginBody ==
  /\ phase = "params"
  /\ OpenBlock("function", IF Kind = "ctor" THEN depth + SlotSize ELSE depth)

-----------------------------------------------------------------------------
(* Statements.  Expressions leave the depth as they found it.              *)

AtStatement == phase \in {"block", "forinit"}

(* What an aborted statement does: emitBlock gives up, emitForLoop ignores *)
(* the result of its init statement.                                       *)
AfterAbort == IF phase = "forinit" THEN "forbody" ELSE "abort"
AfterDecl  == IF phase = "forinit" THEN "forbody" ELSE "block"

(* Mutant: OP_MOV moves the stack pointer the wrong way.                   *)
DeclareLocal_WrongSign(n, t, initFails) ==
  /\ AtStatement
  /\ CanDeclare
  /\ t # Var
  /\ ~IsLocal(n)
  /\ n \in Fields
  /\ initFails => Failures
  /\ declareStackVar(n, t, Size[t])
  /\ depth' = depth - Operand(Size[t])
  /\ phase' = IF initFails THEN AfterAbort ELSE AfterDecl
  /\ UNCHANGED <<m_scopes, canary, leaked, functions>>

(* compileVarDecl of a static type.  getVariable dereferences the field it *)
(* did not find, so only the name of a field gets through.                 *)
DeclareLocal(n, t, initFails) ==
  /\ AtStatement
  /\ CanDeclare
  /\ t # Var
  /\ ~IsLocal(n)
  /\ n \in Fields
  /\ initFails => Failures
  /\ declareStackVar(n, t, Size[t])
  /\ depth' = depth - Operand(-Size[t])
  /\ phase' = IF initFails THEN AfterAbort ELSE AfterDecl
  /\ UNCHANGED <<m_scopes, canary, leaked, functions>>

(* compileVariantStackAlloc: no redefinition check, OP_PUSHVAR.            *)
DeclareVariant(n) ==
  /\ AtStatement
  /\ CanDeclare
  /\ Var \in LocalTypes
  /\ declareStackVar(n, Var, Size[Var])
  /\ depth' = depth + Size[Var]
  /\ phase' = AfterDecl
  /\ UNCHANGED <<m_scopes, canary, leaked, functions>>

(* "error: Local variable redefinition"                                    *)
RejectRedefinition(n) ==
  /\ Failures
  /\ AtStatement
  /\ IsLocal(n)
  /\ phase' = AfterAbort
  /\ UNCHANGED <<m_scopes, locals, m_OffsetFromBasePtr, depth, canary, leaked,
                 functions>>

(* Any other statement that does not compile.                              *)
RejectStatement ==
  /\ Failures
  /\ AtStatement
  /\ phase' = AfterAbort
  /\ UNCHANGED <<m_scopes, locals, m_OffsetFromBasePtr, depth, canary, leaked,
                 functions>>

(* The compiler's own null dereference: field->type for a name that is     *)
(* neither a local nor a field.                                            *)
Crash(n) ==
  /\ AtStatement
  /\ ~IsLocal(n)
  /\ n \notin Fields
  /\ phase' = "crashed"
  /\ UNCHANGED <<m_scopes, locals, m_OffsetFromBasePtr, depth, canary, leaked,
                 functions>>

OpenNested(opener) ==
  /\ phase = "block"
  /\ opener \in {"branch", "while"}
  /\ OpenBlock(opener, depth)

OpenFor ==
  /\ phase = "block"
  /\ CanPush
  /\ push_scope("forscope")
  /\ phase' = "forinit"
  /\ UNCHANGED <<locals, m_OffsetFromBasePtr, depth, canary, leaked, functions>>

OpenForBlock ==
  /\ phase \in {"forinit", "forbody"}
  /\ OpenBlock("forblock", depth)

CloseBlock ==
  /\ phase = "block"
  /\ phase' = "unwind"
  /\ UNCHANGED <<m_scopes, locals, m_OffsetFromBasePtr, depth, canary, leaked,
                 functions>>

-----------------------------------------------------------------------------
(* pop_scope: the locals in reverse order, then the scope itself.          *)

(* Mutant: the storage is released, the offset is not.                     *)
destructLocalVar_KeepsOffset ==
  /\ phase \in {"unwind", "abort"}
  /\ Len(locals) > TopScope.mark
  /\ locals' = DropLast(locals)
  /\ depth' = depth - Operand(Last(locals).size)
  /\ UNCHANGED <<m_scopes, m_OffsetFromBasePtr, canary, leaked, phase, functions>>

(* Mutant: no code is emitted for a native variable.                       *)
destructLocalVar_SkipsNative ==
  LET l == Last(locals) IN
  /\ phase \in {"unwind", "abort"}
  /\ Len(locals) > TopScope.mark
  /\ locals' = DropLast(locals)
  /\ depth' = IF l.type \in Native THEN depth ELSE depth - l.size
  /\ UNCHANGED <<m_scopes, m_OffsetFromBasePtr, canary, leaked, phase, functions>>

(* Mutant: variables are only destructed when the block compiled.          *)
destructLocalVar_NotOnAbort ==
  /\ phase = "unwind"
  /\ Len(locals) > TopScope.mark
  /\ locals' = DropLast(locals)
  /\ depth' = depth - Operand(Last(locals).size)
  /\ m_OffsetFromBasePtr' = m_OffsetFromBasePtr - Last(locals).size
  /\ UNCHANGED <<m_scopes, canary, leaked, phase, functions>>

destructLocalVar ==
  LET l == Last(locals) IN
  /\ phase \in {"unwind", "abort"}
  /\ Len(locals) > TopScope.mark
  /\ locals' = DropLast(locals)
  /\ depth' = IF l.type = Var THEN depth - l.size ELSE depth - Operand(l.size)
  /\ m_OffsetFromBasePtr' = IF l.type \in Native \cup {Var}
                            THEN m_OffsetFromBasePtr
                            ELSE m_OffsetFromBasePtr - l.size
  /\ UNCHANGED <<m_scopes, canary, leaked, phase, functions>>

ScopeEmpty == Len(locals) = TopScope.mark

(* DBG_STACKCANARYEND                                                      *)
CanaryEnd ==
  IF canary = <<>> THEN UNCHANGED <<canary, leaked>>
  ELSE /\ leaked' = (leaked \/ Last(canary) # depth)
       /\ canary' = DropLast(canary)

(* What the caller of emitBlock does with its result: emitForLoop ignores  *)
(* it, emitBranchCode and emitWhileLoop pass an abort on, compileFunction  *)
(* returns nullptr, which its own callers ignore.                          *)
AfterBlock(opener, result) ==
  CASE opener = "forblock" -> "unwind"
    [] opener = "function" -> IF result = "aborted" THEN "idle" ELSE "release"
    [] OTHER               -> IF result = "aborted" THEN "abort" ELSE "block"

(* Mutant: emitStackCanaryEnd is forgotten.                                *)
PopBlock_NoCanaryEnd(result) ==
  /\ phase = "unwind"
  /\ TopScope.by # "forscope"
  /\ ScopeEmpty
  /\ m_scopes' = DropLast(m_scopes)
  /\ phase' = AfterBlock(TopScope.by, result)
  /\ UNCHANGED <<locals, m_OffsetFromBasePtr, depth, canary, leaked, functions>>

(* The end of an emitBlock whose statements all compiled.                  *)
PopBlock(result) ==
  /\ phase = "unwind"
  /\ TopScope.by # "forscope"
  /\ ScopeEmpty
  /\ m_scopes' = DropLast(m_scopes)
  /\ CanaryEnd
  /\ phase' = AfterBlock(TopScope.by, result)
  /\ UNCHANGED <<locals, m_OffsetFromBasePtr, depth, functions>>

(* emitForLoop pops the scope of the control variable without a canary.    *)
PopForScope ==
  /\ phase = "unwind"
  /\ TopScope.by = "forscope"
  /\ ScopeEmpty
  /\ m_scopes' = DropLast(m_scopes)
  /\ phase' = "block"
  /\ UNCHANGED <<locals, m_OffsetFromBasePtr, depth, canary, leaked, functions>>

(* Mutant: emitBlock returns aborted without pop_scope.                    *)
PopAborted_NoPop ==
  /\ phase = "abort"
  /\ phase' = AfterBlock(TopScope.by, "aborted")
  /\ UNCHANGED <<m_scopes, locals, m_OffsetFromBasePtr, depth, canary, leaked,
                 functions>>

(* After a statement that did not compile: no canary end is emitted.       *)
PopAborted ==
  /\ phase = "abort"
  /\ ScopeEmpty
  /\ m_scopes' = DropLast(m_scopes)
  /\ phase' = AfterBlock(TopScope.by, "aborted")
  /\ UNCHANGED <<locals, m_OffsetFromBasePtr, depth, canary, leaked, functions>>

(* releaseParametersContext and emitReturnCode: the parameters' scope stays. *)
EndFunction ==
  /\ phase = "release"
  /\ depth' = depth - Operand(SlotSize * functions[fn].params)
  /\ functions' = [functions EXCEPT ![fn].finished = TRUE]
  /\ phase' = "idle"
  /\ UNCHANGED <<m_scopes, locals, m_OffsetFromBasePtr, canary, leaked>>

-----------------------------------------------------------------------------
Next ==
  \/ \E k \in Kinds, r \in {"void"} \cup ParamTypes : BeginFunction(k, r)
  \/ FreeFunction
  \/ DeclareThis
  \/ \E n \in Names, t \in ParamTypes : DeclareParam(n, t)
  \/ BeginBody
  \/ \E n \in Names, t \in LocalTypes, b \in BOOLEAN : DeclareLocal(n, t, b)
  \/ \E n \in Names : DeclareVariant(n)
  \/ \E n \in Names : RejectRedefinition(n)
  \/ RejectStatement
  \/ \E n \in Names : Crash(n)
  \/ \E o \in {"branch", "while"} : OpenNested(o)
  \/ OpenFor
  \/ OpenForBlock
  \/ CloseBlock
  \/ destructLocalVar
  \/ \E r \in BlockResults : PopBlock(r)
  \/ PopForScope
  \/ PopAborted
  \/ EndFunction

Spec == Init /\ [][Next]_vars

(* Compiling is sequential code that keeps running: once a block is being  *)
(* closed the compiler does not stop before the scopes are unwound.        *)
Unwind ==
  \/ destructLocalVar
  \/ \E r \in BlockResults : PopBlock(r)
  \/ PopForScope
  \/ PopAborted
  \/ EndFunction

FairSpec == Spec /\ WF_vars(Unwind)

-----------------------------------------------------------------------------
(* Invariants.                                                             *)

SlotNames == Names \cup {"this", "__ret"}
SlotTypes == Types \cup {"handle"}

ScopeRec == [by : Openers, mark : Nat]
SlotRec  == [name : SlotNames, type : SlotTypes, size : Nat,
             offset : Int, at : Int, fn : Nat]
FnRec    == [kind : FunctionKinds, result : Types \cup {"void"}, params : Nat,
             m_compiled : BOOLEAN, finished : BOOLEAN]

TypeOK ==
  /\ m_scopes \in Seq(ScopeRec)
  /\ locals \in Seq(SlotRec)
  /\ m_OffsetFromBasePtr \in Int
  /\ depth \in Int
  /\ canary \in Seq(Int)
  /\ leaked \in BOOLEAN
  /\ phase \in Phases
  /\ functions \in Seq(FnRec)

Running == phase \in {"this", "params", "block", "forinit", "forbody", "unwind",
                      "abort", "release"}

(* The frame is a gapless sequence of slots: each variable of the function *)
(* being compiled starts where the one before it ends, and the next one    *)
(* will start where the last ends, whatever scopes were opened and closed  *)
(* in between (RzCompiler.h: "a sequence of slots, each being a variable"). *)
SlotEnd(l) == l.offset + l.size

NextOffset(i) ==
  IF i > 0 /\ locals[i].fn = fn THEN SlotEnd(locals[i]) ELSE 0

SlotsContiguous ==
  /\ \A i \in 1 .. Len(locals) :
       locals[i].fn = fn => locals[i].offset = NextOffset(i - 1)
  /\ m_OffsetFromBasePtr = NextOffset(Len(locals))

(* Every variable in scope lies above the stack pointer, so the values the *)
(* code pushes while it evaluates expressions never overwrite a variable.  *)
SlotsInFrame ==
  Running => \A i \in 1 .. Len(locals) :
               locals[i].fn = fn => SlotEnd(locals[i]) <= depth

(* A stack canary never reports a leak for a block that restores the stack *)
(* pointer, whatever the types of its variables (DBG_STACKCANARYEND).      *)
CanaryHonest == ~leaked

(* Every canary a function began has ended when its body is complete.      *)
CanaryBalanced == phase = "release" => canary = <<>>

(* Between two functions no scope of a body is left on m_scopes and no     *)
(* local outlives its block, also when a statement failed to compile.      *)
OnlyParametersRemain ==
  phase = "idle" =>
    /\ Len(m_scopes) = fn
    /\ \A i \in 1 .. Len(m_scopes) : m_scopes[i].by = "params"
    /\ \A f \in 1 .. fn :
         Cardinality({i \in 1 .. Len(locals) : locals[i].fn = f}) =
           functions[f].params + (IF functions[f].result = "void" THEN 0 ELSE 1)

(* releaseParametersContext "pops the function arguments from the stack":  *)
(* a finished function leaves its result, a constructor also "this".       *)
ArgumentsReleased ==
  (phase = "idle" /\ fn > 0 /\ functions[fn].finished) =>
    depth = ResultSize(functions[fn].result)
              + (IF Kind = "ctor" THEN SlotSize ELSE 0)

(* A block that is being closed is closed: the compiler gets back to the   *)
(* statement after it, or to the next function.                            *)
BlocksClose ==
  (phase \in {"unwind", "abort", "release"}) ~> (phase \in {"block", "idle"})

=============================================================================
