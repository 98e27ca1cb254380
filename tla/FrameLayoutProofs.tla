-------------------------- MODULE FrameLayoutProofs --------------------------
(***************************************************************************)
(* Proofs about FrameLayout, for every set of names and types, every size, *)
(* every bound and every source program.  The slots of a frame are laid    *)
(* out soundly as long as no local is of a native type or of type "var"    *)
(* (PodLocals) and no local is larger than an operand can say.             *)
(***************************************************************************)
EXTENDS FrameLayout, FiniteSetTheorems, SequenceTheorems, TLAPS

Body == phase \in {"block", "forinit", "forbody", "unwind", "abort"}

(* Where the scope of the current function's body is on m_scopes.          *)
BodyScope(b) ==
  /\ b \in 1 .. Len(m_scopes)
  /\ m_scopes[b].by = "function"
  /\ \A i \in 1 .. b - 1 : m_scopes[i].by = "params"
  /\ \A i \in b + 1 .. Len(m_scopes) : m_scopes[i].by \notin {"params", "function"}

(* m_scopes holds the parameter scopes of all functions so far and, above  *)
(* them, while a body is being compiled, the scopes of that body.          *)
ScopeShape ==
  /\ \A i \in 1 .. Len(m_scopes) : m_scopes[i].mark <= Len(locals)
  /\ \A i, j \in 1 .. Len(m_scopes) : i <= j => m_scopes[i].mark <= m_scopes[j].mark
  /\ phase \in {"idle", "this", "params", "release"} =>
       \A i \in 1 .. Len(m_scopes) : m_scopes[i].by = "params"
  /\ Body => \E b \in 1 .. Len(m_scopes) : BodyScope(b)
  /\ phase \notin {"idle", "crashed"} => fn >= 1

-----------------------------------------------------------------------------
(* Lemmas about the operators of the model.                                *)

(* Dropping the last element of a non-empty sequence keeps all the others. *)
LEMMA DropLastProperties ==
  ASSUME NEW S, NEW s \in Seq(S), Len(s) > 0
  PROVE  /\ DropLast(s) \in Seq(S)
         /\ Len(DropLast(s)) = Len(s) - 1
         /\ \A i \in 1 .. Len(s) - 1 : DropLast(s)[i] = s[i]
<1> DEFINE n == Len(s) - 1
           t == SubSeq(s, 1, n)
<1>1. n \in Nat /\ \A i \in 1 .. n : s[i] \in S
  BY LenProperties, ElementOfSeq
<1>2. /\ t \in Seq(S)
      /\ Len(t) = IF 1 <= n THEN n - 1 + 1 ELSE 0
      /\ \A i \in 1 .. n - 1 + 1 : t[i] = s[1 + i - 1]
  BY <1>1, SubSeqProperties
<1>3. t = DropLast(s)
  BY DEF DropLast
<1> HIDE DEF n, t
<1>4. Len(t) = n
  BY <1>1, <1>2
<1>5. \A i \in 1 .. n : t[i] = s[i]
  BY <1>1, <1>2
<1>6. n = Len(s) - 1
  BY DEF n
<1> QED BY <1>2, <1>3, <1>4, <1>5, <1>6

(* An operand is a byte: it is an integer, and it is the value that was    *)
(* meant when that value fits.                                             *)
LEMMA OperandInt == \A x \in Int : Operand(x) \in Int
BY FrameAssumption DEF Operand

LEMMA OperandFits ==
  ASSUME NEW x \in Int, -Half <= x, x < Half
  PROVE  Operand(x) = x
BY FrameAssumption DEF Operand

-----------------------------------------------------------------------------
(* What the steps do to the two stacks.                                    *)

(* What TypeOK says of the three sequences.                                *)
LEMMA Typed ==
  ASSUME TypeOK
  PROVE  /\ m_scopes \in Seq(ScopeRec)
         /\ Len(m_scopes) \in Nat
         /\ \A i \in 1 .. Len(m_scopes) : m_scopes[i] \in ScopeRec
         /\ locals \in Seq(SlotRec)
         /\ Len(locals) \in Nat
         /\ \A i \in 1 .. Len(locals) : locals[i] \in SlotRec
         /\ functions \in Seq(FnRec)
         /\ fn \in Nat
         /\ \A i \in 1 .. fn : functions[i] \in FnRec
<1>1. /\ m_scopes \in Seq(ScopeRec)
      /\ locals \in Seq(SlotRec)
      /\ functions \in Seq(FnRec)
  BY DEF TypeOK
<1> QED BY <1>1 DEF fn

LEMMA ScopePushed ==
  ASSUME TypeOK, NEW opener \in Openers, push_scope(opener)
  PROVE  /\ m_scopes' \in Seq(ScopeRec)
         /\ Len(m_scopes') = Len(m_scopes) + 1
         /\ \A i \in 1 .. Len(m_scopes) : m_scopes'[i] = m_scopes[i]
         /\ m_scopes'[Len(m_scopes) + 1] = [by |-> opener, mark |-> Len(locals)]
<1>1. [by |-> opener, mark |-> Len(locals)] \in ScopeRec
  BY DEF TypeOK, ScopeRec
<1>2. m_scopes \in Seq(ScopeRec)
  BY DEF TypeOK
<1> QED BY <1>1, <1>2, AppendProperties DEF push_scope

LEMMA ScopeDropped ==
  ASSUME TypeOK, Len(m_scopes) > 0, m_scopes' = DropLast(m_scopes)
  PROVE  /\ m_scopes' \in Seq(ScopeRec)
         /\ Len(m_scopes') = Len(m_scopes) - 1
         /\ \A i \in 1 .. Len(m_scopes) - 1 : m_scopes'[i] = m_scopes[i]
<1>1. m_scopes \in Seq(ScopeRec)
  BY DEF TypeOK
<1> QED BY <1>1, DropLastProperties

LEMMA LocalDeclared ==
  ASSUME TypeOK, NEW n \in SlotNames, NEW t \in SlotTypes, NEW size \in Nat,
         declareStackVar(n, t, size)
  PROVE  /\ locals' \in Seq(SlotRec)
         /\ Len(locals') = Len(locals) + 1
         /\ \A i \in 1 .. Len(locals) : locals'[i] = locals[i]
         /\ locals'[Len(locals) + 1] = Slot(n, t, size, m_OffsetFromBasePtr, depth, fn)
         /\ m_OffsetFromBasePtr' = m_OffsetFromBasePtr + size
         /\ m_OffsetFromBasePtr' \in Int
<1>1. Slot(n, t, size, m_OffsetFromBasePtr, depth, fn) \in SlotRec
  BY DEF TypeOK, SlotRec, Slot, fn
<1>2. locals \in Seq(SlotRec)
  BY DEF TypeOK
<1>3. m_OffsetFromBasePtr + size \in Int
  BY DEF TypeOK
<1> QED BY <1>1, <1>2, <1>3, AppendProperties DEF declareStackVar

(* While a body is compiled there is a scope to return to, and it is not a *)
(* scope of parameters.                                                    *)
LEMMA TopOfBody ==
  ASSUME TypeOK, ScopeShape, Body
  PROVE  /\ Len(m_scopes) > 0
         /\ TopScope = m_scopes[Len(m_scopes)]
         /\ TopScope \in ScopeRec
         /\ TopScope.by # "params"
         /\ TopScope.mark <= Len(locals)
<1>1. PICK b \in 1 .. Len(m_scopes) : BodyScope(b)
  BY DEF ScopeShape
<1>2. m_scopes \in Seq(ScopeRec)
  BY DEF TypeOK
<1>3. Len(m_scopes) > 0 /\ Len(m_scopes) \in Nat
  BY <1>1, <1>2
<1>4. TopScope = m_scopes[Len(m_scopes)]
  BY DEF TopScope, Last
<1>5. TopScope \in ScopeRec
  BY <1>2, <1>3, <1>4
<1>6. TopScope.by # "params"
  BY <1>1, <1>2, <1>3, <1>4 DEF BodyScope
<1>7. TopScope.mark <= Len(locals)
  BY <1>3, <1>4 DEF ScopeShape
<1> QED BY <1>3, <1>4, <1>5, <1>6, <1>7

-----------------------------------------------------------------------------
(* Types and the shape of the scope stack.                                 *)

TypeShape == TypeOK /\ ScopeShape

(* Opening a block or the scope of a for loop inside a body keeps the shape. *)
LEMMA PushedShape ==
  ASSUME TypeShape, NEW opener \in Openers, push_scope(opener), fn >= 1, fn' = fn,
         locals' = locals, phase' \in {"block", "forinit"},
         \/ Body /\ opener \notin {"params", "function"}
         \/ phase = "params" /\ opener = "function"
  PROVE  ScopeShape'
<1> USE DEF TypeShape
<1>1. /\ Len(m_scopes') = Len(m_scopes) + 1
      /\ \A i \in 1 .. Len(m_scopes) : m_scopes'[i] = m_scopes[i]
      /\ m_scopes'[Len(m_scopes) + 1] = [by |-> opener, mark |-> Len(locals)]
  BY ScopePushed
<1>2. Len(m_scopes) \in Nat /\ Len(locals) \in Nat
      /\ \A i \in 1 .. Len(m_scopes) : m_scopes[i] \in ScopeRec
  BY Typed
<1>3. \A i \in 1 .. Len(m_scopes') : m_scopes'[i].mark <= Len(locals')
  BY <1>1, <1>2 DEF ScopeShape
<1>4. \A i, j \in 1 .. Len(m_scopes') :
        i <= j => m_scopes'[i].mark <= m_scopes'[j].mark
  BY <1>1, <1>2, SMTT(20) DEF ScopeShape, ScopeRec
<1>5. \E b \in 1 .. Len(m_scopes') : BodyScope(b)'
  <2>1. CASE Body /\ opener \notin {"params", "function"}
    <3>1. PICK b \in 1 .. Len(m_scopes) : BodyScope(b)
      BY <2>1 DEF ScopeShape
    <3>2. /\ b \in 1 .. Len(m_scopes')
          /\ m_scopes'[b].by = "function"
          /\ \A i \in 1 .. b - 1 : m_scopes'[i].by = "params"
      BY <1>1, <1>2, <3>1 DEF BodyScope
    <3>3. m_scopes'[Len(m_scopes) + 1].by = opener
      BY <1>1
    <3>4. \A i \in b + 1 .. Len(m_scopes) + 1 :
            m_scopes'[i].by \notin {"params", "function"}
      BY <1>1, <1>2, <2>1, <3>1, <3>3 DEF BodyScope
    <3>5. BodyScope(b)'
      BY <1>1, <3>2, <3>4 DEF BodyScope
    <3> QED BY <3>2, <3>5
  <2>2. CASE phase = "params" /\ opener = "function"
    <3>1. \A i \in 1 .. Len(m_scopes) : m_scopes[i].by = "params"
      BY <2>2 DEF ScopeShape
    <3>2. BodyScope(Len(m_scopes))'
      BY <1>1, <1>2, <2>2, <3>1 DEF BodyScope
    <3>3. Len(m_scopes') \in 1 .. Len(m_scopes')
      BY <1>1, <1>2
    <3> QED BY <3>2, <3>3
  <2> QED BY <2>1, <2>2
<1> QED BY <1>3, <1>4, <1>5 DEF ScopeShape

(* Popping the top scope keeps the shape; the body's own scope is popped   *)
(* exactly when the compiler leaves the body.                              *)
LEMMA PoppedShape ==
  ASSUME TypeShape, Body, m_scopes' = DropLast(m_scopes), locals' = locals,
         fn' = fn, ScopeEmpty,
         IF TopScope.by = "function" THEN phase' \in {"release", "idle"}
         ELSE phase' \in {"block", "unwind", "abort"}
  PROVE  ScopeShape'
<1> USE DEF TypeShape
<1>1. /\ Len(m_scopes) > 0
      /\ TopScope = m_scopes[Len(m_scopes)]
  BY TopOfBody
<1>2. /\ Len(m_scopes') = Len(m_scopes) - 1
      /\ \A i \in 1 .. Len(m_scopes) - 1 : m_scopes'[i] = m_scopes[i]
  BY <1>1, ScopeDropped
<1>3. Len(m_scopes) \in Nat /\ Len(locals) \in Nat
  BY Typed
<1>4. \A i \in 1 .. Len(m_scopes') : m_scopes'[i].mark <= Len(locals')
  BY <1>2, <1>3 DEF ScopeShape
<1>5. \A i, j \in 1 .. Len(m_scopes') :
        i <= j => m_scopes'[i].mark <= m_scopes'[j].mark
  <2>1. \A i, j \in 1 .. Len(m_scopes) :
          i <= j => m_scopes[i].mark <= m_scopes[j].mark
    BY DEF ScopeShape
  <2> QED BY <1>2, <1>3, <2>1
<1>6. fn' >= 1
  BY DEF ScopeShape, Body
<1>7. PICK b \in 1 .. Len(m_scopes) : BodyScope(b)
  BY DEF ScopeShape
<1>8. CASE TopScope.by = "function"
  <2>1. b = Len(m_scopes)
    BY <1>1, <1>3, <1>7, <1>8 DEF BodyScope
  <2>2. \A i \in 1 .. Len(m_scopes') : m_scopes'[i].by = "params"
    BY <1>2, <1>3, <1>7, <2>1 DEF BodyScope
  <2> QED BY <1>4, <1>5, <1>6, <1>8, <2>2 DEF ScopeShape, Body
<1>9. CASE TopScope.by # "function"
  <2>1. b < Len(m_scopes)
    BY <1>1, <1>3, <1>7, <1>9 DEF BodyScope
  <2>2. b \in 1 .. Len(m_scopes') /\ BodyScope(b)'
    BY <1>2, <1>3, <1>7, <2>1 DEF BodyScope
  <2> QED BY <1>4, <1>5, <1>6, <1>9, <2>2 DEF ScopeShape
<1> QED BY <1>8, <1>9

(* Statements that leave the scope stack alone and add at most one local.  *)
LEMMA SameScopesShape ==
  ASSUME TypeShape, m_scopes' = m_scopes, fn' = fn,
         Len(locals') \in Nat, Len(locals') >= Len(locals),
         \/ Body /\ phase' \in {"block", "forbody", "unwind", "abort", "crashed"}
         \/ phase \in {"this", "params"} /\ phase' = "params"
         \/ phase = "release" /\ phase' = "idle"
         \/ phase = "idle" /\ phase' = "crashed"
  PROVE  ScopeShape'
<1> USE DEF TypeShape
<1>1. Len(m_scopes) \in Nat /\ Len(locals) \in Nat
      /\ \A i \in 1 .. Len(m_scopes) : m_scopes[i] \in ScopeRec
  BY Typed
<1>2. \A i \in 1 .. Len(m_scopes') : m_scopes'[i].mark <= Len(locals')
  BY <1>1 DEF ScopeShape, ScopeRec
<1>3. \A i, j \in 1 .. Len(m_scopes') :
        i <= j => m_scopes'[i].mark <= m_scopes'[j].mark
  BY DEF ScopeShape
<1>4. phase' \notin {"idle", "crashed"} => fn' >= 1
  BY DEF ScopeShape, Body
<1>5. CASE Body /\ phase' \in {"block", "forbody", "unwind", "abort", "crashed"}
  <2>1. \E b \in 1 .. Len(m_scopes') : BodyScope(b)'
    BY <1>5 DEF ScopeShape, BodyScope
  <2> QED BY <1>2, <1>3, <1>4, <1>5, <2>1 DEF ScopeShape
<1>6. CASE \/ phase \in {"this", "params"} /\ phase' = "params"
           \/ phase = "release" /\ phase' = "idle"
           \/ phase = "idle" /\ phase' = "crashed"
  BY <1>2, <1>3, <1>4, <1>6 DEF ScopeShape, Body
<1> QED BY <1>5, <1>6

LEMMA CountedParameter ==
  ASSUME NEW f \in FnRec
  PROVE  [f EXCEPT !.params = f.params + 1] \in FnRec
BY DEF FnRec

LEMMA MarkedFinished ==
  ASSUME NEW f \in FnRec
  PROVE  [f EXCEPT !.finished = TRUE] \in FnRec
BY DEF FnRec

LEMMA SizeIsNat == \A t \in Types : Size[t] \in Nat
BY FrameAssumption

(* An argument: one local, one parameter more.                             *)
LEMMA ArgumentTypes ==
  ASSUME TypeShape, phase \in {"this", "params"},
         NEW n \in SlotNames, NEW t \in SlotTypes, NEW size \in Nat,
         Argument(n, t, size)
  PROVE  TypeShape'
<1> USE DEF TypeShape
<1>1. /\ declareStackVar(n, t, size)
      /\ m_scopes' = m_scopes /\ canary' = canary /\ leaked' = leaked
      /\ depth' = depth + size /\ phase' = "params"
      /\ functions' = [functions EXCEPT ![fn].params = @ + 1]
  BY DEF Argument
<1>2. /\ locals' \in Seq(SlotRec)
      /\ Len(locals') = Len(locals) + 1
      /\ m_OffsetFromBasePtr' \in Int
  BY <1>1, LocalDeclared
<1>3. /\ functions \in Seq(FnRec) /\ fn \in Nat /\ fn >= 1
      /\ functions[fn] \in FnRec
      /\ Len(locals) \in Nat
      /\ m_scopes \in Seq(ScopeRec)
  BY Typed DEF ScopeShape
<1>4. [functions[fn] EXCEPT !.params = functions[fn].params + 1] \in FnRec
  BY <1>3, CountedParameter
<1>5. functions' = [functions EXCEPT ![fn] = [functions[fn] EXCEPT !.params = functions[fn].params + 1]]
  BY <1>1
<1>6. functions' \in Seq(FnRec) /\ fn' = fn
  BY <1>3, <1>4, <1>5, ExceptSeq DEF fn
<1>7. /\ m_scopes' \in Seq(ScopeRec) /\ canary' \in Seq(Int) /\ leaked' \in BOOLEAN
      /\ depth' \in Int /\ phase' \in Phases
  BY <1>1, <1>3 DEF TypeOK, Phases
<1>8. TypeOK'
  BY <1>2, <1>6, <1>7 DEF TypeOK
<1>9. ScopeShape'
  BY <1>1, <1>2, <1>3, <1>6, SameScopesShape
<1> QED BY <1>8, <1>9

(* The head of emitBlock.                                                  *)
LEMMA OpenBlockTypes ==
  ASSUME TypeShape, NEW opener \in Openers, NEW d \in Int, OpenBlock(opener, d),
         \/ Body /\ opener \notin {"params", "function"}
         \/ phase = "params" /\ opener = "function"
  PROVE  TypeShape'
<1> USE DEF TypeShape
<1>1. push_scope(opener) /\ fn' = fn /\ locals' = locals /\ fn >= 1
  BY DEF OpenBlock, fn, ScopeShape, Body
<1>2. m_scopes' \in Seq(ScopeRec)
  BY <1>1, ScopePushed
<1>3. canary' \in Seq(Int)
  BY AppendProperties DEF OpenBlock, TypeOK
<1>4. locals' \in Seq(SlotRec) /\ functions' \in Seq(FnRec)
  BY Typed DEF OpenBlock
<1>5. /\ m_OffsetFromBasePtr' \in Int /\ depth' \in Int
      /\ leaked' \in BOOLEAN /\ phase' \in Phases
  BY DEF OpenBlock, TypeOK, Phases
<1>6. TypeOK'
  BY <1>2, <1>3, <1>4, <1>5 DEF TypeOK
<1>7. ScopeShape'
  BY <1>1, PushedShape DEF OpenBlock
<1> QED BY <1>6, <1>7


(* The first scope of a function: its parameters.                          *)
LEMMA BeginTypes ==
  ASSUME TypeShape, NEW k \in Kinds, NEW r \in {"void"} \cup ParamTypes,
         BeginFunction(k, r)
  PROVE  TypeShape'
<1> USE DEF TypeShape
<1>1. /\ m_scopes \in Seq(ScopeRec) /\ Len(m_scopes) \in Nat
      /\ locals \in Seq(SlotRec) /\ Len(locals) \in Nat
      /\ functions \in Seq(FnRec) /\ fn \in Nat
      /\ \A i \in 1 .. Len(m_scopes) : m_scopes[i] \in ScopeRec
  BY Typed
<1>2. /\ m_scopes' \in Seq(ScopeRec)
      /\ Len(m_scopes') = Len(m_scopes) + 1
      /\ \A i \in 1 .. Len(m_scopes) : m_scopes'[i] = m_scopes[i]
      /\ m_scopes'[Len(m_scopes) + 1] = [by |-> "params", mark |-> Len(locals)]
  <2>1. push_scope("params") /\ "params" \in Openers
    BY DEF BeginFunction, Openers
  <2> QED BY <2>1, ScopePushed
<1>3. /\ functions' \in Seq(FnRec)
      /\ fn' = fn + 1
  <2> DEFINE f == [kind |-> k, result |-> r, params |-> 0,
                   m_compiled |-> TRUE, finished |-> FALSE]
  <2>1. f \in FnRec
    BY FrameAssumption DEF FnRec
  <2>2. functions' = Append(functions, f)
    BY DEF BeginFunction
  <2> HIDE DEF f
  <2> QED BY <1>1, <2>1, <2>2, AppendProperties DEF fn
<1>4. /\ locals' \in Seq(SlotRec)
      /\ Len(locals') >= Len(locals)
      /\ Len(locals') \in Nat
  <2>1. CASE r = "void"
    BY <1>1, <2>1 DEF BeginFunction
  <2>2. CASE r # "void"
    <3> DEFINE l == Slot("__ret", r, Size[r], 0, 0, fn + 1)
    <3>1. l \in SlotRec
      BY <1>1, <2>2, FrameAssumption DEF Slot, SlotRec, SlotNames, SlotTypes
    <3>2. locals' = Append(locals, l)
      BY <2>2 DEF BeginFunction
    <3> HIDE DEF l
    <3> QED BY <1>1, <3>1, <3>2, AppendProperties
  <2> QED BY <2>1, <2>2
<1>5. /\ m_OffsetFromBasePtr' \in Int /\ depth' \in Int
      /\ canary' \in Seq(Int) /\ leaked' \in BOOLEAN /\ phase' \in Phases
  <2>1. ResultSize(r) \in Int
    BY FrameAssumption DEF ResultSize
  <2>2. canary' \in Seq(Int)
    BY DEF BeginFunction
  <2> QED BY <2>1, <2>2 DEF BeginFunction, TypeOK, Phases
<1>6. TypeOK'
  BY <1>2, <1>3, <1>4, <1>5 DEF TypeOK
<1>7. \A i \in 1 .. Len(m_scopes) :
        m_scopes[i].mark \in Nat /\ m_scopes[i].mark <= Len(locals)
                                 /\ m_scopes[i].by = "params"
  BY <1>1 DEF ScopeShape, ScopeRec, BeginFunction
<1>8. \A i \in 1 .. Len(m_scopes') : /\ m_scopes'[i].mark <= Len(locals')
                                     /\ m_scopes'[i].by = "params"
  <2>1. /\ m_scopes'[Len(m_scopes) + 1].mark = Len(locals)
        /\ m_scopes'[Len(m_scopes) + 1].by = "params"
    BY <1>2
  <2>2. 1 .. Len(m_scopes') = (1 .. Len(m_scopes)) \cup {Len(m_scopes) + 1}
    BY <1>1, <1>2
  <2>3. ASSUME NEW i \in 1 .. Len(m_scopes)
        PROVE  m_scopes'[i].mark <= Len(locals') /\ m_scopes'[i].by = "params"
    <3>1. m_scopes'[i] = m_scopes[i]
      BY <1>2
    <3>2. m_scopes[i].mark \in Nat /\ m_scopes[i].mark <= Len(locals)
          /\ m_scopes[i].by = "params"
      BY <1>7
    <3>3. Len(locals) \in Nat /\ Len(locals') \in Nat /\ Len(locals) <= Len(locals')
      BY <1>1, <1>4
    <3>4. m_scopes[i].mark <= Len(locals')
      BY <3>2, <3>3
    <3> QED BY <3>1, <3>2, <3>4
  <2>4. Len(locals) <= Len(locals')
    BY <1>1, <1>4
  <2> QED BY <2>1, <2>2, <2>3, <2>4
<1>9. \A i, j \in 1 .. Len(m_scopes') :
        i <= j => m_scopes'[i].mark <= m_scopes'[j].mark
  <2>1. \A i, j \in 1 .. Len(m_scopes) :
          i <= j => m_scopes[i].mark <= m_scopes[j].mark
    BY DEF ScopeShape
  <2>2. m_scopes'[Len(m_scopes) + 1].mark = Len(locals)
    BY <1>2
  <2>3. \A i \in 1 .. Len(m_scopes) : m_scopes'[i].mark = m_scopes[i].mark
    BY <1>2
  <2> SUFFICES ASSUME NEW i \in 1 .. Len(m_scopes'), NEW j \in 1 .. Len(m_scopes'),
                      i <= j
               PROVE  m_scopes'[i].mark <= m_scopes'[j].mark
    OBVIOUS
  <2>4. CASE j <= Len(m_scopes)
    <3>1. i \in 1 .. Len(m_scopes) /\ j \in 1 .. Len(m_scopes)
      BY <1>1, <2>4
    <3> QED BY <2>1, <2>3, <3>1
  <2>5. CASE j = Len(m_scopes) + 1
    <3>1. i \in 1 .. Len(m_scopes) \/ i = j
      BY <1>1, <2>5
    <3> QED BY <1>1, <1>7, <2>2, <2>3, <2>5, <3>1
  <2> QED BY <1>1, <1>2, <2>4, <2>5
<1>10. ~Body' /\ fn' >= 1
  BY <1>1, <1>3 DEF BeginFunction, Body
<1>11. ScopeShape'
  BY <1>8, <1>9, <1>10 DEF ScopeShape
<1> QED BY <1>6, <1>11

(* A local: one slot more, the control goes on with the same block.        *)
LEMMA DeclareTypes ==
  ASSUME TypeShape, AtStatement, NEW n \in Names, NEW t \in Types,
         declareStackVar(n, t, Size[t]), depth' \in Int,
         phase' \in {"block", "forbody", "abort"},
         UNCHANGED <<m_scopes, canary, leaked, functions>>
  PROVE  TypeShape'
<1> USE DEF TypeShape
<1>1. n \in SlotNames /\ t \in SlotTypes /\ Size[t] \in Nat
  BY SizeIsNat DEF SlotNames, SlotTypes
<1>2. /\ locals' \in Seq(SlotRec)
      /\ Len(locals') = Len(locals) + 1
      /\ m_OffsetFromBasePtr' \in Int
  BY <1>1, LocalDeclared
<1>3. TypeOK'
  BY <1>2 DEF TypeOK, Phases
<1>4. fn' = fn /\ Body /\ Len(locals) \in Nat
  BY Typed DEF fn, AtStatement, Body
<1>5. ScopeShape'
  BY <1>2, <1>4, SameScopesShape
<1> QED BY <1>3, <1>5

(* Steps that only change what the compiler is doing.                      *)
LEMMA PhaseTypes ==
  ASSUME TypeShape, Body, phase' \in {"block", "forbody", "unwind", "abort", "crashed"},
         UNCHANGED <<m_scopes, locals, m_OffsetFromBasePtr, depth, canary, leaked,
                     functions>>
  PROVE  TypeShape'
<1> USE DEF TypeShape
<1>1. TypeOK'
  BY DEF TypeOK, Phases
<1>2. fn' = fn /\ Len(locals) \in Nat
  BY Typed DEF fn
<1>3. ScopeShape'
  BY <1>2, SameScopesShape
<1> QED BY <1>1, <1>3

(* What destructLocalVar finds on the stack of locals.                     *)
LEMMA Destructed ==
  ASSUME TypeShape, destructLocalVar
  PROVE  /\ Len(locals) > 0
         /\ Last(locals) = locals[Len(locals)]
         /\ locals' \in Seq(SlotRec)
         /\ Len(locals') = Len(locals) - 1
         /\ \A i \in 1 .. Len(locals) - 1 : locals'[i] = locals[i]
<1> USE DEF TypeShape
<1>1. Body
  BY DEF destructLocalVar, Body
<1>2. TopScope \in ScopeRec /\ Len(locals) \in Nat /\ locals \in Seq(SlotRec)
  BY <1>1, TopOfBody, Typed
<1>3. Len(locals) > TopScope.mark /\ TopScope.mark \in Nat
  BY <1>2 DEF destructLocalVar, ScopeRec
<1>4. Len(locals) > 0
  BY <1>2, <1>3
<1>5. locals' = DropLast(locals)
  BY DEF destructLocalVar
<1> QED BY <1>2, <1>4, <1>5, DropLastProperties DEF Last

LEMMA DestructTypes ==
  ASSUME TypeShape, destructLocalVar
  PROVE  TypeShape'
<1> USE DEF TypeShape
<1>1. Body /\ fn' = fn /\ fn >= 1 /\ m_scopes' = m_scopes /\ phase' = phase
  BY DEF destructLocalVar, Body, fn, ScopeShape
<1>2. /\ Len(locals) > 0
      /\ Last(locals) = locals[Len(locals)]
      /\ locals' \in Seq(SlotRec)
      /\ Len(locals') = Len(locals) - 1
  BY Destructed
<1>3. /\ Len(locals) \in Nat /\ Len(m_scopes) \in Nat
      /\ \A i \in 1 .. Len(m_scopes) : m_scopes[i] \in ScopeRec
      /\ locals[Len(locals)] \in SlotRec
  BY <1>2, Typed
<1>4. Last(locals).size \in Nat
  BY <1>2, <1>3 DEF SlotRec
<1>5. m_OffsetFromBasePtr' \in Int /\ depth' \in Int
  <2>1. Operand(Last(locals).size) \in Int
    BY <1>4, OperandInt
  <2>2. /\ depth' = depth - Last(locals).size \/ depth' = depth - Operand(Last(locals).size)
        /\ \/ m_OffsetFromBasePtr' = m_OffsetFromBasePtr
           \/ m_OffsetFromBasePtr' = m_OffsetFromBasePtr - Last(locals).size
    BY DEF destructLocalVar
  <2> QED BY <1>4, <2>1, <2>2 DEF TypeOK
<1>6. TypeOK'
  BY <1>2, <1>5 DEF destructLocalVar, TypeOK
<1>7. /\ Len(m_scopes) > 0
      /\ TopScope = m_scopes[Len(m_scopes)]
  BY <1>1, TopOfBody
<1>8. \A i, j \in 1 .. Len(m_scopes) : i <= j => m_scopes[i].mark <= m_scopes[j].mark
  BY DEF ScopeShape
<1>9. m_scopes[Len(m_scopes)].mark < Len(locals)
  BY <1>7, <1>3 DEF destructLocalVar, ScopeRec
<1>10. \A i \in 1 .. Len(m_scopes) :
         /\ m_scopes[i].mark \in Nat
         /\ m_scopes[i].mark <= m_scopes[Len(m_scopes)].mark
  BY <1>3, <1>7, <1>8 DEF ScopeRec
<1>11. \A i \in 1 .. Len(m_scopes') : m_scopes'[i].mark <= Len(locals')
  BY <1>1, <1>2, <1>3, <1>7, <1>9, <1>10
<1>12. \E b \in 1 .. Len(m_scopes') : BodyScope(b)'
  BY <1>1 DEF ScopeShape, BodyScope
<1>13. ScopeShape'
  BY <1>1, <1>8, <1>11, <1>12 DEF ScopeShape, Body
<1> QED BY <1>6, <1>13

(* Popping a scope, at the end of a block or after an error.               *)
LEMMA PopTypes ==
  ASSUME TypeShape, Body, ScopeEmpty, m_scopes' = DropLast(m_scopes),
         UNCHANGED <<locals, m_OffsetFromBasePtr, depth, functions>>,
         CanaryEnd \/ UNCHANGED <<canary, leaked>>,
         IF TopScope.by = "function" THEN phase' \in {"release", "idle"}
         ELSE phase' \in {"block", "unwind", "abort"}
  PROVE  TypeShape'
<1> USE DEF TypeShape
<1>1. Len(m_scopes) > 0
  BY TopOfBody
<1>2. m_scopes' \in Seq(ScopeRec)
  BY <1>1, ScopeDropped
<1>3. canary' \in Seq(Int) /\ leaked' \in BOOLEAN
  <2>1. CASE UNCHANGED <<canary, leaked>> \/ canary = <<>>
    BY <2>1 DEF CanaryEnd, TypeOK
  <2>2. CASE CanaryEnd /\ canary # <<>>
    <3>1. canary \in Seq(Int) /\ Len(canary) > 0
      BY <2>2, EmptySeq DEF TypeOK
    <3>2. canary' = DropLast(canary) /\ leaked' \in BOOLEAN
      BY <2>2 DEF CanaryEnd, TypeOK
    <3> QED BY <3>1, <3>2, DropLastProperties
  <2> QED BY <2>1, <2>2
<1>4. phase' \in Phases
  BY DEF Phases
<1>5. TypeOK'
  BY <1>2, <1>3, <1>4 DEF TypeOK
<1>6. fn' = fn
  BY DEF fn
<1>7. ScopeShape'
  BY <1>6, PoppedShape
<1> QED BY <1>5, <1>7

LEMMA EndTypes ==
  ASSUME TypeShape, EndFunction
  PROVE  TypeShape'
<1> USE DEF TypeShape
<1>1. /\ functions \in Seq(FnRec) /\ fn \in Nat /\ fn >= 1
      /\ functions[fn] \in FnRec
      /\ Len(locals) \in Nat
  BY Typed DEF ScopeShape, EndFunction
<1>2. functions' = [functions EXCEPT ![fn] = [functions[fn] EXCEPT !.finished = TRUE]]
  BY DEF EndFunction
<1>3. [functions[fn] EXCEPT !.finished = TRUE] \in FnRec
  BY <1>1, MarkedFinished
<1>4. functions' \in Seq(FnRec) /\ fn' = fn
  BY <1>1, <1>2, <1>3, ExceptSeq DEF fn
<1>5. SlotSize * functions[fn].params \in Int
  BY <1>1, FrameAssumption DEF FnRec
<1>6. depth' \in Int
  BY <1>5, OperandInt DEF EndFunction, TypeOK
<1>7. TypeOK'
  BY <1>4, <1>6 DEF EndFunction, TypeOK, Phases
<1>8. ScopeShape'
  BY <1>1, <1>4, SameScopesShape DEF EndFunction
<1> QED BY <1>7, <1>8


(* Every step keeps the types and the shape of the scope stack.            *)
LEMMA NextTypes ==
  ASSUME TypeShape, Next
  PROVE  TypeShape'
<1>1. ASSUME NEW k \in Kinds, NEW r \in {"void"} \cup ParamTypes, BeginFunction(k, r)
      PROVE  TypeShape'
  BY <1>1, BeginTypes
<1>2. CASE DeclareThis
  <2>1. "this" \in SlotNames /\ "handle" \in SlotTypes /\ SlotSize \in Nat
    BY FrameAssumption DEF SlotNames, SlotTypes
  <2> QED BY <1>2, <2>1, ArgumentTypes DEF DeclareThis
<1>3. ASSUME NEW n \in Names, NEW t \in ParamTypes, DeclareParam(n, t)
      PROVE  TypeShape'
  <2>1. n \in SlotNames /\ t \in SlotTypes /\ Size[t] \in Nat
    BY FrameAssumption DEF SlotNames, SlotTypes
  <2> QED BY <1>3, <2>1, ArgumentTypes DEF DeclareParam
<1>4. CASE BeginBody
  <2> DEFINE d == IF Kind = "ctor" THEN depth + SlotSize ELSE depth
  <2>1. d \in Int /\ "function" \in Openers
    BY FrameAssumption DEF TypeShape, TypeOK, Openers
  <2>2. phase = "params" /\ OpenBlock("function", d)
    BY <1>4 DEF BeginBody
  <2> HIDE DEF d
  <2> QED BY <2>1, <2>2, OpenBlockTypes
<1>5. ASSUME NEW n \in Names, NEW t \in LocalTypes, NEW b \in BOOLEAN,
             DeclareLocal(n, t, b)
      PROVE  TypeShape'
  <2>1. t \in Types /\ Size[t] \in Nat /\ -Size[t] \in Int
    BY FrameAssumption
  <2>2. Operand(-Size[t]) \in Int
    BY <2>1, OperandInt
  <2>3. depth' \in Int
    BY <1>5, <2>2 DEF DeclareLocal, TypeShape, TypeOK
  <2>4. phase' \in {"block", "forbody", "abort"}
    BY <1>5 DEF DeclareLocal, AfterAbort, AfterDecl
  <2>5. /\ AtStatement /\ declareStackVar(n, t, Size[t])
        /\ UNCHANGED <<m_scopes, canary, leaked, functions>>
    BY <1>5 DEF DeclareLocal
  <2> QED BY <2>1, <2>3, <2>4, <2>5, DeclareTypes
<1>6. ASSUME NEW n \in Names, DeclareVariant(n)
      PROVE  TypeShape'
  <2>1. Var \in Types /\ Size[Var] \in Nat
    BY <1>6, FrameAssumption DEF DeclareVariant
  <2>2. depth' \in Int
    BY <1>6, <2>1 DEF DeclareVariant, TypeShape, TypeOK
  <2>3. phase' \in {"block", "forbody", "abort"}
    BY <1>6 DEF DeclareVariant, AfterDecl
  <2>4. /\ AtStatement /\ declareStackVar(n, Var, Size[Var])
        /\ UNCHANGED <<m_scopes, canary, leaked, functions>>
    BY <1>6 DEF DeclareVariant
  <2> QED BY <2>1, <2>2, <2>3, <2>4, DeclareTypes
<1>7. ASSUME NEW n \in Names, RejectRedefinition(n)
      PROVE  TypeShape'
  BY <1>7, PhaseTypes DEF RejectRedefinition, AtStatement, AfterAbort, Body
<1>8. CASE RejectStatement
  BY <1>8, PhaseTypes DEF RejectStatement, AtStatement, AfterAbort, Body
<1>9. ASSUME NEW n \in Names, Crash(n)
      PROVE  TypeShape'
  BY <1>9, PhaseTypes DEF Crash, AtStatement, Body
<1>10. ASSUME NEW o \in {"branch", "while"}, OpenNested(o)
       PROVE  TypeShape'
  <2>1. Body /\ depth \in Int /\ o \in Openers /\ o \notin {"params", "function"}
    BY <1>10 DEF OpenNested, Body, TypeShape, TypeOK, Openers
  <2> QED BY <1>10, <2>1, OpenBlockTypes DEF OpenNested
<1>11. CASE OpenFor
  <2> USE DEF TypeShape
  <2>1. "forscope" \in Openers /\ push_scope("forscope")
        /\ UNCHANGED <<locals, m_OffsetFromBasePtr, depth, canary, leaked, functions>>
    BY <1>11 DEF OpenFor, Openers
  <2>2. m_scopes' \in Seq(ScopeRec)
    BY <2>1, ScopePushed
  <2>3. TypeOK'
    BY <1>11, <2>1, <2>2 DEF OpenFor, TypeOK, Phases
  <2>4. Body /\ fn' = fn /\ fn >= 1 /\ phase' = "forinit"
    BY <1>11 DEF OpenFor, Body, fn, ScopeShape
  <2>5. ScopeShape'
    BY <2>1, <2>4, PushedShape
  <2> QED BY <2>3, <2>5
<1>12. CASE OpenForBlock
  <2>1. Body /\ depth \in Int /\ "forblock" \in Openers
    BY <1>12 DEF OpenForBlock, Body, TypeShape, TypeOK, Openers
  <2> QED BY <1>12, <2>1, OpenBlockTypes DEF OpenForBlock
<1>13. CASE CloseBlock
  BY <1>13, PhaseTypes DEF CloseBlock, Body
<1>14. CASE destructLocalVar
  BY <1>14, DestructTypes
<1>15. ASSUME NEW r \in BlockResults, PopBlock(r)
       PROVE  TypeShape'
  BY <1>15, PopTypes DEF PopBlock, AfterBlock, Body
<1>16. CASE PopForScope
  BY <1>16, PopTypes DEF PopForScope, Body
<1>17. CASE PopAborted
  BY <1>17, PopTypes DEF PopAborted, AfterBlock, Body
<1>18. CASE EndFunction
  BY <1>18, EndTypes
<1>19. CASE FreeFunction
  <2>1. TypeOK' /\ fn' = fn /\ Len(locals) \in Nat
    BY <1>19, Typed DEF FreeFunction, TypeShape, TypeOK, Phases, fn
  <2>2. ScopeShape'
    BY <1>19, <2>1, SameScopesShape DEF FreeFunction, TypeShape, Body
  <2> QED BY <2>1, <2>2 DEF TypeShape
<1> QED BY <1>1, <1>2, <1>3, <1>4, <1>5, <1>6, <1>7, <1>8, <1>9, <1>10, <1>11,
           <1>12, <1>13, <1>14, <1>15, <1>16, <1>17, <1>18, <1>19 DEF Next

LEMMA TypeShapeInit == Init => TypeShape
<1> SUFFICES ASSUME Init PROVE TypeShape
  OBVIOUS
<1>1. Len(m_scopes) = 0 /\ Len(locals) = 0
  BY DEF Init
<1>2. TypeOK
  <2>1. /\ m_scopes \in Seq(ScopeRec) /\ locals \in Seq(SlotRec)
        /\ canary \in Seq(Int) /\ functions \in Seq(FnRec)
    BY EmptySeq DEF Init
  <2>2. leaked \in BOOLEAN
    BY DEF Init
  <2>3. m_OffsetFromBasePtr \in Int /\ depth \in Int /\ phase \in Phases
    BY DEF Init, Phases
  <2> QED BY <2>1, <2>2, <2>3 DEF TypeOK
<1>3. ScopeShape
  BY <1>1 DEF Init, ScopeShape, Body
<1> QED BY <1>2, <1>3 DEF TypeShape

LEMMA TypeShapeStutter == TypeShape /\ UNCHANGED vars => TypeShape'
<1> SUFFICES ASSUME TypeShape, UNCHANGED vars PROVE TypeShape'
  OBVIOUS
<1>1. TypeOK'
  BY DEF vars, TypeShape, TypeOK
<1>2. ScopeShape'
  BY DEF vars, TypeShape, ScopeShape, Body, BodyScope, fn
<1> QED BY <1>1, <1>2 DEF TypeShape

(* Every variable has its type, in every program: in particular a block    *)
(* never pops a scope that is not there, and the scopes of the parameters  *)
(* stay at the bottom of m_scopes (ScopeShape).                            *)
THEOREM TypeCorrect == Spec => []TypeOK
<1>1. TypeShape /\ [Next]_vars => TypeShape'
  BY NextTypes, TypeShapeStutter
<1>2. TypeShape => TypeOK
  BY DEF TypeShape
<1> QED BY TypeShapeInit, <1>1, <1>2, PTL DEF Spec

-----------------------------------------------------------------------------
(* The layout of the slots.                                                *)

(* Every local is of a static, non-native type that an operand can say.    *)
PodLocals ==
  /\ LocalTypes \cap (Native \cup {Var}) = {}
  /\ \A t \in LocalTypes : Size[t] < Half

(* A local of the body being compiled, as compileVarDecl declares it.      *)
BodyLocal(i) ==
  /\ locals[i].type \in LocalTypes
  /\ locals[i].size = Size[locals[i].type]
  /\ locals[i].fn = fn

NoLaterFunction == \A i \in 1 .. Len(locals) : locals[i].fn <= fn

BodyLocals ==
  \A b \in 1 .. Len(m_scopes) :
    m_scopes[b].by # "params" =>
      \A i \in m_scopes[b].mark + 1 .. Len(locals) : BodyLocal(i)

SlotsBelowOffset ==
  \A i \in 1 .. Len(locals) :
    locals[i].fn = fn => SlotEnd(locals[i]) <= m_OffsetFromBasePtr

SlotsOrdered ==
  \A i, j \in 1 .. Len(locals) :
    (i < j /\ locals[i].fn = fn /\ locals[j].fn = fn) =>
      SlotEnd(locals[i]) <= locals[j].offset

OffsetInFrame == Running => m_OffsetFromBasePtr <= depth

(* The slots of the current function lie one above the other below the     *)
(* next offset, and that lies below the stack pointer.                     *)
Layout ==
  /\ NoLaterFunction
  /\ BodyLocals
  /\ SlotsContiguous
  /\ SlotsBelowOffset
  /\ SlotsOrdered
  /\ OffsetInFrame

IInv == TypeShape /\ Layout

(* Steps that leave the locals and the offset alone: scopes are pushed or  *)
(* popped, statements rejected, the function ended.                        *)
LEMMA SameLocalsLayout ==
  ASSUME IInv, UNCHANGED <<locals, m_OffsetFromBasePtr>>, fn' = fn,
         Len(m_scopes') \in Nat,
         \A b \in 1 .. Len(m_scopes') :
           \/ b \in 1 .. Len(m_scopes) /\ m_scopes'[b] = m_scopes[b]
           \/ m_scopes'[b].mark = Len(locals),
         depth' \in Int, depth' >= depth \/ ~Running',
         Running' => Running
  PROVE  Layout'
<1> USE DEF IInv, Layout
<1>1. Len(locals) \in Nat
  BY Typed DEF TypeShape
<1>2. NoLaterFunction'
  BY DEF NoLaterFunction
<1>3. BodyLocals'
  <2> SUFFICES ASSUME NEW b \in 1 .. Len(m_scopes'), m_scopes'[b].by # "params",
                      NEW i \in m_scopes'[b].mark + 1 .. Len(locals)
               PROVE  BodyLocal(i)
    BY DEF BodyLocals, BodyLocal
  <2>1. CASE m_scopes'[b].mark = Len(locals)
    BY <1>1, <2>1
  <2>2. CASE b \in 1 .. Len(m_scopes) /\ m_scopes'[b] = m_scopes[b]
    BY <2>2 DEF BodyLocals
  <2> QED BY <2>1, <2>2
<1>4. SlotsContiguous'
  BY DEF SlotsContiguous, NextOffset
<1>5. SlotsBelowOffset'
  BY DEF SlotsBelowOffset
<1>6. SlotsOrdered'
  BY DEF SlotsOrdered
<1>7. OffsetInFrame'
  BY DEF OffsetInFrame, TypeShape, TypeOK
<1> QED BY <1>2, <1>3, <1>4, <1>5, <1>6, <1>7

(* A variable declared at the next offset, with storage pushed for it.     *)
LEMMA DeclaredLayout ==
  ASSUME IInv, UNCHANGED m_scopes, fn' = fn, fn >= 1, Running,
         NEW n \in SlotNames, NEW t \in SlotTypes, NEW size \in Nat,
         declareStackVar(n, t, size), depth' = depth + size,
         \/ t \in LocalTypes /\ size = Size[t]
         \/ \A b \in 1 .. Len(m_scopes) : m_scopes[b].by = "params"
  PROVE  Layout'
<1>1. /\ TypeShape /\ NoLaterFunction /\ BodyLocals /\ SlotsContiguous
      /\ SlotsBelowOffset /\ SlotsOrdered /\ OffsetInFrame
  BY DEF IInv, Layout
<1>2. /\ Len(locals') = Len(locals) + 1
      /\ \A i \in 1 .. Len(locals) : locals'[i] = locals[i]
      /\ locals'[Len(locals) + 1] = Slot(n, t, size, m_OffsetFromBasePtr, depth, fn)
      /\ m_OffsetFromBasePtr' = m_OffsetFromBasePtr + size
  BY <1>1, LocalDeclared DEF TypeShape
<1>3. /\ locals'[Len(locals) + 1].type = t
      /\ locals'[Len(locals) + 1].size = size
      /\ locals'[Len(locals) + 1].offset = m_OffsetFromBasePtr
      /\ locals'[Len(locals) + 1].fn = fn
  BY <1>2 DEF Slot
<1>4. /\ Len(locals) \in Nat /\ fn \in Nat
      /\ \A i \in 1 .. Len(locals) : locals[i] \in SlotRec
  BY <1>1, Typed DEF TypeShape
<1>5. /\ m_OffsetFromBasePtr \in Int /\ depth \in Int
      /\ \A i \in 1 .. Len(locals) : /\ locals[i].offset \in Int
                                     /\ locals[i].size \in Nat
                                     /\ locals[i].fn \in Nat
  BY <1>1, <1>4 DEF TypeShape, TypeOK, SlotRec
<1>6. NoLaterFunction'
  BY <1>1, <1>2, <1>3, <1>4 DEF NoLaterFunction
<1>7. BodyLocals'
  <2> SUFFICES ASSUME NEW b \in 1 .. Len(m_scopes), m_scopes[b].by # "params",
                      NEW i \in m_scopes[b].mark + 1 .. Len(locals')
               PROVE  BodyLocal(i)'
    BY DEF BodyLocals
  <2>1. m_scopes[b].mark \in Nat
    BY <1>1, Typed DEF TypeShape, ScopeRec
  <2>2. CASE i = Len(locals) + 1
    BY <1>2, <1>3, <2>2 DEF BodyLocal
  <2>3. CASE i # Len(locals) + 1
    <3>1. i \in m_scopes[b].mark + 1 .. Len(locals) /\ i \in 1 .. Len(locals)
      BY <1>2, <1>4, <2>1, <2>3
    <3>2. BodyLocal(i)
      BY <1>1, <3>1 DEF BodyLocals
    <3> QED BY <1>2, <3>1, <3>2 DEF BodyLocal
  <2> QED BY <2>2, <2>3
<1>8. SlotsContiguous'
  <2>1. \A k \in 0 .. Len(locals) : NextOffset(k)' = NextOffset(k)
    BY <1>2, <1>4 DEF NextOffset
  <2>2. \A i \in 1 .. Len(locals) :
          locals'[i].fn = fn' => locals'[i].offset = NextOffset(i - 1)'
    BY <1>1, <1>2, <1>4, <2>1 DEF SlotsContiguous
  <2>3. \A k \in {Len(locals)} : m_OffsetFromBasePtr = NextOffset(k)'
    BY <1>1, <1>4, <2>1 DEF SlotsContiguous
  <2>4. \A i \in {Len(locals) + 1} : locals'[i].offset = NextOffset(i - 1)'
    BY <1>3, <1>4, <2>3
  <2>5. \A k \in {Len(locals) + 1} : NextOffset(k)' = m_OffsetFromBasePtr + size
    BY <1>3, <1>4 DEF NextOffset, SlotEnd
  <2>6. \A i \in 1 .. Len(locals') : i \in 1 .. Len(locals) \/ i = Len(locals) + 1
    BY <1>2, <1>4
  <2>7. \A i \in 1 .. Len(locals') :
          locals'[i].fn = fn' => locals'[i].offset = NextOffset(i - 1)'
    BY <2>2, <2>4, <2>6
  <2>8. m_OffsetFromBasePtr' = NextOffset(Len(locals))'
    BY <1>2, <1>4, <2>5
  <2> QED BY <2>7, <2>8 DEF SlotsContiguous
<1>9. SlotsBelowOffset'
  BY <1>1, <1>2, <1>3, <1>4, <1>5, SMTT(20) DEF SlotsBelowOffset, SlotEnd
<1>10. SlotsOrdered'
  <2> SUFFICES ASSUME NEW i \in 1 .. Len(locals'), NEW j \in 1 .. Len(locals'),
                      i < j, locals'[i].fn = fn, locals'[j].fn = fn
               PROVE  SlotEnd(locals'[i]) <= locals'[j].offset
    BY DEF SlotsOrdered
  <2>1. i \in 1 .. Len(locals) /\ locals'[i] = locals[i]
    BY <1>2, <1>4
  <2>2. CASE j \in 1 .. Len(locals)
    BY <1>1, <1>2, <2>1, <2>2 DEF SlotsOrdered
  <2>3. CASE j = Len(locals) + 1
    BY <1>1, <1>3, <2>1, <2>3 DEF SlotsBelowOffset
  <2> QED BY <1>2, <1>4, <2>2, <2>3
<1>11. OffsetInFrame'
  BY <1>1, <1>2, <1>5 DEF OffsetInFrame
<1> QED BY <1>6, <1>7, <1>8, <1>9, <1>10, <1>11 DEF Layout

(* A new function: none of the locals on m_scopes is its own yet, except   *)
(* for its result.                                                         *)
LEMMA BeginLayout ==
  ASSUME IInv, NEW k \in Kinds, NEW r \in {"void"} \cup ParamTypes, BeginFunction(k, r)
  PROVE  Layout'
<1>1. /\ TypeShape /\ NoLaterFunction
      /\ phase = "idle"
  BY DEF IInv, Layout, BeginFunction
<1>2. /\ Len(locals) \in Nat /\ fn \in Nat /\ fn' = fn + 1
      /\ \A i \in 1 .. Len(locals) : locals[i].fn \in Nat /\ locals[i].fn < fn'
  <2>1. fn' = fn + 1
    BY <1>1, Typed, AppendProperties DEF TypeShape, BeginFunction, fn
  <2>2. \A i \in 1 .. Len(locals) : locals[i].fn \in Nat
    BY <1>1, Typed DEF TypeShape, SlotRec
  <2> QED BY <1>1, <2>1, <2>2, Typed DEF TypeShape, NoLaterFunction
<1>3. BodyLocals'
  <2>1. \A b \in 1 .. Len(m_scopes) : m_scopes[b].by = "params"
    BY <1>1 DEF TypeShape, ScopeShape
  <2>2. push_scope("params") /\ "params" \in Openers
    BY DEF BeginFunction, Openers
  <2>3. /\ Len(m_scopes') = Len(m_scopes) + 1 /\ Len(m_scopes) \in Nat
        /\ \A i \in 1 .. Len(m_scopes) : m_scopes'[i] = m_scopes[i]
        /\ m_scopes'[Len(m_scopes) + 1].by = "params"
    <3>1. m_scopes'[Len(m_scopes) + 1] = [by |-> "params", mark |-> Len(locals)]
      BY <1>1, <2>2, ScopePushed DEF TypeShape
    <3>2. Len(m_scopes) \in Nat
      BY <1>1, Typed DEF TypeShape
    <3> QED BY <1>1, <2>2, <3>1, <3>2, ScopePushed DEF TypeShape
  <2>4. \A b \in 1 .. Len(m_scopes') : m_scopes'[b].by = "params"
    BY <2>1, <2>3
  <2> QED BY <2>4 DEF BodyLocals
<1>4. CASE r = "void"
  <2>1. /\ locals' = locals /\ m_OffsetFromBasePtr' = 0 /\ depth' = 0
    BY <1>4 DEF BeginFunction, ResultSize
  <2>2. \A i \in 1 .. Len(locals') : locals'[i].fn < fn' /\ locals'[i].fn \in Nat
    BY <1>2, <2>1
  <2>3. \A i \in 1 .. Len(locals') : locals'[i].fn # fn'
    BY <1>2, <2>2
  <2>4. NoLaterFunction' /\ SlotsBelowOffset' /\ SlotsOrdered' /\ OffsetInFrame'
    BY <1>2, <2>1, <2>2, <2>3
       DEF NoLaterFunction, SlotsBelowOffset, SlotsOrdered, OffsetInFrame
  <2>5. \A i \in {Len(locals)} : NextOffset(i)' = 0
    BY <1>2, <2>1, <2>3 DEF NextOffset
  <2>6. SlotsContiguous'
    BY <2>1, <2>3, <2>5 DEF SlotsContiguous
  <2> QED BY <1>3, <2>4, <2>6 DEF Layout
<1>5. CASE r # "void"
  <2> DEFINE l == Slot("__ret", r, Size[r], 0, 0, fn + 1)
  <2>1. l.offset = 0 /\ l.size = Size[r] /\ l.fn = fn' /\ Size[r] \in Nat
    BY <1>2, <1>5, FrameAssumption DEF Slot
  <2>2. /\ locals' = Append(locals, l)
        /\ m_OffsetFromBasePtr' = Size[r] /\ depth' = Size[r]
    BY <1>5 DEF BeginFunction, ResultSize
  <2>3. l \in SlotRec
    BY <1>2, <1>5, FrameAssumption DEF Slot, SlotRec, SlotNames, SlotTypes
  <2> HIDE DEF l
  <2>4. /\ Len(locals') = Len(locals) + 1
        /\ \A i \in 1 .. Len(locals) : locals'[i] = locals[i]
        /\ locals'[Len(locals) + 1] = l
    BY <1>1, <2>2, <2>3, Typed, AppendProperties DEF TypeShape
  <2>5. \A i \in 1 .. Len(locals') : i \in 1 .. Len(locals) \/ i = Len(locals) + 1
    BY <1>2, <2>4
  <2>6. \A i \in 1 .. Len(locals) : locals'[i].fn < fn' /\ locals'[i].fn # fn'
    BY <1>2, <2>4
  <2>7. \A i \in 1 .. Len(locals') : locals'[i].fn = fn' => i = Len(locals) + 1
    BY <2>5, <2>6
  <2>8. NoLaterFunction'
    BY <1>2, <2>1, <2>4, <2>5, <2>6 DEF NoLaterFunction
  <2>9. SlotsBelowOffset' /\ SlotsOrdered' /\ OffsetInFrame'
    BY <1>2, <2>1, <2>2, <2>4, <2>7
       DEF SlotsBelowOffset, SlotsOrdered, OffsetInFrame, SlotEnd
  <2>10. \A k1 \in {Len(locals)} : NextOffset(k1)' = 0
    BY <1>2, <2>6 DEF NextOffset
  <2>11. \A k1 \in {Len(locals) + 1} : NextOffset(k1)' = Size[r]
    BY <1>2, <2>1, <2>4 DEF NextOffset, SlotEnd
  <2>12. \A i \in 1 .. Len(locals') :
           locals'[i].fn = fn' => locals'[i].offset = NextOffset(i - 1)'
    <3>1. \A i \in {Len(locals) + 1} : NextOffset(i - 1)' = 0
      BY <1>2, <2>10
    <3> QED BY <2>1, <2>4, <2>7, <3>1
  <2>13. SlotsContiguous'
    BY <2>2, <2>4, <2>11, <2>12 DEF SlotsContiguous
  <2> QED BY <1>3, <2>8, <2>9, <2>13 DEF Layout
<1> QED BY <1>4, <1>5

(* Leaving a scope gives back exactly the slot and the storage of its last *)
(* variable: here native types would break the layout.                     *)
LEMMA DestructLayout ==
  ASSUME PodLocals, IInv, destructLocalVar
  PROVE  Layout'
<1>1. /\ TypeShape /\ NoLaterFunction /\ BodyLocals /\ SlotsContiguous
      /\ SlotsBelowOffset /\ SlotsOrdered /\ OffsetInFrame
  BY DEF IInv, Layout
<1> DEFINE N == Len(locals)
<1>2. /\ N > 0 /\ N \in Nat
      /\ Last(locals) = locals[N]
      /\ Len(locals') = N - 1
      /\ \A i \in 1 .. N - 1 : locals'[i] = locals[i]
  BY <1>1, Destructed, Typed DEF TypeShape
<1>3. /\ m_OffsetFromBasePtr \in Int /\ depth \in Int /\ fn \in Nat
      /\ \A i \in 1 .. N : /\ locals[i].offset \in Int
                           /\ locals[i].size \in Nat
                           /\ locals[i].fn \in Nat
  BY <1>1, Typed DEF TypeShape, TypeOK, SlotRec
<1>4. BodyLocal(N)
  <2>1. Body
    BY DEF destructLocalVar, Body
  <2>2. /\ Len(m_scopes) > 0 /\ Len(m_scopes) \in Nat
        /\ TopScope = m_scopes[Len(m_scopes)]
        /\ TopScope \in ScopeRec /\ TopScope.by # "params"
    BY <1>1, <2>1, TopOfBody, Typed DEF TypeShape
  <2>3. TopScope.mark \in Nat /\ TopScope.mark < N
    BY <1>2, <2>2 DEF destructLocalVar, ScopeRec
  <2>4. N \in TopScope.mark + 1 .. N /\ Len(m_scopes) \in 1 .. Len(m_scopes)
    BY <1>2, <2>2, <2>3
  <2> QED BY <1>1, <2>2, <2>4 DEF BodyLocals
<1>5. /\ locals[N].type \in LocalTypes /\ locals[N].type \notin Native \cup {Var}
      /\ locals[N].fn = fn /\ locals[N].size < Half
  BY <1>4 DEF BodyLocal, PodLocals
<1>6. /\ m_OffsetFromBasePtr' = m_OffsetFromBasePtr - locals[N].size
      /\ depth' = depth - locals[N].size
  <2>1. Operand(locals[N].size) = locals[N].size
    BY <1>2, <1>3, <1>5, OperandFits, FrameAssumption
  <2> QED BY <1>2, <1>5, <2>1 DEF destructLocalVar
<1>7. fn' = fn /\ m_scopes' = m_scopes /\ phase' = phase
  BY DEF destructLocalVar, fn
<1>8. \A k \in {N} : NextOffset(k) = locals[k].offset + locals[k].size
  BY <1>2, <1>5 DEF NextOffset, SlotEnd
<1>9. m_OffsetFromBasePtr' = locals[N].offset
  BY <1>1, <1>2, <1>3, <1>6, <1>8 DEF SlotsContiguous
<1>10. locals[N].offset = NextOffset(N - 1)
  BY <1>1, <1>2, <1>5 DEF SlotsContiguous
<1>11. \A k \in 0 .. N - 1 : NextOffset(k)' = NextOffset(k)
  BY <1>2, <1>7 DEF NextOffset
<1> HIDE DEF N
<1>12. NoLaterFunction'
  BY <1>1, <1>2, <1>7 DEF NoLaterFunction, N
<1>13. BodyLocals'
  <2> SUFFICES ASSUME NEW b \in 1 .. Len(m_scopes), m_scopes[b].by # "params",
                      NEW i \in m_scopes[b].mark + 1 .. N - 1
               PROVE  BodyLocal(i)'
    BY <1>2, <1>7 DEF BodyLocals
  <2>1. m_scopes[b].mark \in Nat
    BY <1>1, Typed DEF TypeShape, ScopeRec
  <2>2. i \in 1 .. N - 1 /\ i \in m_scopes[b].mark + 1 .. N
    BY <1>2, <2>1
  <2>3. BodyLocal(i)
    BY <1>1, <2>2 DEF BodyLocals, N
  <2> QED BY <1>2, <1>7, <2>2, <2>3 DEF BodyLocal
<1>14. SlotsContiguous'
  <2>1. \A i \in 1 .. N - 1 :
          locals'[i].fn = fn' => locals'[i].offset = NextOffset(i - 1)'
    BY <1>1, <1>2, <1>7, <1>11 DEF SlotsContiguous, N
  <2>2. \A k \in {N - 1} : NextOffset(k)' = m_OffsetFromBasePtr'
    BY <1>2, <1>9, <1>10, <1>11
  <2> QED BY <1>2, <2>1, <2>2 DEF SlotsContiguous
<1>15. SlotsBelowOffset'
  BY <1>1, <1>2, <1>5, <1>7, <1>9 DEF SlotsBelowOffset, SlotsOrdered, N
<1>16. SlotsOrdered'
  BY <1>1, <1>2, <1>7 DEF SlotsOrdered, N
<1>17. OffsetInFrame'
  BY <1>1, <1>2, <1>3, <1>6, <1>7 DEF OffsetInFrame, Running, N
<1> QED BY <1>12, <1>13, <1>14, <1>15, <1>16, <1>17 DEF Layout

(* Opening a scope.                                                        *)
LEMMA OpenedLayout ==
  ASSUME IInv, NEW opener \in Openers, push_scope(opener), Running,
         depth' \in Int, depth' >= depth,
         UNCHANGED <<locals, m_OffsetFromBasePtr, functions>>
  PROVE  Layout'
<1>1. /\ Len(m_scopes') = Len(m_scopes) + 1
      /\ \A i \in 1 .. Len(m_scopes) : m_scopes'[i] = m_scopes[i]
      /\ m_scopes'[Len(m_scopes) + 1] = [by |-> opener, mark |-> Len(locals)]
  BY ScopePushed DEF IInv, TypeShape
<1>2. Len(m_scopes) \in Nat
  BY Typed DEF IInv, TypeShape
<1>3. m_scopes'[Len(m_scopes) + 1].mark = Len(locals)
  BY <1>1
<1>4. \A b \in 1 .. Len(m_scopes') :
        \/ b \in 1 .. Len(m_scopes) /\ m_scopes'[b] = m_scopes[b]
        \/ m_scopes'[b].mark = Len(locals)
  BY <1>1, <1>2, <1>3
<1>5. fn' = fn /\ Len(m_scopes') \in Nat
  BY <1>1, <1>2 DEF fn
<1> QED BY <1>4, <1>5, SameLocalsLayout

(* Popping a scope whose variables are gone.                               *)
LEMMA ClosedLayout ==
  ASSUME IInv, Body, m_scopes' = DropLast(m_scopes),
         UNCHANGED <<locals, m_OffsetFromBasePtr, depth, functions>>
  PROVE  Layout'
<1>1. /\ Len(m_scopes') = Len(m_scopes) - 1
      /\ \A i \in 1 .. Len(m_scopes) - 1 : m_scopes'[i] = m_scopes[i]
      /\ Len(m_scopes) \in Nat /\ Len(m_scopes) > 0
  BY TopOfBody, ScopeDropped, Typed DEF IInv, TypeShape
<1>2. \A b \in 1 .. Len(m_scopes') :
        b \in 1 .. Len(m_scopes) /\ m_scopes'[b] = m_scopes[b]
  BY <1>1
<1>3. fn' = fn /\ Len(m_scopes') \in Nat
  BY <1>1 DEF fn
<1>4. Running /\ depth' \in Int /\ depth' >= depth
  BY DEF Body, Running, IInv, TypeShape, TypeOK
<1> QED BY <1>2, <1>3, <1>4, SameLocalsLayout

(* Steps that change neither the scopes nor the locals.                    *)
LEMMA QuietLayout ==
  ASSUME IInv, UNCHANGED <<m_scopes, locals, m_OffsetFromBasePtr>>, fn' = fn,
         \/ UNCHANGED depth /\ (Running' => Running)
         \/ depth' \in Int /\ ~Running'
  PROVE  Layout'
<1>1. /\ Len(m_scopes') \in Nat /\ depth \in Int
      /\ \A b \in 1 .. Len(m_scopes') :
           b \in 1 .. Len(m_scopes) /\ m_scopes'[b] = m_scopes[b]
  BY Typed DEF IInv, TypeShape, TypeOK
<1> QED BY <1>1, SameLocalsLayout

LEMMA NextLayout ==
  ASSUME PodLocals, IInv, Next
  PROVE  Layout'
<1> USE DEF IInv
<1>0. depth \in Int /\ TypeShape' /\ depth' \in Int
  BY NextTypes DEF TypeShape, TypeOK
<1>1. ASSUME NEW k \in Kinds, NEW r \in {"void"} \cup ParamTypes, BeginFunction(k, r)
      PROVE  Layout'
  BY <1>1, BeginLayout
<1>2. ASSUME phase \in {"this", "params"},
             NEW n \in SlotNames, NEW t \in SlotTypes, NEW size \in Nat,
             Argument(n, t, size)
      PROVE  Layout'
  <2>1. /\ \A b \in 1 .. Len(m_scopes) : m_scopes[b].by = "params"
        /\ fn >= 1 /\ Running
    BY <1>2 DEF TypeShape, ScopeShape, Running
  <2>2. fn' = fn
    <3>1. functions \in Seq(FnRec)
      BY Typed DEF TypeShape
    <3>2. functions' = [functions EXCEPT ![fn].params = functions[fn].params + 1]
      BY <1>2 DEF Argument
    <3>3. DOMAIN functions' = DOMAIN functions
      BY <3>2
    <3>4. functions' \in Seq(FnRec)
      BY <1>0, Typed DEF TypeShape, TypeOK
    <3> QED BY <3>1, <3>3, <3>4, LenProperties DEF fn
  <2> QED BY <1>2, <2>1, <2>2, DeclaredLayout DEF Argument
<1>3. CASE DeclareThis
  <2>1. "this" \in SlotNames /\ "handle" \in SlotTypes /\ SlotSize \in Nat
    BY FrameAssumption DEF SlotNames, SlotTypes
  <2> QED BY <1>2, <1>3, <2>1 DEF DeclareThis
<1>4. ASSUME NEW n \in Names, NEW t \in ParamTypes, DeclareParam(n, t)
      PROVE  Layout'
  <2>1. n \in SlotNames /\ t \in SlotTypes /\ Size[t] \in Nat
    BY FrameAssumption DEF SlotNames, SlotTypes
  <2> QED BY <1>2, <1>4, <2>1 DEF DeclareParam
<1>5. CASE BeginBody
  <2> DEFINE d == IF Kind = "ctor" THEN depth + SlotSize ELSE depth
  <2>1. d >= depth
    BY <1>0, FrameAssumption
  <2>2. phase = "params" /\ OpenBlock("function", d) /\ "function" \in Openers
    BY <1>5 DEF BeginBody, Openers
  <2> HIDE DEF d
  <2>3. depth' = d
    BY <2>2 DEF OpenBlock
  <2> QED BY <1>0, <2>1, <2>2, <2>3, OpenedLayout DEF OpenBlock, Running
<1>6. ASSUME NEW n \in Names, NEW t \in LocalTypes, NEW b \in BOOLEAN,
             DeclareLocal(n, t, b)
      PROVE  Layout'
  <2>1. /\ n \in SlotNames /\ t \in SlotTypes
        /\ Size[t] \in Nat /\ Size[t] < Half /\ Half \in Nat
    BY FrameAssumption DEF PodLocals, SlotNames, SlotTypes
  <2>2. Operand(-Size[t]) = -Size[t]
    BY <2>1, OperandFits
  <2>3. depth' = depth + Size[t]
    BY <1>0, <1>6, <2>1, <2>2 DEF DeclareLocal
  <2>4. /\ declareStackVar(n, t, Size[t]) /\ UNCHANGED m_scopes /\ fn' = fn
        /\ Running /\ fn >= 1
    BY <1>6 DEF DeclareLocal, AtStatement, Running, fn, TypeShape, ScopeShape
  <2> QED BY <2>1, <2>3, <2>4, DeclaredLayout
<1>7. ASSUME NEW n \in Names, DeclareVariant(n)
      PROVE  Layout'
  BY <1>7 DEF DeclareVariant, PodLocals
<1>8. ASSUME NEW n \in Names, RejectRedefinition(n)
      PROVE  Layout'
  BY <1>8, QuietLayout DEF RejectRedefinition, AtStatement, Running, fn
<1>9. CASE RejectStatement
  BY <1>9, QuietLayout DEF RejectStatement, AtStatement, Running, fn
<1>10. ASSUME NEW n \in Names, Crash(n)
       PROVE  Layout'
  BY <1>10, QuietLayout DEF Crash, AtStatement, Running, fn
<1>11. ASSUME NEW o \in {"branch", "while"}, OpenNested(o)
       PROVE  Layout'
  <2>1. OpenBlock(o, depth) /\ o \in Openers /\ Running /\ depth >= depth
    BY <1>0, <1>11 DEF OpenNested, Running, Openers
  <2> QED BY <1>0, <2>1, OpenedLayout DEF OpenBlock
<1>12. CASE OpenFor
  <2>1. push_scope("forscope") /\ "forscope" \in Openers /\ Running /\ depth' >= depth
    BY <1>0, <1>12 DEF OpenFor, Running, Openers
  <2> QED BY <1>0, <1>12, <2>1, OpenedLayout DEF OpenFor
<1>13. CASE OpenForBlock
  <2>1. OpenBlock("forblock", depth) /\ "forblock" \in Openers /\ Running
        /\ depth >= depth
    BY <1>0, <1>13 DEF OpenForBlock, Running, Openers
  <2> QED BY <1>0, <2>1, OpenedLayout DEF OpenBlock
<1>14. CASE CloseBlock
  BY <1>14, QuietLayout DEF CloseBlock, Running, fn
<1>15. CASE destructLocalVar
  BY <1>15, DestructLayout
<1>16. ASSUME NEW r \in BlockResults, PopBlock(r)
       PROVE  Layout'
  BY <1>16, ClosedLayout DEF PopBlock, Body
<1>17. CASE PopForScope
  BY <1>17, ClosedLayout DEF PopForScope, Body
<1>18. CASE PopAborted
  BY <1>18, ClosedLayout DEF PopAborted, Body
<1>19. CASE EndFunction
  <2>1. functions \in Seq(FnRec) /\ functions' \in Seq(FnRec)
    BY <1>0, Typed DEF TypeShape, TypeOK
  <2>2. functions' = [functions EXCEPT ![fn].finished = TRUE]
    BY <1>19 DEF EndFunction
  <2>3. DOMAIN functions' = DOMAIN functions
    BY <2>2
  <2>4. fn' = fn
    BY <2>1, <2>3, LenProperties DEF fn
  <2> QED BY <1>0, <1>19, <2>4, QuietLayout DEF EndFunction, Running
<1>20. CASE FreeFunction
  BY <1>20, QuietLayout DEF FreeFunction, Running, fn
<1> QED BY <1>1, <1>3, <1>4, <1>5, <1>6, <1>7, <1>8, <1>9, <1>10, <1>11, <1>12,
           <1>13, <1>14, <1>15, <1>16, <1>17, <1>18, <1>19, <1>20 DEF Next

LEMMA LayoutInvariant ==
  ASSUME PodLocals
  PROVE  Spec => []IInv
<1>1. Init => IInv
  <2> SUFFICES ASSUME Init PROVE Layout
    BY TypeShapeInit DEF IInv
  <2>1. Len(m_scopes) = 0 /\ Len(locals) = 0 /\ m_OffsetFromBasePtr = 0 /\ ~Running
    BY DEF Init, Running
  <2>2. NextOffset(Len(locals)) = 0
    BY <2>1 DEF NextOffset
  <2> QED BY <2>1, <2>2 DEF Layout, NoLaterFunction, BodyLocals, SlotsContiguous,
                            SlotsBelowOffset, SlotsOrdered, OffsetInFrame
<1>2. IInv /\ [Next]_vars => IInv'
  <2> SUFFICES ASSUME IInv, [Next]_vars
               PROVE  IInv'
    OBVIOUS
  <2>1. CASE Next
    BY <2>1, NextTypes, NextLayout DEF IInv
  <2>2. CASE UNCHANGED vars
    <3>1. TypeShape'
      BY <2>2, TypeShapeStutter DEF IInv
    <3>2. fn' = fn /\ UNCHANGED <<m_scopes, locals, m_OffsetFromBasePtr, depth>>
          /\ (Running' => Running)
      BY <2>2 DEF vars, fn, Running
    <3>3. Layout'
      BY <3>2, QuietLayout
    <3> QED BY <3>1, <3>3 DEF IInv
  <2> QED BY <2>1, <2>2
<1> QED BY <1>1, <1>2, PTL DEF Spec

(* Whatever blocks are nested and however they are left, the slots of the  *)
(* function being compiled have no gap and no overlap, and the next offset *)
(* is where the last slot ends: declareStackVar and destructLocalVar agree *)
(* on m_OffsetFromBasePtr, provided no local is native or "var".           *)
THEOREM FrameIsContiguous ==
  ASSUME PodLocals
  PROVE  Spec => []SlotsContiguous
<1>1. IInv => SlotsContiguous
  BY DEF IInv, Layout
<1> QED BY <1>1, LayoutInvariant, PTL

(* Under the same condition the stack pointer never sinks below a variable *)
(* in scope: what OP_MOV and OP_PUSHVAR reserve is what the offsets count. *)
THEOREM VariablesStayInFrame ==
  ASSUME PodLocals
  PROVE  Spec => []SlotsInFrame
<1>1. IInv => SlotsInFrame
  <2> SUFFICES ASSUME IInv, Running, NEW i \in 1 .. Len(locals), locals[i].fn = fn
               PROVE  SlotEnd(locals[i]) <= depth
    BY DEF SlotsInFrame
  <2>1. SlotEnd(locals[i]) <= m_OffsetFromBasePtr /\ m_OffsetFromBasePtr <= depth
    BY DEF IInv, Layout, SlotsBelowOffset, OffsetInFrame
  <2>2. /\ locals[i].offset \in Int /\ locals[i].size \in Nat
        /\ m_OffsetFromBasePtr \in Int /\ depth \in Int
    BY Typed DEF IInv, TypeShape, TypeOK, SlotRec
  <2> QED BY <2>1, <2>2 DEF SlotEnd
<1> QED BY <1>1, LayoutInvariant, PTL

(***************************************************************************)
(* What is left behind: the scopes and the locals that remain when a       *)
(* function has been compiled, the stack pointer when its code has run,    *)
(* and the debug canaries.  This holds for every set of names and types    *)
(* and every source program, whatever the types of the locals: the storage *)
(* of native variables is given back too.                                  *)
(***************************************************************************)

(* No local is larger than an operand can say.  The storage of "var" has   *)
(* no operand: OP_PUSHVAR and OP_POPVAR know its size.                     *)
OperandsFit == \A t \in LocalTypes \ {Var} : Size[t] < Half

(* Every statement compiles, and the result emitBlock never writes happens *)
(* to say so.                                                              *)
Compiles == ~Failures /\ "aborted" \notin BlockResults

-----------------------------------------------------------------------------
(* The steps of the compiler inside a body, by what they do to the stacks. *)

Quiet ==
  /\ Body /\ phase' \in {"block", "forbody", "unwind", "abort", "crashed"}
  /\ UNCHANGED <<m_scopes, locals, depth, canary, leaked, functions>>

Opens(opener) ==
  /\ Body /\ phase' \in {"block", "forinit"}
  /\ opener \notin {"params", "function"}
  /\ push_scope(opener)
  /\ canary' = IF opener = "forscope" THEN canary ELSE Append(canary, depth)
  /\ UNCHANGED <<locals, depth, leaked, functions>>

Declares(n, t) ==
  /\ Body /\ phase' \in {"block", "forbody", "abort"}
  /\ declareStackVar(n, t, Size[t])
  /\ OperandsFit => depth' = depth + Size[t]
  /\ UNCHANGED <<m_scopes, canary, leaked, functions>>

Pops ==
  /\ Body /\ ScopeEmpty
  /\ m_scopes' = DropLast(m_scopes)
  /\ phase' \in IF TopScope.by = "function" THEN {"release", "idle"}
                ELSE {"block", "unwind", "abort"}
  /\ IF phase = "abort" \/ TopScope.by = "forscope"
     THEN UNCHANGED <<canary, leaked>> ELSE CanaryEnd
  /\ UNCHANGED <<locals, depth, functions>>

(* A declared local moves the stack pointer up by its size.                *)
LEMMA Reserved ==
  ASSUME TypeShape, NEW n \in Names, NEW t \in LocalTypes, NEW b \in BOOLEAN,
         DeclareLocal(n, t, b)
  PROVE  Declares(n, t)
<1>1. Body /\ phase' \in {"block", "forbody", "abort"}
  BY DEF DeclareLocal, AtStatement, AfterAbort, AfterDecl, Body
<1>2. /\ declareStackVar(n, t, Size[t])
      /\ UNCHANGED <<m_scopes, canary, leaked, functions>>
      /\ depth' = depth - Operand(-Size[t])
      /\ t # Var
  BY DEF DeclareLocal
<1>3. ASSUME OperandsFit PROVE depth' = depth + Size[t]
  <2>1. Size[t] \in Nat /\ Size[t] < Half /\ Half \in Nat
    BY <1>2, <1>3, FrameAssumption DEF OperandsFit
  <2>2. Operand(-Size[t]) = -Size[t]
    BY <2>1, OperandFits
  <2> QED BY <1>2, <2>1, <2>2 DEF TypeShape, TypeOK
<1> QED BY <1>1, <1>2, <1>3 DEF Declares

(* Every step is one of these, an argument, or one end of a function.      *)
LEMMA Steps ==
  ASSUME TypeShape, Next
  PROVE  \/ \E k \in Kinds, r \in {"void"} \cup ParamTypes : BeginFunction(k, r)
         \/ FreeFunction
         \/ DeclareThis
         \/ \E n \in Names, t \in ParamTypes : DeclareParam(n, t)
         \/ BeginBody
         \/ Quiet
         \/ \E o \in Openers : Opens(o)
         \/ \E n \in Names, t \in LocalTypes : Declares(n, t)
         \/ destructLocalVar
         \/ Pops
         \/ EndFunction
<1>1. ASSUME NEW n \in Names, NEW t \in LocalTypes, NEW b \in BOOLEAN,
             DeclareLocal(n, t, b)
      PROVE  Declares(n, t)
  BY <1>1, Reserved
<1>2. ASSUME NEW n \in Names, DeclareVariant(n)
      PROVE  Var \in LocalTypes /\ Declares(n, Var)
  BY <1>2 DEF DeclareVariant, Declares, AtStatement, AfterDecl, Body
<1>3. ASSUME NEW n \in Names, RejectRedefinition(n) \/ Crash(n)
      PROVE  Quiet
  BY <1>3 DEF RejectRedefinition, Crash, Quiet, AtStatement, AfterAbort, Body
<1>4. CASE RejectStatement \/ CloseBlock
  <2>1. Quiet
    BY <1>4 DEF RejectStatement, CloseBlock, Quiet, AtStatement, AfterAbort, Body
  <2> QED BY <2>1
<1>5. ASSUME NEW o \in {"branch", "while"}, OpenNested(o)
      PROVE  o \in Openers /\ Opens(o)
  BY <1>5 DEF OpenNested, OpenBlock, Opens, Openers, Body
<1>6. CASE OpenFor
  <2>1. "forscope" \in Openers /\ Opens("forscope")
    BY <1>6 DEF OpenFor, Opens, Openers, Body
  <2> QED BY <2>1
<1>7. CASE OpenForBlock
  <2>1. "forblock" \in Openers /\ Opens("forblock")
    BY <1>7 DEF OpenForBlock, OpenBlock, Opens, Openers, Body
  <2> QED BY <2>1
<1>8. ASSUME NEW r \in BlockResults, PopBlock(r)
      PROVE  Pops
  BY <1>8 DEF PopBlock, Pops, AfterBlock, Body
<1>9. CASE PopForScope
  <2>1. Pops
    BY <1>9 DEF PopForScope, Pops, Body
  <2> QED BY <2>1
<1>10. CASE PopAborted
  <2>1. Pops
    BY <1>10 DEF PopAborted, Pops, AfterBlock, Body
  <2> QED BY <2>1
<1> QED BY <1>1, <1>2, <1>3, <1>4, <1>5, <1>6, <1>7, <1>8, <1>9, <1>10 DEF Next

-----------------------------------------------------------------------------
(* What remains of a function on m_scopes.                                 *)

(* The locals of function f among the n oldest.                            *)
DeclaredBy(f, n) == {i \in 1 .. n : locals[i].fn = f}

(* Its result and its parameters.                                          *)
Own(f) == functions[f].params + (IF functions[f].result = "void" THEN 0 ELSE 1)

(* Where the locals of the body start.                                     *)
BodyStart == IF Body THEN m_scopes[fn + 1].mark ELSE Len(locals)

(* One scope per function that was begun; below the mark of the body lie   *)
(* the results and the parameters of all of them and nothing else.         *)
Remain ==
  /\ NoLaterFunction
  /\ phase \in {"idle", "this", "params", "release"} => Len(m_scopes) = fn
  /\ Body => BodyScope(fn + 1)
  /\ phase # "crashed" =>
       \A f \in 1 .. fn : Cardinality(DeclaredBy(f, BodyStart)) = Own(f)

(* The locals of a function are finitely many, and one more when one more  *)
(* is its own.                                                             *)
LEMMA DeclaredFinite ==
  ASSUME NEW n \in Nat, NEW f
  PROVE  IsFiniteSet(DeclaredBy(f, n)) /\ n + 1 \notin DeclaredBy(f, n)
<1>1. IsFiniteSet(1 .. n)
  BY FS_Interval
<1>2. DeclaredBy(f, n) \subseteq 1 .. n
  BY DEF DeclaredBy
<1> QED BY <1>1, <1>2, FS_Subset

LEMMA SameDeclared ==
  ASSUME NEW n \in Nat, NEW f,
         \A i \in 1 .. n : locals'[i].fn = locals[i].fn
  PROVE  DeclaredBy(f, n)' = DeclaredBy(f, n)
BY DEF DeclaredBy

LEMMA OneMoreDeclared ==
  ASSUME NEW n \in Nat, NEW f, NEW g,
         \A i \in 1 .. n : locals'[i].fn = locals[i].fn,
         locals'[n + 1].fn = g
  PROVE  Cardinality(DeclaredBy(f, n + 1)') =
           Cardinality(DeclaredBy(f, n)) + (IF f = g THEN 1 ELSE 0)
<1>1. IsFiniteSet(DeclaredBy(f, n)) /\ n + 1 \notin DeclaredBy(f, n)
  BY DeclaredFinite
<1>2. CASE f = g
  <2>1. DeclaredBy(f, n + 1)' = DeclaredBy(f, n) \cup {n + 1}
    BY <1>2 DEF DeclaredBy
  <2> QED BY <1>1, <1>2, <2>1, FS_AddElement
<1>3. CASE f # g
  <2>1. DeclaredBy(f, n + 1)' = DeclaredBy(f, n)
    BY <1>3 DEF DeclaredBy
  <2>2. Cardinality(DeclaredBy(f, n)) \in Nat
    BY <1>1, FS_CardinalityType
  <2> QED BY <1>3, <2>1, <2>2
<1> QED BY <1>2, <1>3

(* The body's scope is the one above the parameters' scopes.               *)
LEMMA TheBody ==
  ASSUME TypeShape, Remain, Body
  PROVE  /\ fn \in Nat /\ fn >= 1
         /\ fn + 1 \in 1 .. Len(m_scopes) /\ Len(m_scopes) \in Nat
         /\ BodyStart = m_scopes[fn + 1].mark
         /\ BodyStart \in Nat /\ BodyStart <= Len(locals)
         /\ TopScope = m_scopes[Len(m_scopes)]
         /\ (TopScope.by = "function") <=> (Len(m_scopes) = fn + 1)
         /\ BodyStart <= TopScope.mark
<1>1. /\ fn \in Nat /\ Len(m_scopes) \in Nat
      /\ \A i \in 1 .. Len(m_scopes) : m_scopes[i] \in ScopeRec
  BY Typed DEF TypeShape
<1>2. BodyScope(fn + 1) /\ fn >= 1
  BY DEF Remain, TypeShape, ScopeShape, Body
<1>3. fn + 1 \in 1 .. Len(m_scopes) /\ BodyStart = m_scopes[fn + 1].mark
  BY <1>2 DEF BodyScope, BodyStart
<1>4. BodyStart \in Nat /\ BodyStart <= Len(locals)
  BY <1>1, <1>3 DEF TypeShape, ScopeShape, ScopeRec
<1>5. TopScope = m_scopes[Len(m_scopes)]
  BY DEF TopScope, Last
<1>6. (TopScope.by = "function") <=> (Len(m_scopes) = fn + 1)
  BY <1>1, <1>2, <1>3, <1>5 DEF BodyScope
<1>7. BodyStart <= TopScope.mark
  BY <1>1, <1>3, <1>5 DEF TypeShape, ScopeShape
<1> QED BY <1>1, <1>2, <1>3, <1>4, <1>5, <1>6, <1>7

(* A new function starts with its result, which nothing declared before.   *)
LEMMA BeginRemains ==
  ASSUME TypeShape, Remain, NEW k \in Kinds, NEW r \in {"void"} \cup ParamTypes,
         BeginFunction(k, r)
  PROVE  Remain'
<1>1. /\ fn \in Nat /\ Len(locals) \in Nat /\ Len(m_scopes) = fn
      /\ NoLaterFunction /\ ~Body
      /\ functions \in Seq(FnRec) /\ locals \in Seq(SlotRec)
      /\ \A i \in 1 .. Len(locals) : locals[i].fn \in Nat
  BY Typed DEF TypeShape, Remain, BeginFunction, Body, SlotRec
<1> DEFINE f0 == [kind |-> k, result |-> r, params |-> 0,
                  m_compiled |-> TRUE, finished |-> FALSE]
<1>2. /\ fn' = fn + 1
      /\ \A f \in 1 .. fn : functions'[f] = functions[f]
      /\ functions'[fn + 1].params = 0 /\ functions'[fn + 1].result = r
  <2>1. f0 \in FnRec
    BY FrameAssumption DEF FnRec
  <2>2. functions' = Append(functions, f0)
    BY DEF BeginFunction
  <2>3. f0.params = 0 /\ f0.result = r
    OBVIOUS
  <2> HIDE DEF f0
  <2> QED BY <1>1, <2>1, <2>2, <2>3, AppendProperties DEF fn
<1>3. push_scope("params") /\ "params" \in Openers /\ ~Body'
  BY DEF BeginFunction, Openers, Body
<1>4. Len(m_scopes') = fn'
  BY <1>1, <1>2, <1>3, ScopePushed DEF TypeShape
<1>5. BodyStart = Len(locals) /\ BodyStart' = Len(locals')
  BY <1>1, <1>3 DEF BodyStart
<1>6. \A f \in 1 .. fn : Own(f)' = Own(f)
  BY <1>2 DEF Own
<1>7. \A f \in 1 .. fn : Cardinality(DeclaredBy(f, Len(locals))) = Own(f)
  BY <1>5 DEF Remain, BeginFunction
<1>8. PICK n \in Nat : n = Len(locals)
  BY <1>1
<1>9. PICK g \in Nat : g = fn + 1
  BY <1>1
<1>10. Own(g)' = IF r = "void" THEN 0 ELSE 1
  BY <1>2, <1>9 DEF Own
<1>11. Cardinality(DeclaredBy(g, n)) = 0
  <2>1. DeclaredBy(g, n) = {}
    BY <1>1, <1>8, <1>9 DEF DeclaredBy, NoLaterFunction
  <2> QED BY <2>1, FS_EmptySet
<1>12. CASE r = "void"
  <2>1. locals' = locals
    BY <1>12 DEF BeginFunction
  <2>2. NoLaterFunction'
    BY <1>1, <1>2, <2>1 DEF NoLaterFunction
  <2>3. \A f : DeclaredBy(f, n)' = DeclaredBy(f, n)
    BY <2>1 DEF DeclaredBy
  <2>4. Cardinality(DeclaredBy(g, n)') = 0
    BY <1>11, <2>3
  <2>5. \A f \in 1 .. fn : Cardinality(DeclaredBy(f, n)') = Own(f)'
    BY <1>6, <1>7, <1>8, <2>3
  <2>6. ASSUME NEW f \in 1 .. fn' PROVE Cardinality(DeclaredBy(f, n)') = Own(f)'
    <3>1. f \in 1 .. fn \/ f = g
      BY <1>1, <1>2, <1>9
    <3>2. CASE f = g
      BY <1>10, <1>12, <2>4, <3>2
    <3> QED BY <2>5, <3>1, <3>2
  <2> QED BY <1>3, <1>4, <1>5, <1>8, <2>1, <2>2, <2>6 DEF Remain
<1>13. CASE r # "void"
  <2> DEFINE l == Slot("__ret", r, Size[r], 0, 0, fn + 1)
  <2>1. l \in SlotRec /\ l.fn = g
    BY <1>1, <1>9, <1>13, FrameAssumption DEF Slot, SlotRec, SlotNames, SlotTypes
  <2>2. locals' = Append(locals, l)
    BY <1>13 DEF BeginFunction
  <2> HIDE DEF l
  <2>3. /\ Len(locals') = n + 1
        /\ \A i \in 1 .. n : locals'[i] = locals[i]
        /\ locals'[n + 1].fn = g
    BY <1>1, <1>8, <2>1, <2>2, AppendProperties
  <2>4. NoLaterFunction'
    BY <1>1, <1>2, <1>8, <1>9, <2>3 DEF NoLaterFunction
  <2>5. \A f : Cardinality(DeclaredBy(f, n + 1)') =
                 Cardinality(DeclaredBy(f, n)) + (IF f = g THEN 1 ELSE 0)
    BY <2>3, OneMoreDeclared
  <2>6. Cardinality(DeclaredBy(g, n + 1)') = 1
    BY <1>11, <2>5
  <2>7. \A f \in 1 .. fn : Cardinality(DeclaredBy(f, n + 1)') = Own(f)'
    <3> SUFFICES ASSUME NEW f \in 1 .. fn
                 PROVE  Cardinality(DeclaredBy(f, n + 1)') = Own(f)'
      OBVIOUS
    <3>1. f # g /\ IsFiniteSet(DeclaredBy(f, n))
      BY <1>1, <1>9, DeclaredFinite
    <3>2. Cardinality(DeclaredBy(f, n)) \in Nat
      BY <3>1, FS_CardinalityType
    <3>3. Cardinality(DeclaredBy(f, n)) = Own(f)'
      BY <1>6, <1>7, <1>8
    <3> QED BY <2>5, <3>1, <3>2, <3>3
  <2>8. ASSUME NEW f \in 1 .. fn' PROVE Cardinality(DeclaredBy(f, n + 1)') = Own(f)'
    <3>1. f \in 1 .. fn \/ f = g
      BY <1>1, <1>2, <1>9
    <3>2. CASE f = g
      BY <1>10, <1>13, <2>6, <3>2
    <3> QED BY <2>7, <3>1, <3>2
  <2> QED BY <1>3, <1>4, <1>5, <2>3, <2>4, <2>8 DEF Remain
<1> QED BY <1>12, <1>13

(* One more parameter, one more local of the function.                     *)
LEMMA ArgumentRemains ==
  ASSUME TypeShape, Remain, phase \in {"this", "params"},
         NEW n \in SlotNames, NEW t \in SlotTypes, NEW size \in Nat,
         Argument(n, t, size)
  PROVE  /\ fn' = fn
         /\ \A f \in 1 .. fn : /\ functions'[f].result = functions[f].result
                               /\ functions'[f].kind = functions[f].kind
                               /\ functions'[f].finished = functions[f].finished
         /\ functions'[fn].params = functions[fn].params + 1
         /\ Remain'
<1>1. /\ declareStackVar(n, t, size) /\ m_scopes' = m_scopes
      /\ functions' = [functions EXCEPT ![fn].params = @ + 1]
      /\ phase' = "params" /\ ~Body /\ ~Body'
  BY DEF Argument, Body
<1>2. /\ fn \in Nat /\ fn >= 1 /\ functions \in Seq(FnRec)
      /\ Len(locals) \in Nat
      /\ \A f \in 1 .. fn : functions[f] \in FnRec
      /\ \A i \in 1 .. Len(locals) : locals[i].fn \in Nat
  BY Typed DEF TypeShape, ScopeShape, SlotRec
<1>3. DOMAIN functions = 1 .. fn
  BY <1>2 DEF fn
<1>4. TypeShape'
  BY ArgumentTypes
<1>5. functions' \in Seq(FnRec)
  BY <1>4, Typed DEF TypeShape, TypeOK
<1>6. fn' = fn
  BY <1>1, <1>2, <1>5, LenProperties DEF fn
<1>7. \A f \in 1 .. fn : /\ functions'[f].result = functions[f].result
                         /\ functions'[f].kind = functions[f].kind
                         /\ functions'[f].finished = functions[f].finished
                         /\ f # fn => functions'[f].params = functions[f].params
  BY <1>1, <1>2, <1>3 DEF FnRec
<1>8. functions'[fn].params = functions[fn].params + 1
  BY <1>1, <1>2, <1>3 DEF FnRec
<1>9. PICK m \in Nat : m = Len(locals)
  BY <1>2
<1>10. PICK g \in Nat : g = fn
  BY <1>2
<1>11. /\ Len(locals') = m + 1
       /\ \A i \in 1 .. m : locals'[i] = locals[i]
       /\ locals'[m + 1].fn = g
  <2>1. locals'[m + 1] = Slot(n, t, size, m_OffsetFromBasePtr, depth, fn)
    BY <1>1, <1>9, LocalDeclared DEF TypeShape
  <2>2. locals'[m + 1].fn = g
    BY <1>10, <2>1 DEF Slot
  <2> QED BY <1>1, <1>9, <2>2, LocalDeclared DEF TypeShape
<1>12. NoLaterFunction'
  BY <1>2, <1>6, <1>9, <1>10, <1>11 DEF Remain, NoLaterFunction
<1>13. \A f \in 1 .. fn : Cardinality(DeclaredBy(f, m)) = Own(f)
  BY <1>1, <1>9 DEF Remain, BodyStart
<1>14. \A f : Cardinality(DeclaredBy(f, m + 1)') =
                Cardinality(DeclaredBy(f, m)) + (IF f = g THEN 1 ELSE 0)
  BY <1>11, OneMoreDeclared
<1>15. \A f \in 1 .. fn : Own(f)' = Own(f) + (IF f = g THEN 1 ELSE 0)
  BY <1>2, <1>7, <1>8, <1>10 DEF Own, FnRec
<1>16. \A f \in 1 .. fn' : Cardinality(DeclaredBy(f, m + 1)') = Own(f)'
  BY <1>6, <1>13, <1>14, <1>15
<1>17. BodyStart' = m + 1
  BY <1>1, <1>11 DEF BodyStart
<1>18. Remain'
  BY <1>1, <1>6, <1>12, <1>16, <1>17 DEF Remain
<1> QED BY <1>6, <1>7, <1>8, <1>18

(* Steps that keep the functions and every local of a parameter scope.     *)
LEMMA BelowBodyRemains ==
  ASSUME TypeShape, Remain, NEW n \in Nat, n = BodyStart, n = BodyStart',
         phase # "crashed", fn' = fn,
         \A f \in 1 .. fn : Own(f)' = Own(f),
         \A i \in 1 .. n : locals'[i].fn = locals[i].fn,
         NoLaterFunction',
         phase' \in {"idle", "this", "params", "release"} => Len(m_scopes') = fn,
         Body' => BodyScope(fn + 1)'
  PROVE  Remain'
<1>1. \A f \in 1 .. fn : Cardinality(DeclaredBy(f, n)) = Own(f)
  BY DEF Remain
<1>2. \A f : DeclaredBy(f, n)' = DeclaredBy(f, n)
  BY SameDeclared
<1>3. \A f \in 1 .. fn' : Cardinality(DeclaredBy(f, n)') = Own(f)'
  BY <1>1, <1>2
<1>4. \A f \in 1 .. fn' : Cardinality(DeclaredBy(f, BodyStart)') = Own(f)'
  BY <1>3
<1> QED BY <1>4 DEF Remain
LEMMA NextRemains ==
  ASSUME TypeShape, Remain, Next
  PROVE  Remain'
<1>1. /\ fn \in Nat /\ Len(locals) \in Nat /\ Len(m_scopes) \in Nat
      /\ functions \in Seq(FnRec)
      /\ \A i \in 1 .. Len(m_scopes) : m_scopes[i] \in ScopeRec
      /\ \A f \in 1 .. fn : functions[f] \in FnRec
      /\ NoLaterFunction
  BY Typed DEF TypeShape, Remain
<1>2. ASSUME NEW k \in Kinds, NEW r \in {"void"} \cup ParamTypes, BeginFunction(k, r)
      PROVE  Remain'
  BY <1>2, BeginRemains
<1>3. CASE FreeFunction
  BY <1>1, <1>3 DEF FreeFunction, Remain, Body, NoLaterFunction, fn
<1>4. CASE DeclareThis
  <2>1. "this" \in SlotNames /\ "handle" \in SlotTypes /\ SlotSize \in Nat
    BY FrameAssumption DEF SlotNames, SlotTypes
  <2> QED BY <1>4, <2>1, ArgumentRemains DEF DeclareThis
<1>5. ASSUME NEW n \in Names, NEW t \in ParamTypes, DeclareParam(n, t)
      PROVE  Remain'
  <2>1. n \in SlotNames /\ t \in SlotTypes /\ Size[t] \in Nat
    BY FrameAssumption DEF SlotNames, SlotTypes
  <2> QED BY <1>5, <2>1, ArgumentRemains DEF DeclareParam
<1>6. CASE BeginBody
  <2>1. /\ phase = "params" /\ phase' = "block" /\ ~Body /\ Body'
        /\ push_scope("function") /\ "function" \in Openers
        /\ UNCHANGED <<locals, functions>>
    BY <1>6 DEF BeginBody, OpenBlock, Openers, Body
  <2>2. /\ fn' = fn /\ Len(m_scopes) = fn
        /\ \A i \in 1 .. fn : m_scopes[i].by = "params"
    BY <2>1 DEF Remain, fn, TypeShape, ScopeShape
  <2>3. /\ Len(m_scopes') = fn + 1
        /\ \A i \in 1 .. fn : m_scopes'[i].by = "params"
        /\ m_scopes'[fn + 1].by = "function"
        /\ m_scopes'[fn + 1].mark = Len(locals)
    <3>1. m_scopes'[fn + 1] = [by |-> "function", mark |-> Len(locals)]
      BY <2>1, <2>2, ScopePushed DEF TypeShape
    <3> QED BY <2>1, <2>2, <3>1, ScopePushed DEF TypeShape
  <2>4. PICK g \in Nat : g = fn
    BY <1>1
  <2>5. BodyScope(g + 1)'
    BY <2>3, <2>4 DEF BodyScope
  <2>6. PICK n \in Nat : n = Len(locals)
    BY <1>1
  <2>7. n = BodyStart /\ n = BodyStart'
    BY <2>1, <2>2, <2>3, <2>6 DEF BodyStart
  <2>8. NoLaterFunction' /\ \A f \in 1 .. fn : Own(f)' = Own(f)
    BY <1>1, <2>1, <2>2 DEF NoLaterFunction, Own
  <2>9. BodyScope(fn + 1)'
    BY <2>2, <2>4, <2>5
  <2> QED BY <2>1, <2>2, <2>7, <2>8, <2>9, BelowBodyRemains
<1>7. ASSUME Body, fn' = fn, UNCHANGED functions, NoLaterFunction',
             NEW n \in Nat, n = m_scopes[fn + 1].mark,
             \A i \in 1 .. n : locals'[i].fn = locals[i].fn,
             Body', BodyScope(fn + 1)', m_scopes'[fn + 1] = m_scopes[fn + 1]
      PROVE  Remain'
  <2>1. BodyStart = n /\ BodyStart' = n
    BY <1>7 DEF BodyStart
  <2>2. \A f \in 1 .. fn : Own(f)' = Own(f)
    BY <1>7 DEF Own
  <2>3. phase # "crashed" /\ phase' \notin {"idle", "this", "params", "release"}
    BY <1>7 DEF Body
  <2> QED BY <1>7, <2>1, <2>2, <2>3, BelowBodyRemains
<1>8. ASSUME Body
      PROVE  /\ fn + 1 \in 1 .. Len(m_scopes)
             /\ m_scopes[fn + 1].mark \in Nat
             /\ m_scopes[fn + 1].mark <= Len(locals)
             /\ BodyScope(fn + 1)
  BY <1>1, <1>8 DEF Remain, BodyScope, TypeShape, ScopeShape, ScopeRec
<1>9. CASE Quiet
  <2>1. fn' = fn /\ NoLaterFunction'
    BY <1>1, <1>9 DEF Quiet, fn, NoLaterFunction
  <2>2. CASE Body'
    <3>1. BodyScope(fn + 1)'
      BY <1>8, <1>9, <2>1 DEF Quiet, BodyScope
    <3> QED BY <1>7, <1>8, <1>9, <2>1, <2>2, <3>1 DEF Quiet
  <2>3. CASE ~Body'
    BY <1>9, <2>1, <2>3 DEF Quiet, Remain, Body
  <2> QED BY <2>2, <2>3
<1>10. ASSUME NEW o \in Openers, Opens(o)
       PROVE  Remain'
  <2>1. /\ Len(m_scopes') = Len(m_scopes) + 1
        /\ \A i \in 1 .. Len(m_scopes) : m_scopes'[i] = m_scopes[i]
        /\ m_scopes'[Len(m_scopes) + 1].by = o
    <3>1. m_scopes'[Len(m_scopes) + 1] = [by |-> o, mark |-> Len(locals)]
      BY <1>10, ScopePushed DEF Opens, TypeShape
    <3> QED BY <1>10, <3>1, ScopePushed DEF Opens, TypeShape
  <2>2. fn' = fn /\ NoLaterFunction' /\ Body' /\ Body
    BY <1>1, <1>10 DEF Opens, fn, NoLaterFunction, Body
  <2>3. BodyScope(fn + 1)'
    <3>1. PICK g \in Nat : g = fn
      BY <1>1
    <3>2. PICK m \in Nat : m = Len(m_scopes)
      BY <1>1
    <3>3. BodyScope(g + 1)
      BY <1>8, <2>2, <3>1
    <3>4. /\ g + 1 \in 1 .. m /\ m_scopes[g + 1].by = "function"
          /\ \A i \in 1 .. g : m_scopes[i].by = "params"
          /\ \A i \in g + 2 .. m : m_scopes[i].by \notin {"params", "function"}
      BY <3>2, <3>3 DEF BodyScope
    <3>5. /\ Len(m_scopes') = m + 1 /\ m_scopes'[m + 1].by \notin {"params", "function"}
          /\ \A i \in 1 .. m : m_scopes'[i] = m_scopes[i]
      BY <1>10, <2>1, <3>2 DEF Opens
    <3>6. \A i \in g + 2 .. m + 1 : m_scopes'[i].by \notin {"params", "function"}
      BY <3>4, <3>5
    <3>7. /\ g + 1 \in 1 .. m + 1 /\ m_scopes'[g + 1].by = "function"
          /\ \A i \in 1 .. g : m_scopes'[i].by = "params"
      BY <3>4, <3>5
    <3>8. BodyScope(g + 1)'
      BY <3>5, <3>6, <3>7 DEF BodyScope
    <3> QED BY <2>2, <3>1, <3>8
  <2> QED BY <1>7, <1>8, <1>10, <2>1, <2>2, <2>3 DEF Opens
<1>11. ASSUME NEW n \in Names, NEW t \in LocalTypes, Declares(n, t)
       PROVE  Remain'
  <2>1. n \in SlotNames /\ t \in SlotTypes /\ Size[t] \in Nat
    BY FrameAssumption DEF SlotNames, SlotTypes
  <2>2. /\ Len(locals') = Len(locals) + 1
        /\ \A i \in 1 .. Len(locals) : locals'[i] = locals[i]
        /\ locals'[Len(locals) + 1].fn = fn
    <3>1. locals'[Len(locals) + 1] = Slot(n, t, Size[t], m_OffsetFromBasePtr, depth, fn)
      BY <1>11, <2>1, LocalDeclared DEF Declares, TypeShape
    <3> QED BY <1>11, <2>1, <3>1, LocalDeclared DEF Declares, TypeShape, Slot
  <2>3. fn' = fn /\ Body' /\ Body
    BY <1>11 DEF Declares, fn, Body
  <2>4. NoLaterFunction'
    BY <1>1, <2>2, <2>3 DEF NoLaterFunction
  <2>5. BodyScope(fn + 1)'
    BY <1>8, <1>11, <2>3 DEF Declares, BodyScope
  <2>6. \A i \in 1 .. m_scopes[fn + 1].mark : locals'[i].fn = locals[i].fn
    BY <1>1, <1>8, <2>2, <2>3
  <2> QED BY <1>7, <1>8, <1>11, <2>3, <2>4, <2>5, <2>6 DEF Declares
<1>12. CASE destructLocalVar
  <2>1. Body /\ Body' /\ fn' = fn /\ UNCHANGED <<m_scopes, functions>>
        /\ Len(locals) > TopScope.mark
    BY <1>12 DEF destructLocalVar, Body, fn
  <2>2. /\ Len(locals') = Len(locals) - 1
        /\ \A i \in 1 .. Len(locals) - 1 : locals'[i] = locals[i]
    BY <1>12, Destructed
  <2>3. m_scopes[fn + 1].mark <= Len(locals) - 1
    BY <1>1, <2>1, TheBody, TopOfBody DEF TypeShape, ScopeRec
  <2>4. NoLaterFunction'
    BY <1>1, <2>1, <2>2 DEF NoLaterFunction
  <2>5. BodyScope(fn + 1)'
    BY <1>8, <2>1 DEF BodyScope
  <2>6. \A i \in 1 .. m_scopes[fn + 1].mark : locals'[i].fn = locals[i].fn
    BY <1>1, <1>8, <2>1, <2>2, <2>3, SMTT(20)
  <2> QED BY <1>7, <1>8, <2>1, <2>4, <2>5, <2>6
<1>13. CASE Pops
  <2>1. Body /\ fn' = fn /\ UNCHANGED <<locals, functions>> /\ NoLaterFunction'
    BY <1>1, <1>13 DEF Pops, fn, NoLaterFunction
  <2>2. /\ Len(m_scopes') = Len(m_scopes) - 1
        /\ \A i \in 1 .. Len(m_scopes) - 1 : m_scopes'[i] = m_scopes[i]
    BY <1>13, TopOfBody, ScopeDropped DEF Pops, TypeShape
  <2>3. (TopScope.by = "function") <=> (Len(m_scopes) = fn + 1)
    BY <2>1, TheBody
  <2>4. CASE TopScope.by = "function"
    <3>1. phase' \in {"release", "idle"} /\ ~Body' /\ Len(m_scopes') = fn
      BY <1>1, <1>13, <2>2, <2>3, <2>4 DEF Pops, Body
    <3>2. BodyStart = Len(locals) /\ BodyStart' = Len(locals)
      BY <1>13, <2>1, <2>3, <2>4, <3>1, TheBody DEF Pops, ScopeEmpty, BodyStart
    <3>3. \A f \in 1 .. fn : Own(f)' = Own(f)
      BY <2>1 DEF Own
    <3>4. phase # "crashed" /\ \A i \in 1 .. Len(locals) : locals'[i].fn = locals[i].fn
      BY <2>1 DEF Body
    <3> QED BY <1>1, <2>1, <3>1, <3>2, <3>3, <3>4, BelowBodyRemains
  <2>5. CASE TopScope.by # "function"
    <3>1. Body' /\ fn + 1 <= Len(m_scopes) - 1
      BY <1>1, <1>8, <1>13, <2>1, <2>3, <2>5 DEF Pops, Body
    <3>2. BodyScope(fn + 1)'
      <4>1. PICK g \in Nat : g = fn
        BY <1>1
      <4>2. PICK m \in Nat : m = Len(m_scopes) - 1
        BY <1>1, <1>8, <2>1
      <4>3. BodyScope(g + 1) /\ g + 1 <= m
        BY <1>8, <2>1, <3>1, <4>1, <4>2
      <4>4. /\ m_scopes[g + 1].by = "function"
            /\ \A i \in 1 .. g : m_scopes[i].by = "params"
            /\ \A i \in g + 2 .. m : m_scopes[i].by \notin {"params", "function"}
        BY <1>1, <4>2, <4>3 DEF BodyScope
      <4>5. Len(m_scopes') = m /\ \A i \in 1 .. m : m_scopes'[i] = m_scopes[i]
        BY <2>2, <4>2
      <4>6. /\ g + 1 \in 1 .. m /\ m_scopes'[g + 1].by = "function"
            /\ \A i \in 1 .. g : m_scopes'[i].by = "params"
        BY <4>3, <4>4, <4>5
      <4>7. \A i \in g + 2 .. m : m_scopes'[i].by \notin {"params", "function"}
        BY <4>4, <4>5
      <4>8. BodyScope(g + 1)'
        BY <4>5, <4>6, <4>7 DEF BodyScope
      <4> QED BY <2>1, <4>1, <4>8
    <3> QED BY <1>1, <1>7, <1>8, <2>1, <2>2, <3>1, <3>2
  <2> QED BY <2>4, <2>5
<1>14. CASE EndFunction
  <2>1. /\ functions' = [functions EXCEPT ![fn].finished = TRUE]
        /\ UNCHANGED <<m_scopes, locals>> /\ phase = "release" /\ phase' = "idle"
        /\ ~Body /\ ~Body'
    BY <1>14 DEF EndFunction, Body
  <2>2. functions' \in Seq(FnRec)
    BY <1>14, EndTypes DEF TypeShape, TypeOK
  <2>3. DOMAIN functions' = DOMAIN functions
    BY <2>1
  <2>4. fn' = fn
    BY <1>1, <2>2, <2>3, LenProperties DEF fn
  <2>5. \A f \in 1 .. fn : /\ functions'[f].params = functions[f].params
                           /\ functions'[f].result = functions[f].result
    BY <1>1, <2>1 DEF FnRec, fn
  <2>6. \A f \in 1 .. fn : Own(f)' = Own(f)
    BY <2>5 DEF Own
  <2>7. BodyStart = Len(locals) /\ BodyStart' = Len(locals)
    BY <2>1 DEF BodyStart
  <2>8. NoLaterFunction' /\ Len(m_scopes') = fn
    BY <1>1, <2>1, <2>4 DEF NoLaterFunction, Remain
  <2> QED BY <1>1, <2>1, <2>4, <2>6, <2>7, <2>8, BelowBodyRemains
<1> QED BY <1>2, <1>3, <1>4, <1>5, <1>6, <1>9, <1>10, <1>11, <1>12, <1>13, <1>14, Steps

LEMMA RemainStutters == Remain /\ UNCHANGED vars => Remain'
BY DEF Remain, vars, NoLaterFunction, BodyScope, Body, BodyStart, DeclaredBy, Own, fn

LEMMA RemainInvariant == Spec => [](TypeShape /\ Remain)
<1>1. Init => Remain
  BY DEF Init, Remain, NoLaterFunction, Body, fn
<1>2. TypeShape /\ Remain /\ [Next]_vars => (TypeShape /\ Remain)'
  BY NextTypes, TypeShapeStutter, NextRemains, RemainStutters
<1> QED BY TypeShapeInit, <1>1, <1>2, PTL DEF Spec

(* However the blocks of a function are nested and whichever statement     *)
(* fails to compile, pop_scope runs for each of them: between two          *)
(* functions m_scopes holds one scope per function begun so far, with its  *)
(* result and its parameters, and no local of any body.                    *)
THEOREM ScopesUnwound == Spec => []OnlyParametersRemain
<1>1. TypeShape /\ Remain => OnlyParametersRemain
  <2> SUFFICES ASSUME TypeShape, Remain, phase = "idle"
               PROVE  /\ Len(m_scopes) = fn
                      /\ \A i \in 1 .. Len(m_scopes) : m_scopes[i].by = "params"
                      /\ \A f \in 1 .. fn :
                           Cardinality(DeclaredBy(f, Len(locals))) = Own(f)
    BY DEF OnlyParametersRemain, DeclaredBy, Own
  <2>1. BodyStart = Len(locals)
    BY DEF BodyStart, Body
  <2> QED BY <2>1 DEF Remain, TypeShape, ScopeShape
<1> QED BY <1>1, RemainInvariant, PTL
-----------------------------------------------------------------------------
(* What the locals do to the stack pointer.                                *)

(* The depth of the stack when the i oldest locals were there and no more. *)
DepthAt(i) == IF i < Len(locals) THEN locals[i + 1].at ELSE depth

(* The storage of a local of the body begins where the stack ended, and    *)
(* its type says how much of it there is.                                  *)
Stored(i) ==
  /\ locals[i].type \in LocalTypes
  /\ locals[i].size = Size[locals[i].type]
  /\ DepthAt(i) = locals[i].at + locals[i].size

Kept == (OperandsFit /\ Body) => \A i \in BodyStart + 1 .. Len(locals) : Stored(i)

StackInv == TypeShape /\ Remain /\ Kept

LEMMA StackTyped ==
  ASSUME StackInv
  PROVE  /\ fn \in Nat /\ Len(locals) \in Nat /\ Len(m_scopes) \in Nat
         /\ \A i \in 1 .. Len(m_scopes) :
              /\ m_scopes[i] \in ScopeRec
              /\ m_scopes[i].mark \in Nat /\ m_scopes[i].mark <= Len(locals)
         /\ depth \in Int
         /\ \A i \in 0 .. Len(locals) : DepthAt(i) \in Int
<1>1. /\ fn \in Nat /\ Len(locals) \in Nat /\ Len(m_scopes) \in Nat
      /\ \A i \in 1 .. Len(m_scopes) : m_scopes[i] \in ScopeRec
      /\ \A i \in 1 .. Len(locals) : locals[i].at \in Int
      /\ depth \in Int
  BY Typed DEF StackInv, TypeShape, TypeOK, SlotRec
<1>2. \A i \in 0 .. Len(locals) : DepthAt(i) \in Int
  BY <1>1 DEF DepthAt
<1>3. \A i \in 1 .. Len(m_scopes) : m_scopes[i].mark <= Len(locals)
  BY DEF StackInv, TypeShape, ScopeShape
<1> QED BY <1>1, <1>2, <1>3 DEF ScopeRec

(* Inside a body every step is one of five.                                *)
LEMMA BodySteps ==
  ASSUME TypeShape, Next, Body
  PROVE  \/ Quiet
         \/ \E o \in Openers : Opens(o)
         \/ \E n \in Names, t \in LocalTypes : Declares(n, t)
         \/ destructLocalVar
         \/ Pops
<1>1. phase \notin {"idle", "this", "params", "release"}
  BY DEF Body
<1> QED BY <1>1, Steps DEF BeginFunction, FreeFunction, DeclareThis, DeclareParam,
                           BeginBody, EndFunction

(* As long as the compiler stays in the body, the body starts where it did. *)
LEMMA BodyStays ==
  ASSUME StackInv, Next, Body, Body'
  PROVE  /\ fn' = fn /\ functions' = functions
         /\ m_scopes'[fn + 1] = m_scopes[fn + 1]
         /\ BodyStart' = BodyStart
<1>1. /\ fn + 1 \in 1 .. Len(m_scopes) /\ Len(m_scopes) \in Nat /\ fn \in Nat
      /\ (TopScope.by = "function") <=> (Len(m_scopes) = fn + 1)
  BY TheBody DEF StackInv
<1>2. functions' = functions /\ m_scopes'[fn + 1] = m_scopes[fn + 1]
  <2>1. CASE Quiet
    BY <2>1 DEF Quiet
  <2>2. ASSUME NEW o \in Openers, Opens(o)
        PROVE  functions' = functions /\ m_scopes'[fn + 1] = m_scopes[fn + 1]
    BY <1>1, <2>2, ScopePushed DEF Opens, StackInv, TypeShape
  <2>3. ASSUME NEW n \in Names, NEW t \in LocalTypes, Declares(n, t)
        PROVE  functions' = functions /\ m_scopes'[fn + 1] = m_scopes[fn + 1]
    BY <2>3 DEF Declares
  <2>4. CASE destructLocalVar
    BY <2>4 DEF destructLocalVar
  <2>5. CASE Pops
    <3>1. TopScope.by # "function"
      BY <2>5 DEF Pops, Body
    <3>2. fn + 1 \in 1 .. Len(m_scopes) - 1
      BY <1>1, <3>1
    <3> QED BY <1>1, <2>5, <3>2, ScopeDropped DEF Pops, StackInv, TypeShape
  <2> QED BY <2>1, <2>2, <2>3, <2>4, <2>5, BodySteps DEF StackInv
<1>3. fn' = fn
  BY <1>2 DEF fn
<1> QED BY <1>2, <1>3 DEF BodyStart

(* A new local changes none of the depths below it.                        *)
LEMMA DeclaredDepths ==
  ASSUME TypeShape, NEW n \in Names, NEW t \in LocalTypes, Declares(n, t)
  PROVE  /\ Len(locals') = Len(locals) + 1
         /\ \A i \in 1 .. Len(locals) : locals'[i] = locals[i]
         /\ locals'[Len(locals) + 1] = Slot(n, t, Size[t], m_OffsetFromBasePtr, depth, fn)
         /\ \A i \in 0 .. Len(locals) : DepthAt(i)' = DepthAt(i)
<1>1. n \in SlotNames /\ t \in SlotTypes /\ Size[t] \in Nat /\ Len(locals) \in Nat
  BY FrameAssumption, Typed DEF SlotNames, SlotTypes, TypeShape
<1>2. /\ Len(locals') = Len(locals) + 1
      /\ \A i \in 1 .. Len(locals) : locals'[i] = locals[i]
      /\ locals'[Len(locals) + 1] = Slot(n, t, Size[t], m_OffsetFromBasePtr, depth, fn)
  BY <1>1, LocalDeclared DEF Declares, TypeShape
<1>3. locals'[Len(locals) + 1].at = depth
  BY <1>2 DEF Slot
<1>4. \A i \in 0 .. Len(locals) : DepthAt(i)' = DepthAt(i)
  BY <1>1, <1>2, <1>3 DEF DepthAt
<1> QED BY <1>2, <1>4

(* destructLocalVar gives back exactly the storage of the last local.      *)
LEMMA DestructedDepths ==
  ASSUME OperandsFit, StackInv, destructLocalVar
  PROVE  /\ Len(locals') = Len(locals) - 1
         /\ \A i \in 1 .. Len(locals) - 1 : locals'[i] = locals[i]
         /\ \A i \in 0 .. Len(locals) - 1 : DepthAt(i)' = DepthAt(i)
<1> DEFINE N == Len(locals)
<1>1. /\ N > 0 /\ N \in Nat
      /\ Last(locals) = locals[N]
      /\ Len(locals') = N - 1
      /\ \A i \in 1 .. N - 1 : locals'[i] = locals[i]
  BY Destructed, StackTyped DEF StackInv
<1>2. Stored(N)
  <2>1. Body /\ N > TopScope.mark
    BY DEF destructLocalVar, Body
  <2>2. BodyStart \in Nat /\ BodyStart <= TopScope.mark /\ TopScope.mark \in Nat
    BY <2>1, TheBody, TopOfBody DEF StackInv, TypeShape, ScopeRec
  <2>3. N \in BodyStart + 1 .. N
    BY <1>1, <2>1, <2>2
  <2> QED BY <2>1, <2>3 DEF StackInv, Kept
<1>3. /\ locals[N].type \in LocalTypes /\ locals[N].size = Size[locals[N].type]
      /\ depth = locals[N].at + locals[N].size
  BY <1>1, <1>2 DEF Stored, DepthAt
<1>4. locals[N].size \in Nat /\ locals[N].at \in Int
  BY <1>1, Typed, SMTT(20) DEF StackInv, TypeShape, SlotRec
<1>5. depth' = depth - locals[N].size
  <2>1. CASE locals[N].type = Var
    BY <1>1, <2>1 DEF destructLocalVar
  <2>2. CASE locals[N].type # Var
    <3>1. locals[N].size < Half /\ Half \in Nat
      BY <1>3, <2>2, FrameAssumption DEF OperandsFit
    <3>2. Operand(locals[N].size) = locals[N].size
      BY <1>4, <3>1, OperandFits
    <3> QED BY <1>1, <2>2, <3>2 DEF destructLocalVar
  <2> QED BY <2>1, <2>2
<1>6. depth' = locals[N].at
  BY <1>3, <1>4, <1>5
<1> HIDE DEF N
<1>7. ASSUME NEW i \in 0 .. N - 1
      PROVE  DepthAt(i)' = DepthAt(i)
  <2>1. DepthAt(i) = locals[i + 1].at
    BY <1>1 DEF DepthAt, N
  <2>2. CASE i < N - 1
    BY <1>1, <2>1, <2>2 DEF DepthAt
  <2>3. CASE i = N - 1
    BY <1>1, <1>6, <2>1, <2>3 DEF DepthAt
  <2> QED BY <1>1, <2>2, <2>3
<1> QED BY <1>1, <1>7 DEF N

LEMMA NextKept ==
  ASSUME StackInv, Next
  PROVE  Kept'
<1> SUFFICES ASSUME OperandsFit, Body'
             PROVE  \A i \in BodyStart' + 1 .. Len(locals') : Stored(i)'
  BY DEF Kept
<1>1. Len(locals) \in Nat /\ fn \in Nat
  BY StackTyped
<1>2. CASE ~Body
  <2>1. BeginBody
    BY <1>2, Steps DEF StackInv, BeginFunction, FreeFunction, DeclareThis, DeclareParam,
       Argument, Quiet, Opens, Declares, destructLocalVar, Pops, EndFunction, Body
  <2>2. phase = "params" /\ push_scope("function") /\ UNCHANGED <<locals, functions>>
    BY <2>1 DEF BeginBody, OpenBlock
  <2>3. Len(m_scopes) = fn /\ fn' = fn
    BY <2>2 DEF StackInv, Remain, fn
  <2>4. m_scopes'[fn + 1] = [by |-> "function", mark |-> Len(locals)]
    BY <2>2, <2>3, ScopePushed DEF StackInv, TypeShape, Openers
  <2>5. BodyStart' = Len(locals')
    BY <2>2, <2>3, <2>4 DEF BodyStart
  <2> QED BY <1>1, <2>2, <2>5
<1>3. CASE Body
  <2>1. PICK m \in Nat : m = BodyStart /\ m = BodyStart'
    BY <1>3, BodyStays, TheBody DEF StackInv
  <2>2. \A i \in m + 1 .. Len(locals) : Stored(i)
    BY <1>3, <2>1 DEF StackInv, Kept
  <2>3. SUFFICES ASSUME NEW i \in m + 1 .. Len(locals')
                 PROVE  Stored(i)'
    BY <2>1
  <2>4. CASE UNCHANGED <<locals, depth>>
    <3>1. Stored(i)
      BY <2>2, <2>4
    <3> QED BY <2>4, <3>1 DEF Stored, DepthAt
  <2>5. ASSUME NEW n \in Names, NEW t \in LocalTypes, Declares(n, t)
        PROVE  Stored(i)'
    <3>1. /\ Len(locals') = Len(locals) + 1
          /\ \A j \in 1 .. Len(locals) : locals'[j] = locals[j]
          /\ locals'[Len(locals) + 1] = Slot(n, t, Size[t], m_OffsetFromBasePtr, depth, fn)
          /\ \A j \in 0 .. Len(locals) : DepthAt(j)' = DepthAt(j)
      BY <2>5, DeclaredDepths DEF StackInv
    <3>2. CASE i <= Len(locals)
      <4>1. i \in m + 1 .. Len(locals) /\ i \in 1 .. Len(locals) /\ i \in 0 .. Len(locals)
        BY <1>1, <3>1, <3>2
      <4>2. Stored(i) /\ locals'[i] = locals[i] /\ DepthAt(i)' = DepthAt(i)
        BY <2>2, <3>1, <4>1
      <4> QED BY <4>2 DEF Stored
    <3>3. CASE i > Len(locals)
      <4>1. i = Len(locals')
        BY <1>1, <3>1, <3>3
      <4>2. DepthAt(i)' = depth'
        BY <1>1, <3>1, <4>1 DEF DepthAt
      <4>3. /\ locals'[i].type = t /\ locals'[i].size = Size[t]
            /\ locals'[i].at = depth
        BY <1>1, <3>1, <4>1 DEF Slot
      <4>4. depth' = depth + Size[t]
        BY <2>5 DEF Declares
      <4> QED BY <4>2, <4>3, <4>4 DEF Stored
    <3> QED BY <1>1, <3>1, <3>2, <3>3
  <2>6. CASE destructLocalVar
    <3>1. /\ Len(locals') = Len(locals) - 1
          /\ \A j \in 1 .. Len(locals) - 1 : locals'[j] = locals[j]
          /\ \A j \in 0 .. Len(locals) - 1 : DepthAt(j)' = DepthAt(j)
      BY <2>6, DestructedDepths
    <3>2. i \in m + 1 .. Len(locals) /\ i \in 1 .. Len(locals) - 1
      BY <1>1, <3>1
    <3>3. Stored(i) /\ locals'[i] = locals[i] /\ DepthAt(i)' = DepthAt(i)
      BY <1>1, <2>2, <3>1, <3>2
    <3> QED BY <3>3 DEF Stored
  <2> QED BY <1>3, <2>4, <2>5, <2>6, BodySteps DEF StackInv, Quiet, Opens, Pops
<1> QED BY <1>2, <1>3

LEMMA KeptStutters == Kept /\ UNCHANGED vars => Kept'
BY DEF Kept, vars, Body, BodyStart, Stored, DepthAt, fn

LEMMA StackInvariant == Spec => []StackInv
<1>1. Init => Kept
  BY DEF Init, Kept, Body
<1>2. StackInv /\ [Next]_vars => Kept'
  BY NextKept, KeptStutters DEF StackInv
<1>3. TypeShape /\ Remain /\ Kept <=> StackInv
  BY DEF StackInv
<1> QED BY RemainInvariant, <1>1, <1>2, <1>3, PTL DEF Spec
-----------------------------------------------------------------------------
(* What the caller finds on the stack.                                     *)

(* An argument takes one RzStackValue, as releaseParametersContext counts, *)
(* and the operand of OP_FREE can say them all.                            *)
ArgumentsFit ==
  /\ \A t \in ParamTypes : Size[t] = SlotSize
  /\ SlotSize * (MaxLocals + 1) < Half

(* What BeginFunction and the arguments put on the stack, and with "this"  *)
(* what a constructor leaves.                                              *)
Passed == ResultSize(functions[fn].result) + SlotSize * functions[fn].params
This   == IF Kind = "ctor" THEN SlotSize ELSE 0

(* The body finds the arguments on the stack, and leaves them there.       *)
Released ==
  /\ phase = "this" => functions[fn].params = 0
  /\ phase \in {"this", "params"} =>
       depth = Passed /\ functions[fn].params <= Len(locals)
  /\ (Body \/ phase = "release") => DepthAt(BodyStart) = Passed + This
  /\ phase \notin {"idle", "crashed"} =>
       functions[fn].params <= MaxLocals + 1 /\ ~functions[fn].finished
  /\ ArgumentsReleased

(* The numbers Released speaks of.                                         *)
LEMMA PassedInt ==
  ASSUME StackInv, fn >= 1
  PROVE  /\ functions[fn] \in FnRec /\ functions[fn].params \in Nat
         /\ ResultSize(functions[fn].result) \in Nat
         /\ SlotSize * functions[fn].params \in Nat
         /\ Passed \in Int /\ This \in Int
<1>1. functions[fn] \in FnRec
  BY Typed DEF StackInv, TypeShape
<1>2. functions[fn].params \in Nat /\ functions[fn].result \in Types \cup {"void"}
  BY <1>1 DEF FnRec
<1>3. ResultSize(functions[fn].result) \in Nat
  BY <1>2, FrameAssumption DEF ResultSize
<1>4. SlotSize * functions[fn].params \in Nat
  BY <1>2, FrameAssumption
<1>5. This \in Int
  BY FrameAssumption DEF This
<1> QED BY <1>1, <1>2, <1>3, <1>4, <1>5 DEF Passed

(* Passing one argument more.                                              *)
LEMMA ArgumentReleases ==
  ASSUME StackInv, Released, phase \in {"this", "params"},
         NEW n \in SlotNames, NEW t \in SlotTypes, Argument(n, t, SlotSize),
         functions[fn].params <= MaxLocals
  PROVE  Released'
<1>1. SlotSize \in Nat /\ MaxLocals \in Nat
  BY FrameAssumption
<1>2. /\ fn' = fn
      /\ functions'[fn].result = functions[fn].result
      /\ functions'[fn].finished = functions[fn].finished
      /\ functions'[fn].params = functions[fn].params + 1
      /\ fn \in Nat /\ fn >= 1
  <2>1. fn \in Nat /\ fn >= 1 /\ fn \in 1 .. fn
    BY StackTyped DEF StackInv, TypeShape, ScopeShape
  <2> QED BY <1>1, <2>1, ArgumentRemains DEF StackInv
<1>3. /\ depth' = depth + SlotSize /\ phase' = "params" /\ ~Body'
      /\ Len(locals') = Len(locals) + 1
  BY <1>1, LocalDeclared DEF Argument, StackInv, TypeShape, Body
<1>4. /\ functions[fn].params \in Nat /\ SlotSize * functions[fn].params \in Nat
      /\ ResultSize(functions[fn].result) \in Nat
      /\ Len(locals) \in Nat
  BY <1>2, PassedInt, StackTyped
<1>5. SlotSize * (functions[fn].params + 1) = SlotSize * functions[fn].params + SlotSize
  BY <1>1, <1>4
<1>6. Passed' = Passed + SlotSize
  BY <1>1, <1>2, <1>4, <1>5 DEF Passed
<1>7. depth = Passed /\ functions[fn].params <= Len(locals) /\ ~functions[fn].finished
  BY DEF Released
<1>8. functions'[fn].params <= Len(locals') /\ functions'[fn].params <= MaxLocals + 1
  BY <1>1, <1>2, <1>3, <1>4, <1>7, SMTT(20)
<1> QED BY <1>2, <1>3, <1>6, <1>7, <1>8 DEF Released, ArgumentsReleased

(* Inside the body: whatever is pushed and given back, the arguments stay. *)
LEMMA BodyReleases ==
  ASSUME OperandsFit, StackInv, Released, Body, Next
  PROVE  Released'
<1>1. /\ Len(locals) \in Nat /\ fn \in Nat /\ fn >= 1
      /\ BodyStart \in Nat /\ BodyStart <= Len(locals)
      /\ BodyStart <= TopScope.mark
      /\ (TopScope.by = "function") <=> (Len(m_scopes) = fn + 1)
  BY TheBody, StackTyped DEF StackInv
<1>2. /\ DepthAt(BodyStart) = Passed + This
      /\ functions[fn].params <= MaxLocals + 1 /\ ~functions[fn].finished
  BY DEF Released, Body
<1>3. functions' = functions /\ fn' = fn
  <2>1. functions' = functions
    BY BodySteps DEF StackInv, Quiet, Opens, Declares, destructLocalVar, Pops
  <2> QED BY <2>1 DEF fn
<1>4. Passed' = Passed /\ This' = This
  BY <1>3 DEF Passed, This, Kind
<1>5. phase' \notin {"this", "params"}
  BY BodySteps DEF StackInv, Quiet, Opens, Declares, destructLocalVar, Pops
<1>6. ArgumentsReleased'
  BY <1>2, <1>3 DEF ArgumentsReleased
<1>7. CASE Body'
  <2>1. PICK m \in Nat : m = BodyStart /\ m = BodyStart'
    BY <1>1, <1>7, BodyStays
  <2>2. DepthAt(m)' = DepthAt(m)
    <3>1. ASSUME NEW n \in Names, NEW t \in LocalTypes, Declares(n, t)
          PROVE  DepthAt(m)' = DepthAt(m)
      BY <1>1, <2>1, <3>1, DeclaredDepths DEF StackInv
    <3>2. CASE destructLocalVar
      <4>1. m <= Len(locals) - 1
        BY <1>1, <2>1, <3>2, TopOfBody DEF destructLocalVar, StackInv, TypeShape, ScopeRec
      <4> QED BY <1>1, <3>2, <4>1, DestructedDepths
    <3>3. CASE UNCHANGED <<locals, depth>>
      BY <3>3 DEF DepthAt
    <3> QED BY <3>1, <3>2, <3>3, BodySteps DEF StackInv, Quiet, Opens, Pops
  <2>3. DepthAt(BodyStart)' = Passed' + This'
    BY <1>2, <1>4, <2>1, <2>2
  <2> QED BY <1>2, <1>3, <1>5, <1>6, <1>7, <2>3 DEF Released, Body
<1>8. CASE ~Body' /\ phase' = "release"
  <2>1. Pops
    BY <1>8, BodySteps DEF StackInv, Quiet, Opens, Declares, destructLocalVar, Body
  <2>2. TopScope.by = "function" /\ ScopeEmpty /\ UNCHANGED <<locals, depth>>
    BY <1>8, <2>1 DEF Pops
  <2>3. BodyStart = Len(locals)
    BY <1>1, <2>2, TheBody DEF ScopeEmpty, StackInv
  <2>4. BodyStart' = Len(locals)
    BY <1>8, <2>2 DEF BodyStart
  <2>5. PICK m \in Nat : m = BodyStart /\ m = BodyStart'
    BY <1>1, <2>3, <2>4
  <2>6. DepthAt(m)' = DepthAt(m)
    BY <2>2 DEF DepthAt
  <2>7. DepthAt(BodyStart)' = Passed' + This'
    BY <1>2, <1>4, <2>5, <2>6
  <2> QED BY <1>2, <1>3, <1>5, <1>6, <1>8, <2>7 DEF Released
<1>9. CASE ~Body' /\ phase' # "release"
  <2>1. phase' \in {"idle", "crashed"}
    BY <1>9, BodySteps
       DEF StackInv, Quiet, Opens, Declares, destructLocalVar, Pops, Body
  <2> QED BY <1>6, <1>9, <2>1 DEF Released
<1> QED BY <1>7, <1>8, <1>9

LEMMA NextReleases ==
  ASSUME OperandsFit, ArgumentsFit, StackInv, Released, Next
  PROVE  Released'
<1>1. /\ fn \in Nat /\ Len(locals) \in Nat /\ depth \in Int
      /\ SlotSize \in Nat /\ MaxLocals \in Nat /\ Half \in Nat
      /\ functions \in Seq(FnRec)
  BY StackTyped, Typed, FrameAssumption DEF StackInv, TypeShape
<1>2. ASSUME NEW k \in Kinds, NEW r \in {"void"} \cup ParamTypes, BeginFunction(k, r)
      PROVE  Released'
  <2> DEFINE f0 == [kind |-> k, result |-> r, params |-> 0,
                    m_compiled |-> TRUE, finished |-> FALSE]
  <2>1. f0 \in FnRec
    BY FrameAssumption DEF FnRec
  <2>2. functions' = Append(functions, f0)
    BY <1>2 DEF BeginFunction
  <2>3. f0.params = 0 /\ f0.result = r /\ f0.finished = FALSE
    OBVIOUS
  <2> HIDE DEF f0
  <2>4. functions'[fn + 1] = f0 /\ fn' = fn + 1
    BY <1>1, <2>1, <2>2, AppendProperties DEF fn
  <2>5. ResultSize(r) \in Nat
    BY FrameAssumption DEF ResultSize
  <2>6. depth' = Passed'
    <3>1. functions'[fn'].result = r /\ functions'[fn'].params = 0
      BY <2>3, <2>4
    <3>2. depth' = ResultSize(r)
      BY <1>2 DEF BeginFunction
    <3>3. SlotSize * 0 = 0
      BY <1>1
    <3>4. Passed' = ResultSize(r) + SlotSize * 0
      BY <3>1 DEF Passed, ResultSize
    <3> QED BY <2>5, <3>2, <3>3, <3>4
  <2>7. phase' \in {"this", "params"} /\ ~Body'
    BY <1>2 DEF BeginFunction, Body
  <2>8. Len(locals') \in Nat
    BY <1>2, BeginTypes, LenProperties DEF StackInv, TypeShape, TypeOK
  <2>9. functions'[fn'].params <= Len(locals') /\ functions'[fn'].params <= MaxLocals + 1
    BY <1>1, <2>3, <2>4, <2>8
  <2> QED BY <2>3, <2>4, <2>6, <2>7, <2>9 DEF Released, ArgumentsReleased
<1>3. CASE FreeFunction
  BY <1>3 DEF FreeFunction, Released, ArgumentsReleased, Body
<1>4. CASE DeclareThis
  <2>1. "this" \in SlotNames /\ "handle" \in SlotTypes
    BY DEF SlotNames, SlotTypes
  <2>2. functions[fn].params <= MaxLocals
    BY <1>1, <1>4 DEF DeclareThis, Released
  <2> QED BY <1>4, <2>1, <2>2, ArgumentReleases DEF DeclareThis
<1>5. ASSUME NEW n \in Names, NEW t \in ParamTypes, DeclareParam(n, t)
      PROVE  Released'
  <2>1. n \in SlotNames /\ t \in SlotTypes /\ Size[t] = SlotSize
    BY FrameAssumption DEF SlotNames, SlotTypes, ArgumentsFit
  <2>2. functions[fn].params \in Nat
    BY <1>5, PassedInt DEF DeclareParam, StackInv, TypeShape, ScopeShape
  <2>3. functions[fn].params <= MaxLocals
    BY <1>1, <1>5, <2>2 DEF DeclareParam, CanDeclare, Released
  <2> QED BY <1>5, <2>1, <2>3, ArgumentReleases DEF DeclareParam
<1>6. CASE BeginBody
  <2>1. /\ phase = "params" /\ phase' = "block" /\ push_scope("function")
        /\ UNCHANGED <<locals, functions>> /\ Body' /\ ~Body
        /\ depth' = IF Kind = "ctor" THEN depth + SlotSize ELSE depth
    BY <1>6 DEF BeginBody, OpenBlock, Body
  <2>2. Len(m_scopes) = fn /\ fn' = fn
    BY <2>1 DEF StackInv, Remain, fn
  <2>3. m_scopes'[fn + 1] = [by |-> "function", mark |-> Len(locals)]
    BY <2>1, <2>2, ScopePushed DEF StackInv, TypeShape, Openers
  <2>4. PICK m \in Nat : m = Len(locals) /\ m = BodyStart'
    BY <1>1, <2>1, <2>2, <2>3 DEF BodyStart
  <2>5. DepthAt(m)' = depth'
    BY <2>1, <2>4 DEF DepthAt
  <2>6. DepthAt(BodyStart)' = depth'
    BY <2>4, <2>5
  <2>7. Passed' = Passed /\ This' = This
    BY <2>1, <2>2 DEF Passed, This, Kind
  <2>8. depth = Passed /\ depth' = depth + This
    BY <1>1, <2>1 DEF Released, This
  <2> QED BY <2>1, <2>2, <2>6, <2>7, <2>8 DEF Released, ArgumentsReleased, Body
<1>7. CASE Body
  BY <1>7, BodyReleases
<1>8. CASE EndFunction
  <2>1. /\ functions' = [functions EXCEPT ![fn].finished = TRUE]
        /\ phase = "release" /\ phase' = "idle" /\ ~Body'
        /\ depth' = depth - Operand(SlotSize * functions[fn].params)
        /\ fn >= 1
    BY <1>8 DEF EndFunction, Body, StackInv, TypeShape, ScopeShape
  <2>2. functions' \in Seq(FnRec) /\ DOMAIN functions' = DOMAIN functions
    BY <1>8, <2>1, EndTypes DEF StackInv, TypeShape, TypeOK
  <2>3. fn' = fn
    BY <1>1, <2>2, LenProperties DEF fn
  <2>4. functions'[fn].result = functions[fn].result
        /\ functions'[fn].kind = functions[fn].kind
    BY <1>1, <2>1 DEF FnRec, fn
  <2>5. /\ functions[fn].params \in Nat /\ SlotSize * functions[fn].params \in Nat
        /\ ResultSize(functions[fn].result) \in Nat /\ This \in Int
    BY <2>1, PassedInt
  <2>6. SlotSize * functions[fn].params <= SlotSize * (MaxLocals + 1)
    <3>1. functions[fn].params <= MaxLocals + 1
      BY <2>1 DEF Released
    <3>2. \A a, b, c \in Nat : a <= b => c * a <= c * b
      OBVIOUS
    <3> QED BY <1>1, <2>5, <3>1, <3>2
  <2>7. SlotSize * (MaxLocals + 1) \in Nat /\ SlotSize * (MaxLocals + 1) < Half
    BY <1>1 DEF ArgumentsFit
  <2>8. Operand(SlotSize * functions[fn].params) = SlotSize * functions[fn].params
    BY <1>1, <2>5, <2>6, <2>7, OperandFits
  <2>9. depth = Passed + This
    <3>1. BodyStart = Len(locals) /\ DepthAt(BodyStart) = Passed + This
      BY <2>1 DEF Released, BodyStart, Body
    <3> QED BY <1>1, <3>1 DEF DepthAt
  <2>10. depth' = ResultSize(functions[fn].result) + This
    BY <2>1, <2>5, <2>8, <2>9 DEF Passed
  <2>11. ArgumentsReleased'
    BY <2>3, <2>4, <2>10 DEF ArgumentsReleased, This, Kind
  <2> QED BY <2>1, <2>11 DEF Released
<1> QED BY <1>2, <1>3, <1>4, <1>5, <1>6, <1>7, <1>8, Steps
        DEF StackInv, Quiet, Opens, Declares, destructLocalVar, Pops, Body

(* The code of a function that compiled to its end gives back exactly what *)
(* its caller pushed: the stack pointer is where it was when the frame was *)
(* made plus the result, and a constructor also leaves the "this" that     *)
(* emitConstructorInjection pushed.  This holds for blocks nested in any   *)
(* way, for locals of any type, and also when statements inside a loop's   *)
(* block were given up.                                                    *)
THEOREM CallerFindsResult ==
  ASSUME OperandsFit, ArgumentsFit
  PROVE  Spec => []ArgumentsReleased
<1>1. Init => Released
  BY DEF Init, Released, ArgumentsReleased, Body, fn
<1>2. StackInv /\ Released /\ [Next]_vars => Released'
  <2> SUFFICES ASSUME StackInv, Released, [Next]_vars PROVE Released'
    OBVIOUS
  <2>1. CASE UNCHANGED vars
    BY <2>1 DEF vars, Released, ArgumentsReleased, Body, BodyStart, DepthAt, Passed,
                This, Kind, fn
  <2> QED BY <2>1, NextReleases
<1>3. Released => ArgumentsReleased
  BY DEF Released
<1> QED BY StackInvariant, <1>1, <1>2, <1>3, PTL DEF Spec
-----------------------------------------------------------------------------
(* The debug canaries.                                                     *)

(* The scopes emitBlock opened, each with a canary of its own; emitForLoop *)
(* opens one more without.                                                 *)
Blocks == {b \in 1 .. Len(m_scopes) : m_scopes[b].by \notin {"params", "forscope"}}

(* The pending canaries belong to the open blocks, innermost last, and     *)
(* each is the depth at which its block started.                           *)
MatchedBy(g) ==
  /\ g \in [1 .. Len(canary) -> Blocks]
  /\ \A j, k \in 1 .. Len(canary) : j < k => g[j] < g[k]
  /\ \A b \in Blocks : \E k \in 1 .. Len(canary) : g[k] = b
  /\ OperandsFit => \A k \in 1 .. Len(canary) :
                      canary[k] = DepthAt(m_scopes[g[k]].mark)

Matched ==
  /\ phase # "abort"
  /\ phase \in {"this", "params", "release"} => canary = <<>>
  /\ Body => \E g \in [1 .. Len(canary) -> Blocks] : MatchedBy(g)
  /\ OperandsFit => ~leaked

LEMMA NeverAborts ==
  ASSUME Compiles, phase # "abort", Next
  PROVE  phase' # "abort"
BY DEF Compiles, Next, BeginFunction, FreeFunction, DeclareThis, DeclareParam, Argument,
       BeginBody, DeclareLocal, DeclareVariant, RejectRedefinition, RejectStatement, Crash,
       OpenNested, OpenFor, OpenForBlock, OpenBlock, CloseBlock, destructLocalVar, PopBlock,
       PopForScope, PopAborted, EndFunction, AfterDecl, AfterAbort, AfterBlock, AtStatement

(* Steps that change neither the blocks nor the depths they started at.    *)
LEMMA SameMatch ==
  ASSUME NEW g, MatchedBy(g), canary' = canary, Blocks' = Blocks,
         \A b \in Blocks : m_scopes'[b] = m_scopes[b],
         OperandsFit => \A b \in Blocks :
                          DepthAt(m_scopes[b].mark)' = DepthAt(m_scopes[b].mark)
  PROVE  MatchedBy(g)'
<1>1. g \in [1 .. Len(canary) -> Blocks] /\ \A k \in 1 .. Len(canary) : g[k] \in Blocks
  BY DEF MatchedBy
<1>2. ASSUME OperandsFit, NEW k \in 1 .. Len(canary)
      PROVE  canary[k] = DepthAt(m_scopes[g[k]].mark)'
  <2>1. PICK b \in Blocks : b = g[k]
    BY <1>1
  <2>2. canary[k] = DepthAt(m_scopes[b].mark)
    BY <1>2, <2>1 DEF MatchedBy
  <2>3. DepthAt(m_scopes[b].mark)' = DepthAt(m_scopes[b].mark)
    BY <1>2
  <2> QED BY <2>1, <2>2, <2>3
<1> QED BY <1>1, <1>2 DEF MatchedBy

(* The depth at a mark that both states have.                              *)
LEMMA SameDepth ==
  ASSUME NEW b, m_scopes'[b] = m_scopes[b],
         NEW S, m_scopes[b].mark \in S, \A i \in S : DepthAt(i)' = DepthAt(i)
  PROVE  DepthAt(m_scopes[b].mark)' = DepthAt(m_scopes[b].mark)
<1>1. PICK i \in S : i = m_scopes[b].mark /\ i = m_scopes'[b].mark
  OBVIOUS
<1>2. DepthAt(i)' = DepthAt(i)
  OBVIOUS
<1> QED BY <1>1, <1>2

(* A block begins with a canary of the depth it starts at.                 *)
LEMMA BlockOpened ==
  ASSUME StackInv, NEW g, MatchedBy(g), NEW o \in Openers, o \notin {"params", "forscope"},
         push_scope(o), canary \in Seq(Int), canary' = Append(canary, depth'),
         depth' \in Int, locals' = locals, Blocks = {} \/ depth' = depth
  PROVE  \E h \in [1 .. Len(canary') -> Blocks'] : MatchedBy(h)'
<1>0. PICK N \in Nat, M \in Nat : N = Len(canary) /\ M = Len(m_scopes)
  BY StackTyped
<1>1. /\ N \in Nat /\ M \in Nat
      /\ Len(canary') = N + 1 /\ canary'[N + 1] = depth'
      /\ \A k \in 1 .. N : canary'[k] = canary[k]
  BY <1>0, AppendProperties
<1>2. /\ Len(m_scopes') = M + 1
      /\ \A b \in 1 .. M : m_scopes'[b] = m_scopes[b]
      /\ m_scopes'[M + 1] = [by |-> o, mark |-> Len(locals)]
  BY <1>0, ScopePushed DEF StackInv, TypeShape
<1>3. m_scopes'[M + 1].by = o /\ m_scopes'[M + 1].mark = Len(locals)
  BY <1>2
<1>4. Blocks' = Blocks \cup {M + 1}
  BY <1>0, <1>1, <1>2, <1>3 DEF Blocks
<1>5. \A b \in Blocks : b \in 1 .. M
  BY <1>0 DEF Blocks
<1>6. \A k \in 1 .. N : g[k] \in Blocks
  BY <1>0 DEF MatchedBy
<1>7. PICK h \in [1 .. N + 1 -> Blocks'] :
        h[N + 1] = M + 1 /\ \A k \in 1 .. N : h[k] = g[k]
  <2> DEFINE f == [k \in 1 .. N + 1 |-> IF k = N + 1 THEN M + 1 ELSE g[k]]
  <2>1. f \in [1 .. N + 1 -> Blocks'] /\ f[N + 1] = M + 1 /\ \A k \in 1 .. N : f[k] = g[k]
    BY <1>1, <1>4, <1>6
  <2> QED BY <2>1
<1>8. \A j, k \in 1 .. N + 1 : j < k => h[j] < h[k]
  <2>1. \A j, k \in 1 .. N : j < k => g[j] < g[k]
    BY <1>0 DEF MatchedBy
  <2>2. \A j \in 1 .. N : g[j] < M + 1
    BY <1>1, <1>5, <1>6
  <2> QED BY <1>1, <1>7, <2>1, <2>2, SMTT(20)
<1>9. \A b \in Blocks' : \E k \in 1 .. N + 1 : h[k] = b
  <2>1. \A b \in Blocks : \E k \in 1 .. N : g[k] = b
    BY <1>0 DEF MatchedBy
  <2> QED BY <1>1, <1>4, <1>7, <2>1
<1>10. ASSUME OperandsFit, NEW k \in 1 .. N + 1
       PROVE  canary'[k] = DepthAt(m_scopes[h[k]].mark)'
  <2>1. CASE k = N + 1
    <3>1. PICK i \in Nat : i = Len(locals)
      BY StackTyped
    <3>2. DepthAt(i)' = depth'
      BY <3>1 DEF DepthAt
    <3>3. m_scopes'[h[k]].mark = i
      BY <1>3, <1>7, <2>1, <3>1
    <3> QED BY <1>1, <2>1, <3>2, <3>3
  <2>2. CASE k # N + 1
    <3>1. k \in 1 .. N
      BY <1>1, <2>2
    <3>2. PICK b \in Blocks : b = g[k] /\ b = h[k]
      BY <1>6, <1>7, <3>1
    <3>3. canary[k] = DepthAt(m_scopes[b].mark)
      BY <1>10, <3>1, <3>2, <1>0 DEF MatchedBy
    <3>4. \A i \in Nat : DepthAt(i)' = DepthAt(i)
      BY <3>2 DEF DepthAt
    <3>5. m_scopes'[b] = m_scopes[b] /\ m_scopes[b].mark \in Nat
      BY <1>0, <1>2, <1>5, <3>2, StackTyped
    <3>6. DepthAt(m_scopes[b].mark)' = DepthAt(m_scopes[b].mark)
      BY <3>4, <3>5, SameDepth
    <3> QED BY <1>1, <3>1, <3>2, <3>3, <3>6
  <2> QED BY <2>1, <2>2
<1>11. MatchedBy(h)'
  BY <1>1, <1>7, <1>8, <1>9, <1>10 DEF MatchedBy
<1>12. h \in [1 .. Len(canary') -> Blocks']
  BY <1>1, <1>7
<1> QED BY <1>11, <1>12

(* The block that ends is the innermost one, and the last canary is its.   *)
LEMMA BlockClosed ==
  ASSUME StackInv, Body, ScopeEmpty, TopScope.by \notin {"params", "forscope"},
         NEW g, MatchedBy(g), canary \in Seq(Int),
         m_scopes' = DropLast(m_scopes), canary' = DropLast(canary),
         UNCHANGED <<locals, depth>>
  PROVE  /\ Len(canary) > 0
         /\ OperandsFit => Last(canary) = depth
         /\ \E h \in [1 .. Len(canary') -> Blocks'] : MatchedBy(h)'
         /\ Len(m_scopes) = fn + 1 => canary' = <<>>
<1>0. PICK N \in Nat, M \in Nat : N = Len(canary) /\ M = Len(m_scopes)
  BY StackTyped
<1>1. /\ N \in Nat /\ M \in Nat /\ M > 0
      /\ TopScope = m_scopes[M]
      /\ Len(m_scopes') = M - 1
      /\ \A b \in 1 .. M - 1 : m_scopes'[b] = m_scopes[b]
  BY <1>0, TopOfBody, ScopeDropped DEF StackInv, TypeShape
<1>2. M \in Blocks /\ \A b \in Blocks : b \in 1 .. M
  BY <1>0, <1>1 DEF Blocks
<1>3. /\ \A k \in 1 .. N : g[k] \in Blocks
      /\ \A j, k \in 1 .. N : j < k => g[j] < g[k]
      /\ \A b \in Blocks : \E k \in 1 .. N : g[k] = b
  BY <1>0 DEF MatchedBy
<1>4. N > 0 /\ g[N] = M
  <2>1. PICK k \in 1 .. N : g[k] = M
    BY <1>2, <1>3
  <2>2. N > 0 /\ N \in 1 .. N
    BY <1>1, <2>1
  <2>3. ~(k < N)
    <3>1. k < N => M < g[N]
      BY <1>3, <2>1, <2>2
    <3>2. g[N] \in 1 .. M
      BY <1>2, <1>3, <2>2
    <3> QED BY <1>1, <3>1, <3>2
  <2> QED BY <1>1, <2>1, <2>2, <2>3
<1>5. OperandsFit => Last(canary) = depth
  <2> SUFFICES ASSUME OperandsFit PROVE canary[N] = depth
    BY <1>0 DEF Last
  <2>1. canary[N] = DepthAt(m_scopes[g[N]].mark)
    BY <1>0, <1>1, <1>4 DEF MatchedBy
  <2>2. m_scopes[M].mark = Len(locals)
    BY <1>1 DEF ScopeEmpty
  <2>3. DepthAt(Len(locals)) = depth
    BY StackTyped DEF DepthAt
  <2> QED BY <1>4, <2>1, <2>2, <2>3
<1>6. /\ Len(canary') = N - 1
      /\ \A k \in 1 .. N - 1 : canary'[k] = canary[k]
      /\ canary' \in Seq(Int)
  BY <1>0, <1>4, DropLastProperties
<1>7. Blocks' = Blocks \ {M}
  BY <1>0, <1>1, <1>2 DEF Blocks
<1>8. \A k \in 1 .. N - 1 : g[k] \in Blocks'
  <2>1. \A k \in 1 .. N - 1 : k \in 1 .. N /\ N \in 1 .. N /\ k < N
    BY <1>1, <1>4
  <2>2. \A k \in 1 .. N - 1 : g[k] < g[N]
    BY <1>3, <2>1
  <2> QED BY <1>1, <1>2, <1>3, <1>4, <1>7, <2>1, <2>2
<1>9. PICK h \in [1 .. N - 1 -> Blocks'] : \A k \in 1 .. N - 1 : h[k] = g[k]
  <2>1. [k \in 1 .. N - 1 |-> g[k]] \in [1 .. N - 1 -> Blocks']
    BY <1>8
  <2> QED BY <2>1
<1>10. \A j, k \in 1 .. N - 1 : j < k => h[j] < h[k]
  <2>1. \A k \in 1 .. N - 1 : k \in 1 .. N
    BY <1>1
  <2>2. \A j, k \in 1 .. N - 1 : j < k => g[j] < g[k]
    BY <1>3, <2>1
  <2> QED BY <1>9, <2>2
<1>11. \A b \in Blocks' : \E k \in 1 .. N - 1 : h[k] = b
  <2> SUFFICES ASSUME NEW b \in Blocks, b # M
               PROVE  \E k \in 1 .. N - 1 : h[k] = b
    BY <1>7
  <2>1. PICK k \in 1 .. N : g[k] = b
    BY <1>3
  <2>2. k \in 1 .. N - 1
    BY <1>1, <1>4, <2>1
  <2> QED BY <1>9, <2>1, <2>2
<1>12. ASSUME OperandsFit, NEW k \in 1 .. N - 1
       PROVE  canary'[k] = DepthAt(m_scopes[h[k]].mark)'
  <2>1. PICK b \in Blocks : b = g[k] /\ b = h[k] /\ b # M /\ k \in 1 .. N
    BY <1>1, <1>7, <1>8, <1>9
  <2>2. canary[k] = DepthAt(m_scopes[b].mark)
    BY <1>0, <1>12, <2>1 DEF MatchedBy
  <2>3. \A i \in Nat : DepthAt(i)' = DepthAt(i)
    BY <2>1 DEF DepthAt
  <2>4. m_scopes'[b] = m_scopes[b] /\ m_scopes[b].mark \in Nat
    <3>1. b \in 1 .. M - 1 /\ b \in 1 .. Len(m_scopes)
      BY <1>0, <1>1, <1>2, <2>1
    <3> QED BY <1>1, <3>1, StackTyped
  <2>5. DepthAt(m_scopes[b].mark)' = DepthAt(m_scopes[b].mark)
    BY <2>3, <2>4, SameDepth
  <2> QED BY <1>6, <2>1, <2>2, <2>5
<1>13. MatchedBy(h)' /\ h \in [1 .. Len(canary') -> Blocks']
  BY <1>6, <1>9, <1>10, <1>11, <1>12 DEF MatchedBy
<1>14. ASSUME Len(m_scopes) = fn + 1 PROVE canary' = <<>>
  <2>1. \A b \in Blocks : b = M
    <3>1. \A b \in 1 .. fn : m_scopes[b].by = "params"
      BY StackTyped DEF StackInv, Remain, BodyScope
    <3>2. fn \in Nat
      BY StackTyped
    <3> QED BY <1>0, <1>1, <1>2, <1>14, <3>1, <3>2 DEF Blocks
  <2>2. Blocks' = {}
    BY <1>7, <2>1
  <2>3. N = 1
    <3>1. N > 1 => 1 \in 1 .. N - 1
      BY <1>1
    <3> QED BY <1>1, <1>4, <1>8, <2>2, <3>1
  <2> QED BY <1>6, <2>3, EmptySeq
<1> QED BY <1>0, <1>4, <1>5, <1>13, <1>14
LEMMA NextMatched ==
  ASSUME Compiles, StackInv, Matched, Next
  PROVE  Matched'
<1>1. /\ fn \in Nat /\ Len(locals) \in Nat /\ Len(m_scopes) \in Nat
      /\ canary \in Seq(Int) /\ depth \in Int /\ depth' \in Int
      /\ phase # "abort" /\ phase' # "abort"
  BY StackTyped, NeverAborts, NextTypes DEF StackInv, Matched, TypeShape, TypeOK
<1>2. ASSUME NEW k \in Kinds, NEW r \in {"void"} \cup ParamTypes, BeginFunction(k, r)
      PROVE  Matched'
  BY <1>1, <1>2 DEF BeginFunction, Matched, Body
<1>3. CASE FreeFunction \/ EndFunction
  BY <1>1, <1>3 DEF FreeFunction, EndFunction, Matched, Body
<1>4. CASE DeclareThis \/ \E n \in Names, t \in ParamTypes : DeclareParam(n, t)
  BY <1>1, <1>4 DEF DeclareThis, DeclareParam, Argument, Matched, Body
<1>5. CASE BeginBody
  <2>1. /\ phase = "params" /\ phase' = "block" /\ push_scope("function")
        /\ "function" \in Openers /\ canary' = Append(canary, depth')
        /\ UNCHANGED <<locals, leaked>>
    BY <1>5 DEF BeginBody, OpenBlock, Openers
  <2>2. canary = <<>> /\ Len(canary) = 0
    BY <2>1, EmptySeq DEF Matched
  <2>3. Blocks = {}
    BY <2>1 DEF Blocks, StackInv, TypeShape, ScopeShape
  <2>4. PICK g : g \in [1 .. Len(canary) -> Blocks]
    <3>1. [k \in 1 .. Len(canary) |-> 0] \in [1 .. Len(canary) -> Blocks]
      BY <2>2
    <3> QED BY <3>1
  <2>5. MatchedBy(g)
    BY <2>2, <2>3, <2>4 DEF MatchedBy
  <2>6. \E h \in [1 .. Len(canary') -> Blocks'] : MatchedBy(h)'
    BY <1>1, <2>1, <2>3, <2>5, BlockOpened
  <2> QED BY <2>1, <2>6 DEF Matched
<1>6. CASE Body
  <2>1. PICK g : g \in [1 .. Len(canary) -> Blocks] /\ MatchedBy(g)
    BY <1>6 DEF Matched
  <2>2. ASSUME canary' = canary, leaked' = leaked, MatchedBy(g)',
               phase' \notin {"this", "params", "release"}
        PROVE  Matched'
    <3>1. g \in [1 .. Len(canary') -> Blocks']
      BY <2>2 DEF MatchedBy
    <3> QED BY <1>1, <2>2, <3>1 DEF Matched
  <2>3. CASE Quiet
    <3>1. Blocks' = Blocks /\ \A b \in Blocks : m_scopes'[b] = m_scopes[b]
      BY <2>3 DEF Quiet, Blocks
    <3>2. \A b \in Blocks : DepthAt(m_scopes[b].mark)' = DepthAt(m_scopes[b].mark)
      BY <2>3 DEF Quiet, DepthAt
    <3>3. MatchedBy(g)'
      BY <2>1, <2>3, <3>1, <3>2, SameMatch DEF Quiet
    <3> QED BY <2>2, <2>3, <3>3 DEF Quiet
  <2>4. ASSUME NEW o \in Openers, Opens(o)
        PROVE  Matched'
    <3>1. /\ Len(m_scopes') = Len(m_scopes) + 1
          /\ \A i \in 1 .. Len(m_scopes) : m_scopes'[i] = m_scopes[i]
          /\ m_scopes'[Len(m_scopes) + 1].by = o
      <4>1. m_scopes'[Len(m_scopes) + 1] = [by |-> o, mark |-> Len(locals)]
        BY <2>4, ScopePushed DEF Opens, StackInv, TypeShape
      <4> QED BY <2>4, <4>1, ScopePushed DEF Opens, StackInv, TypeShape
    <3>2. CASE o = "forscope"
      <4>1. Blocks' = Blocks /\ \A b \in Blocks : m_scopes'[b] = m_scopes[b]
        BY <1>1, <3>1, <3>2 DEF Blocks
      <4>2. \A b \in Blocks : DepthAt(m_scopes[b].mark)' = DepthAt(m_scopes[b].mark)
        BY <2>4, <4>1 DEF Opens, DepthAt
      <4>3. MatchedBy(g)'
        BY <2>1, <2>4, <3>2, <4>1, <4>2, SameMatch DEF Opens
      <4> QED BY <2>2, <2>4, <3>2, <4>3 DEF Opens
    <3>3. CASE o # "forscope"
      <4>1. \E h \in [1 .. Len(canary') -> Blocks'] : MatchedBy(h)'
        BY <1>1, <2>1, <2>4, <3>3, BlockOpened DEF Opens
      <4> QED BY <1>1, <2>4, <4>1 DEF Matched, Opens
    <3> QED BY <3>2, <3>3
  <2>5. ASSUME NEW n \in Names, NEW t \in LocalTypes, Declares(n, t)
        PROVE  Matched'
    <3>1. Blocks' = Blocks /\ \A b \in Blocks : m_scopes'[b] = m_scopes[b]
      BY <2>5 DEF Declares, Blocks
    <3>2. ASSUME NEW b \in Blocks
          PROVE  DepthAt(m_scopes[b].mark)' = DepthAt(m_scopes[b].mark)
      <4>1. m_scopes[b].mark \in 0 .. Len(locals)
        BY StackTyped DEF Blocks
      <4>2. \A i \in 0 .. Len(locals) : DepthAt(i)' = DepthAt(i)
        BY <2>5, DeclaredDepths DEF StackInv
      <4> QED BY <3>1, <4>1, <4>2, SameDepth
    <3>3. MatchedBy(g)'
      BY <2>1, <2>5, <3>1, <3>2, SameMatch DEF Declares
    <3> QED BY <2>2, <2>5, <3>3 DEF Declares
  <2>6. CASE destructLocalVar
    <3>1. /\ Blocks' = Blocks /\ \A b \in Blocks : m_scopes'[b] = m_scopes[b]
          /\ UNCHANGED <<canary, leaked, phase>>
      BY <2>6 DEF destructLocalVar, Blocks
    <3>2. ASSUME OperandsFit, NEW b \in Blocks
          PROVE  DepthAt(m_scopes[b].mark)' = DepthAt(m_scopes[b].mark)
      <4>1. b \in 1 .. Len(m_scopes) /\ Len(m_scopes) > 0
            /\ TopScope = m_scopes[Len(m_scopes)] /\ TopScope.mark < Len(locals)
        BY <1>6, <2>6, TopOfBody, StackTyped
           DEF Blocks, destructLocalVar, StackInv, TypeShape
      <4>2. m_scopes[b].mark <= TopScope.mark
        BY <1>1, <4>1 DEF StackInv, TypeShape, ScopeShape
      <4>3. m_scopes[b].mark \in 0 .. Len(locals) - 1
        BY <1>1, <4>1, <4>2, StackTyped, SMTT(20)
      <4>4. \A i \in 0 .. Len(locals) - 1 : DepthAt(i)' = DepthAt(i)
        BY <2>6, <3>2, DestructedDepths
      <4> QED BY <3>1, <4>3, <4>4, SameDepth
    <3>3. MatchedBy(g)'
      BY <2>1, <3>1, <3>2, SameMatch
    <3> QED BY <1>6, <2>2, <3>1, <3>3 DEF Body
  <2>7. CASE Pops
    <3>1. /\ Len(m_scopes) > 0 /\ TopScope = m_scopes[Len(m_scopes)]
          /\ TopScope.by # "params"
          /\ Len(m_scopes') = Len(m_scopes) - 1
          /\ \A i \in 1 .. Len(m_scopes) - 1 : m_scopes'[i] = m_scopes[i]
          /\ (TopScope.by = "function") <=> (Len(m_scopes) = fn + 1)
      BY <1>6, <2>7, TheBody, TopOfBody, ScopeDropped DEF Pops, StackInv, TypeShape
    <3>2. CASE TopScope.by = "forscope"
      <4>1. Blocks' = Blocks /\ \A b \in Blocks : m_scopes'[b] = m_scopes[b]
        BY <1>1, <3>1, <3>2, SMTT(20) DEF Blocks
      <4>2. \A b \in Blocks : DepthAt(m_scopes[b].mark)' = DepthAt(m_scopes[b].mark)
        BY <2>7, <4>1 DEF Pops, DepthAt
      <4>3. MatchedBy(g)' /\ UNCHANGED <<canary, leaked>>
        BY <2>1, <2>7, <3>2, <4>1, <4>2, SameMatch DEF Pops
      <4> QED BY <2>2, <2>7, <3>2, <4>3 DEF Pops
    <3>3. CASE TopScope.by # "forscope"
      <4>1. CanaryEnd /\ ScopeEmpty /\ m_scopes' = DropLast(m_scopes)
            /\ UNCHANGED <<locals, depth>>
        BY <1>1, <2>7, <3>3 DEF Pops
      <4>2. canary # <<>>
        <5>1. Len(m_scopes) \in Blocks
          BY <1>1, <3>1, <3>3 DEF Blocks
        <5>2. \E k \in 1 .. Len(canary) : g[k] = Len(m_scopes)
          BY <2>1, <5>1 DEF MatchedBy
        <5> QED BY <5>2, EmptySeq
      <4>3. canary' = DropLast(canary) /\ leaked' = (leaked \/ Last(canary) # depth)
        BY <4>1, <4>2 DEF CanaryEnd
      <4>4. /\ OperandsFit => Last(canary) = depth
            /\ \E h \in [1 .. Len(canary') -> Blocks'] : MatchedBy(h)'
            /\ Len(m_scopes) = fn + 1 => canary' = <<>>
        BY <1>1, <1>6, <2>1, <3>1, <3>3, <4>1, <4>3, BlockClosed
      <4>5. OperandsFit => ~leaked'
        BY <4>3, <4>4 DEF Matched
      <4>6. phase' \in {"this", "params", "release"} => canary' = <<>>
        BY <2>7, <3>1, <4>4 DEF Pops
      <4>7. Body' => \E h \in [1 .. Len(canary') -> Blocks'] : MatchedBy(h)'
        BY <4>4
      <4> QED BY <1>1, <4>5, <4>6, <4>7 DEF Matched
    <3> QED BY <3>2, <3>3
  <2> QED BY <1>6, <2>3, <2>4, <2>5, <2>6, <2>7, BodySteps DEF StackInv
<1> QED BY <1>2, <1>3, <1>4, <1>5, <1>6, Steps
        DEF StackInv, Quiet, Opens, Declares, destructLocalVar, Pops, Body

LEMMA MatchedInvariant ==
  ASSUME Compiles
  PROVE  Spec => []Matched
<1>1. Init => Matched
  BY DEF Init, Matched, Body
<1>2. StackInv /\ Matched /\ [Next]_vars => Matched'
  <2> SUFFICES ASSUME StackInv, Matched, [Next]_vars PROVE Matched'
    OBVIOUS
  <2>1. CASE UNCHANGED vars
    BY <2>1 DEF vars, Matched, MatchedBy, Blocks, DepthAt, Body
  <2> QED BY <2>1, NextMatched
<1> QED BY StackInvariant, <1>1, <1>2, PTL DEF Spec

(* In a source that compiles every block, however deep and whatever is     *)
(* declared in it, ends the canary it began and no other: when the body is *)
(* complete s_canaryStack is empty.                                        *)
THEOREM CanariesEnd ==
  ASSUME Compiles
  PROVE  Spec => []CanaryBalanced
<1>1. Matched => CanaryBalanced
  BY DEF Matched, CanaryBalanced
<1> QED BY <1>1, MatchedInvariant, PTL

(* And the canary is right: the stack pointer at the end of each block is  *)
(* the one of its beginning, so DBG_STACKCANARYEND never reports a leak    *)
(* for a block of such a source, native and "var" locals included.         *)
THEOREM CanariesAreHonest ==
  ASSUME Compiles, OperandsFit
  PROVE  Spec => []CanaryHonest
<1>1. Matched => CanaryHonest
  BY DEF Matched, CanaryHonest
<1> QED BY <1>1, MatchedInvariant, PTL
===============================================================================
