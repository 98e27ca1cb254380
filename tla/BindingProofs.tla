---------------------------- MODULE BindingProofs ----------------------------
(***************************************************************************)
(* Proofs about the bindings of a class: the check lets no circular class  *)
(* pass and accepts exactly the trees; in classes in dependency order one  *)
(* clean evaluation makes all bindings true, and in any accepted class as  *)
(* many as there are bindings.  The constants are arbitrary.               *)
(***************************************************************************)
EXTENDS BindingUpdate, SequenceTheorems, FiniteSetTheorems, WellFoundedInduction, TLAPS

FrameRec == [elem : Elements, next : Nat \ {0}]

LEMMA SingletonSeq ==
  ASSUME NEW S, NEW x \in S
  PROVE  <<x>> \in Seq(S) /\ Len(<<x>>) = 1 /\ <<x>>[1] = x
<1>1. Append(<<>>, x) = <<x>>
  OBVIOUS
<1> QED
  BY <1>1, EmptySeq, AppendProperties

LEMMA FrontFacts ==
  ASSUME NEW S, NEW s \in Seq(S), s # <<>>
  PROVE  /\ Front(s) \in Seq(S)
         /\ Len(Front(s)) = Len(s) - 1
         /\ \A i \in 1 .. Len(s) - 1 : Front(s)[i] = s[i]
         /\ Len(s) > 0
         /\ Last(s) = s[Len(s)]
         /\ s[Len(s)] \in S
<1> DEFINE n == Len(s) - 1
           t == SubSeq(s, 1, n)
<1>1. /\ Len(s) \in Nat /\ Len(s) > 0
      /\ n \in Nat
      /\ \A i \in 1 .. Len(s) : s[i] \in S
  BY LenProperties, ElementOfSeq, EmptySeq
<1>2. /\ t \in Seq(S)
      /\ Len(t) = IF 1 <= n THEN n - 1 + 1 ELSE 0
      /\ \A i \in 1 .. n - 1 + 1 : t[i] = s[1 + i - 1]
  BY <1>1, SubSeqProperties
<1>3. t = Front(s) /\ Last(s) = s[Len(s)] /\ n = Len(s) - 1
  BY DEF Front, Last
<1> HIDE DEF n, t
<1>4. Len(t) = n /\ \A i \in 1 .. n : t[i] = s[i]
  BY <1>1, <1>2
<1> QED
  BY <1>1, <1>2, <1>3, <1>4

LEMMA AdvanceFacts ==
  ASSUME frames \in Seq(FrameRec), frames # <<>>
  PROVE  /\ Advance \in Seq(FrameRec)
         /\ Len(Advance) = Len(frames)
         /\ \A f \in 1 .. Len(frames) - 1 : Advance[f] = frames[f]
         /\ Advance[Len(frames)].elem = Top.elem
         /\ Advance[Len(frames)].next = Top.next + 1
         /\ Top = frames[Len(frames)]
         /\ Top \in FrameRec
         /\ Len(frames) > 0
<1>1. /\ Top = frames[Len(frames)]
      /\ Top \in FrameRec
      /\ Len(frames) > 0
  BY FrontFacts DEF Top
<1>2. Advance = [frames EXCEPT ![Len(frames)] = [Top EXCEPT !.next = Top.next + 1]]
  BY <1>1 DEF Advance
<1>3. [Top EXCEPT !.next = Top.next + 1] \in FrameRec
  BY <1>1 DEF FrameRec
<1> QED
  BY <1>1, <1>2, <1>3 DEF FrameRec

-----------------------------------------------------------------------------
(* Types.                                                                  *)

LEMMA InitTyped == Init => TypeOK
<1> SUFFICES ASSUME Init
             PROVE  TypeOK
  OBVIOUS
<1>1. bindings \in Seq(Bindings)
  BY ClassesAssumption DEF Init
<1>2. roots = <<>> /\ Len(roots) = 0 /\ roots \in Seq(Elements) /\ root = 0
  BY EmptySeq DEF Init
<1>3. deps \in [Elements -> Seq(Elements)]
  BY EmptySeq DEF Init
<1>4. visited \in Seq(Elements) /\ frames \in Seq([elem : Elements, next : Nat \ {0}])
  BY EmptySeq DEF Init
<1>5. result \in BOOLEAN /\ phase \in Phases
  BY DEF Init, Phases
<1> QED
  BY <1>1, <1>2, <1>3, <1>4, <1>5 DEF TypeOK

LEMMA ChildTyped ==
  ASSUME TypeOK, HasChild
  PROVE  Child \in Elements /\ Top \in FrameRec
<1>0. frames \in Seq(FrameRec) /\ frames # <<>>
  BY DEF TypeOK, HasChild, FrameRec
<1>1. Top \in FrameRec
  BY <1>0, FrontFacts DEF Top
<1> QED
  BY <1>1 DEF FrameRec, TypeOK, HasChild, Child

LEMMA StepTyped == TypeOK /\ [CheckNext]_vars => TypeOK'
<1> SUFFICES ASSUME TypeOK, [CheckNext]_vars
             PROVE  TypeOK'
  OBVIOUS
<1> USE DEF Phases
<1>f. frames \in Seq(FrameRec)
  BY DEF TypeOK, FrameRec
<1>1. CASE Track
  <2>1. bindings[Len(roots) + 1] \in Bindings
    BY <1>1 DEF Track, TypeOK
  <2> DEFINE b == bindings[Len(roots) + 1]
  <2>2. b.target \in Elements /\ b.operands \in Seq(Elements)
    BY <2>1 DEF Bindings
  <2>3. roots' \in Seq(Elements) /\ Len(roots') = Len(roots) + 1
    BY <1>1, <2>2 DEF Track, TypeOK
  <2>4. deps[b.target] \o b.operands \in Seq(Elements)
    BY <2>2 DEF TypeOK
  <2>5. deps' \in [Elements -> Seq(Elements)]
    BY <1>1, <2>4 DEF Track, TypeOK
  <2> QED
    BY <1>1, <2>3, <2>5 DEF Track, TypeOK
<1>2. CASE NextRoot
  <2>1. CASE root < Len(roots)
    <3>1. roots[root + 1] \in Elements
      BY <2>1 DEF TypeOK
    <3>2. visited' \in Seq(Elements)
      BY <1>2, <2>1, <3>1, SingletonSeq DEF NextRoot
    <3>3. [elem |-> roots[root + 1], next |-> 1] \in FrameRec
      BY <3>1 DEF FrameRec
    <3>4. frames' \in Seq(FrameRec)
      BY <1>2, <2>1, <3>3, SingletonSeq DEF NextRoot
    <3>5. root' \in 0 .. Len(roots') /\ phase' \in Phases
      BY <1>2, <2>1 DEF NextRoot, TypeOK
    <3> QED
      BY <1>2, <3>2, <3>4, <3>5 DEF NextRoot, TypeOK, FrameRec
  <2>2. CASE ~(root < Len(roots))
    BY <1>2, <2>2 DEF NextRoot, TypeOK
  <2> QED
    BY <2>1, <2>2
<1>3. CASE Abort
  BY <1>3 DEF Abort, TypeOK
<1>4. CASE VisitNew
  <2>1. Child \in Elements
    BY <1>4, ChildTyped DEF VisitNew
  <2>2. visited' \in Seq(Elements)
    BY <1>4, <2>1 DEF VisitNew, TypeOK
  <2>3. [elem |-> Child, next |-> 1] \in FrameRec
    BY <2>1 DEF FrameRec
  <2>4. Advance \in Seq(FrameRec)
    BY <1>4, <1>f, AdvanceFacts DEF VisitNew, HasChild
  <2>5. frames' \in Seq(FrameRec)
    BY <1>4, <2>3, <2>4 DEF VisitNew
  <2> QED
    BY <1>4, <2>2, <2>5 DEF VisitNew, TypeOK, FrameRec
<1>5. CASE VisitSeen
  <2>1. frames' \in Seq(FrameRec)
    BY <1>5, <1>f, FrontFacts DEF VisitSeen, HasChild
  <2> QED
    BY <1>5, <2>1 DEF VisitSeen, TypeOK, FrameRec
<1>6. CASE Leave
  <2>1. frames' \in Seq(FrameRec)
    BY <1>6, <1>f, FrontFacts DEF Leave
  <2> QED
    BY <1>6, <2>1 DEF Leave, TypeOK, FrameRec
<1>7. CASE UNCHANGED vars
  BY <1>7 DEF vars, TypeOK
<1> QED
  BY <1>1, <1>2, <1>3, <1>4, <1>5, <1>6, <1>7 DEF CheckNext

(* The state of compileStruct while it checks the bindings keeps its type. *)
THEOREM CheckTypeCorrect == CheckSpec => []TypeOK
BY InitTyped, StepTyped, PTL DEF CheckSpec

-----------------------------------------------------------------------------
(* The check lets no circular class pass.                                  *)

(* Every element of S depends on another one, through deps.                *)
Cyclic(S) == \A s \in S : \E j \in DOMAIN deps[s] : deps[s][j] \in S

(* What Track has put into roots and deps.                                 *)
TrackedSoFar ==
  /\ Len(roots) <= Len(bindings)
  /\ \A i \in 1 .. Len(roots) :
       /\ roots[i] = bindings[i].target
       /\ ToSet(bindings[i].operands) \subseteq ToSet(deps[roots[i]])
  /\ phase = "track" => root = 0 /\ frames = <<>>
  /\ phase # "track" => Len(roots) = Len(bindings)
  /\ phase = "detect" => root > 0
  /\ phase = "accepted" => root = Len(roots)

(* As long as nothing was seen twice, a cycle through the target is still  *)
(* ahead: some activation of visit has a child on it that comes next.      *)
CycleAhead ==
  phase = "detect" /\ ~result =>
    \A S \in SUBSET Elements : Cyclic(S) /\ roots[root] \in S =>
      \E f \in 1 .. Len(frames) :
        /\ frames[f].elem \in S
        /\ \E j \in DOMAIN deps[frames[f].elem] :
             j >= frames[f].next /\ deps[frames[f].elem][j] \in S

(* The targets before the one under examination lie on no cycle.           *)
CheckedClear ==
  \A i \in 1 .. Len(roots) : i < root \/ phase = "accepted" =>
    \A S \in SUBSET Elements : Cyclic(S) => roots[i] \notin S

CheckInv == TypeOK /\ TrackedSoFar /\ CycleAhead /\ CheckedClear

LEMMA InitChecked == Init => CheckInv
<1> SUFFICES ASSUME Init
             PROVE  CheckInv
  OBVIOUS
<1>1. TypeOK
  BY InitTyped
<1>2. Len(roots) = 0 /\ phase = "track" /\ root = 0 /\ frames = <<>>
  BY EmptySeq DEF Init
<1>3. Len(bindings) \in Nat
  BY <1>1, LenProperties DEF TypeOK
<1> QED
  BY <1>1, <1>2, <1>3 DEF CheckInv, TrackedSoFar, CycleAhead, CheckedClear

(* A concatenation has the elements of both sequences.                     *)
LEMMA ConcatElements ==
  ASSUME NEW S, NEW d \in Seq(S), NEW o \in Seq(S)
  PROVE  /\ d \o o \in Seq(S)
         /\ ToSet(d) \subseteq ToSet(d \o o)
         /\ ToSet(o) \subseteq ToSet(d \o o)
<1> DEFINE t == d \o o
<1>1. /\ t \in Seq(S) /\ Len(t) = Len(d) + Len(o)
      /\ Len(d) \in Nat /\ DOMAIN d = 1 .. Len(d)
      /\ Len(o) \in Nat /\ DOMAIN o = 1 .. Len(o)
      /\ DOMAIN t = 1 .. Len(t)
  BY LenProperties, ConcatProperties
<1>2. \A i \in 1 .. Len(d) + Len(o) : t[i] = IF i <= Len(d) THEN d[i] ELSE o[i - Len(d)]
  BY ConcatProperties
<1> HIDE DEF t
<1>3. ASSUME NEW i \in DOMAIN d
      PROVE  i \in DOMAIN t /\ t[i] = d[i]
  <2>1. i \in 1 .. Len(d) + Len(o) /\ i <= Len(d)
    BY <1>1
  <2> QED
    BY <1>1, <1>2, <2>1
<1>4. ASSUME NEW i \in DOMAIN o
      PROVE  i + Len(d) \in DOMAIN t /\ t[i + Len(d)] = o[i]
  <2>1. i + Len(d) \in 1 .. Len(d) + Len(o) /\ ~(i + Len(d) <= Len(d))
        /\ (i + Len(d)) - Len(d) = i
    BY <1>1
  <2> QED
    BY <1>1, <1>2, <2>1
<1> QED
  BY <1>1, <1>3, <1>4 DEF ToSet, t

LEMMA TrackStep ==
  ASSUME CheckInv, Track
  PROVE  TrackedSoFar' /\ CycleAhead' /\ CheckedClear'
<1> DEFINE n == Len(roots)
           b == bindings[n + 1]
<1>0. TypeOK /\ TrackedSoFar /\ phase = "track" /\ root = 0 /\ frames = <<>>
  BY DEF CheckInv, TrackedSoFar, Track
<1>1. n \in Nat /\ n < Len(bindings) /\ b \in Bindings /\ Len(bindings) \in Nat
  BY <1>0, LenProperties, ElementOfSeq DEF Track, TypeOK
<1>2. b.target \in Elements /\ b.operands \in Seq(Elements)
  BY <1>1 DEF Bindings
<1>3. /\ Len(roots') = n + 1
      /\ roots'[n + 1] = b.target
      /\ \A i \in 1 .. n : roots'[i] = roots[i]
  BY <1>0, <1>1, <1>2, AppendProperties DEF Track, TypeOK
<1>4. deps' = [deps EXCEPT ![b.target] = deps[b.target] \o b.operands]
  BY DEF Track
<1> DEFINE t == deps[b.target] \o b.operands
<1>5. deps[b.target] \in Seq(Elements)
  BY <1>0, <1>2 DEF TypeOK
<1>6. ToSet(b.operands) \subseteq ToSet(t) /\ ToSet(deps[b.target]) \subseteq ToSet(t)
  BY <1>2, <1>5, ConcatElements
<1>7. \A e \in Elements : ToSet(deps[e]) \subseteq ToSet(deps'[e])
  BY <1>0, <1>4, <1>6 DEF TypeOK
<1>8. \A i \in 1 .. n + 1 :
        /\ roots'[i] = bindings[i].target
        /\ ToSet(bindings[i].operands) \subseteq ToSet(deps'[roots'[i]])
  <2>1. ASSUME NEW i \in 1 .. n
        PROVE  /\ roots'[i] = bindings[i].target
               /\ ToSet(bindings[i].operands) \subseteq ToSet(deps'[roots'[i]])
    <3>1. roots[i] \in Elements /\ roots'[i] = roots[i]
      BY <1>0, <1>3, ElementOfSeq DEF TypeOK
    <3> QED
      BY <1>0, <1>7, <3>1 DEF TrackedSoFar
  <2>2. deps'[b.target] = t
    BY <1>0, <1>2, <1>4 DEF TypeOK
  <2>3. /\ roots'[n + 1] = bindings[n + 1].target
        /\ ToSet(bindings[n + 1].operands) \subseteq ToSet(deps'[roots'[n + 1]])
    BY <1>3, <1>6, <2>2
  <2>4. \A i \in 1 .. n + 1 : i \in 1 .. n \/ i = n + 1
    BY <1>1
  <2> QED
    BY <2>1, <2>3, <2>4
<1>9. TrackedSoFar'
  BY <1>0, <1>1, <1>3, <1>8, SMTT(20) DEF TrackedSoFar, Track
<1>10. phase' = "track" /\ root' = 0
  BY <1>0 DEF Track
<1> QED
  BY <1>3, <1>9, <1>10, <1>1 DEF CycleAhead, CheckedClear

LEMMA NextRootStep ==
  ASSUME CheckInv, NextRoot
  PROVE  TrackedSoFar' /\ CycleAhead' /\ CheckedClear'
<1>0. TypeOK /\ TrackedSoFar /\ CycleAhead /\ CheckedClear
  BY DEF CheckInv
<1>1. /\ Len(roots) \in Nat /\ Len(roots) = Len(bindings) /\ root \in 0 .. Len(roots)
      /\ UNCHANGED <<bindings, roots, deps>>
  BY <1>0, LenProperties DEF TypeOK, TrackedSoFar, NextRoot
<1>2. \A S : Cyclic(S)' <=> Cyclic(S)
  BY <1>1 DEF Cyclic
(* The search for the current target is over, if there was one.            *)
<1>3. ASSUME NEW i \in 1 .. Len(roots), i <= root, NEW S \in SUBSET Elements, Cyclic(S)
      PROVE  roots[i] \notin S
  <2>1. CASE i < root
    BY <1>0, <1>3, <2>1 DEF CheckedClear
  <2>2. CASE i = root
    <3>1. phase = "detect" /\ frames = <<>> /\ ~result
      BY <1>0, <2>2 DEF NextRoot, TrackedSoFar
    <3>2. Len(frames) = 0
      BY <3>1, EmptySeq
    <3> QED
      BY <1>0, <1>3, <2>2, <3>1, <3>2 DEF CycleAhead
  <2> QED
    BY <1>1, <1>3, <2>1, <2>2
<1>4. CASE root < Len(roots)
  <2> DEFINE r == roots[root + 1]
  <2>1. /\ root' = root + 1 /\ phase' = "detect" /\ r \in Elements
        /\ frames' = <<[elem |-> r, next |-> 1]>>
    BY <1>0, <1>1, <1>4, ElementOfSeq DEF NextRoot, TypeOK
  <2>2. Len(frames') = 1 /\ frames'[1].elem = r /\ frames'[1].next = 1
    BY <2>1, SingletonSeq
  <2>3. TrackedSoFar'
    BY <1>0, <1>1, <2>1 DEF TrackedSoFar
  <2>4. ASSUME NEW S \in SUBSET Elements, Cyclic(S), r \in S
        PROVE  \E j \in DOMAIN deps[r] : j >= 1 /\ deps[r][j] \in S
    <3>1. DOMAIN deps[r] = 1 .. Len(deps[r]) /\ Len(deps[r]) \in Nat
      BY <1>0, <2>1, LenProperties DEF TypeOK
    <3> QED
      BY <2>4, <3>1 DEF Cyclic
  <2>5. CycleAhead'
    <3> SUFFICES ASSUME NEW S \in SUBSET Elements, Cyclic(S), r \in S
                 PROVE  \E f \in 1 .. Len(frames') :
                          /\ frames'[f].elem \in S
                          /\ \E j \in DOMAIN deps[frames'[f].elem] :
                               j >= frames'[f].next /\ deps[frames'[f].elem][j] \in S
      BY <1>1, <1>2, <2>1 DEF CycleAhead
    <3> QED
      BY <2>2, <2>4
  <2>6. CheckedClear'
    BY <1>1, <1>2, <1>3, <2>1 DEF CheckedClear
  <2> QED
    BY <2>3, <2>5, <2>6
<1>5. CASE ~(root < Len(roots))
  <2>1. root = Len(roots) /\ root' = root /\ phase' = "accepted"
    BY <1>1, <1>5 DEF NextRoot
  <2>2. TrackedSoFar' /\ CycleAhead'
    BY <1>0, <1>1, <2>1 DEF TrackedSoFar, CycleAhead
  <2>3. CheckedClear'
    BY <1>1, <1>2, <1>3, <2>1 DEF CheckedClear
  <2> QED
    BY <2>2, <2>3
<1> QED
  BY <1>4, <1>5

LEMMA VisitNewStep ==
  ASSUME CheckInv, VisitNew
  PROVE  CycleAhead'
<1>0. TypeOK /\ CycleAhead /\ frames \in Seq(FrameRec) /\ frames # <<>>
  BY DEF CheckInv, TypeOK, FrameRec, VisitNew, HasChild
<1> DEFINE n == Len(frames)
           new == [elem |-> Child, next |-> 1]
<1>1. Child \in Elements /\ new \in FrameRec
  BY <1>0, ChildTyped DEF VisitNew, FrameRec
<1>2. /\ Advance \in Seq(FrameRec) /\ Len(Advance) = n /\ n \in Nat /\ n > 0
      /\ \A f \in 1 .. n - 1 : Advance[f] = frames[f]
      /\ Advance[n].elem = Top.elem /\ Advance[n].next = Top.next + 1
      /\ Top = frames[n] /\ Top.next \in Nat /\ Top.elem \in Elements
  BY <1>0, AdvanceFacts, LenProperties DEF FrameRec
<1>3. /\ Len(frames') = n + 1
      /\ \A f \in 1 .. n : frames'[f] = Advance[f]
      /\ frames'[n + 1] = new
  BY <1>1, <1>2, AppendProperties DEF VisitNew
<1>4. /\ UNCHANGED <<bindings, roots, deps, root, result, phase>>
      /\ phase = "detect"
  BY DEF VisitNew, HasChild
<1>5. SUFFICES ASSUME ~result, NEW S \in SUBSET Elements, Cyclic(S), roots[root] \in S
               PROVE  \E f \in 1 .. n + 1 :
                        /\ frames'[f].elem \in S
                        /\ \E j \in DOMAIN deps[frames'[f].elem] :
                             j >= frames'[f].next /\ deps[frames'[f].elem][j] \in S
  BY <1>3, <1>4 DEF CycleAhead, Cyclic
<1>6. PICK f \in 1 .. n : /\ frames[f].elem \in S
                          /\ \E j \in DOMAIN deps[frames[f].elem] :
                               j >= frames[f].next /\ deps[frames[f].elem][j] \in S
  BY <1>0, <1>4, <1>5 DEF CycleAhead
<1>7. CASE f < n
  <2>1. f \in 1 .. n + 1 /\ frames'[f] = frames[f]
    BY <1>2, <1>3, <1>7
  <2> QED
    BY <1>6, <2>1
<1>8. CASE f = n
  <2>1. PICK j \in DOMAIN deps[Top.elem] : j >= Top.next /\ deps[Top.elem][j] \in S
    BY <1>2, <1>6, <1>8
  <2>2. j \in Nat
    <3>1. DOMAIN deps[Top.elem] = 1 .. Len(deps[Top.elem]) /\ Len(deps[Top.elem]) \in Nat
      BY <1>0, <1>2, LenProperties DEF TypeOK
    <3> QED
      BY <2>1, <3>1
  <2>3. CASE j = Top.next
    <3>1. Child \in S
      BY <2>1, <2>3 DEF Child
    <3>2. PICK k \in DOMAIN deps[Child] : deps[Child][k] \in S
      BY <1>5, <3>1 DEF Cyclic
    <3>3. k >= 1
      <4>1. DOMAIN deps[Child] = 1 .. Len(deps[Child]) /\ Len(deps[Child]) \in Nat
        BY <1>0, <1>1, LenProperties DEF TypeOK
      <4> QED
        BY <3>2, <4>1
    <3>4. n + 1 \in 1 .. n + 1 /\ frames'[n + 1].elem = Child /\ frames'[n + 1].next = 1
      BY <1>2, <1>3
    <3> QED
      BY <3>1, <3>2, <3>3, <3>4
  <2>4. CASE j # Top.next
    <3>1. j >= Top.next + 1
      BY <1>2, <2>1, <2>2, <2>4
    <3>2. n \in 1 .. n + 1 /\ frames'[n].elem = Top.elem /\ frames'[n].next = Top.next + 1
      BY <1>2, <1>3
    <3>3. Top.elem \in S
      BY <1>2, <1>6, <1>8
    <3> QED
      BY <2>1, <3>1, <3>2, <3>3
  <2> QED
    BY <2>3, <2>4
<1> QED
  BY <1>2, <1>6, <1>7, <1>8

LEMMA LeaveStep ==
  ASSUME CheckInv, Leave
  PROVE  CycleAhead'
<1>0. TypeOK /\ CycleAhead /\ frames \in Seq(FrameRec) /\ frames # <<>>
  BY DEF CheckInv, TypeOK, FrameRec, Leave
<1> DEFINE n == Len(frames)
<1>1. /\ Len(frames') = n - 1 /\ n \in Nat /\ n > 0
      /\ \A f \in 1 .. n - 1 : frames'[f] = frames[f]
      /\ Top = frames[n] /\ Top \in FrameRec
  BY <1>0, FrontFacts, LenProperties DEF Leave, Top
<1>2. /\ UNCHANGED <<bindings, roots, deps, root, result, phase>>
      /\ phase = "detect"
      /\ Top.next \notin DOMAIN deps[Top.elem]
  BY DEF Leave
<1>3. SUFFICES ASSUME ~result, NEW S \in SUBSET Elements, Cyclic(S), roots[root] \in S
               PROVE  \E f \in 1 .. n - 1 :
                        /\ frames'[f].elem \in S
                        /\ \E j \in DOMAIN deps[frames'[f].elem] :
                             j >= frames'[f].next /\ deps[frames'[f].elem][j] \in S
  BY <1>1, <1>2 DEF CycleAhead, Cyclic
<1>4. PICK f \in 1 .. n : /\ frames[f].elem \in S
                          /\ \E j \in DOMAIN deps[frames[f].elem] :
                               j >= frames[f].next /\ deps[frames[f].elem][j] \in S
  BY <1>0, <1>2, <1>3 DEF CycleAhead
<1>5. f # n
  <2>1. Top.elem \in Elements /\ Top.next \in Nat \ {0}
    BY <1>1 DEF FrameRec
  <2>2. DOMAIN deps[Top.elem] = 1 .. Len(deps[Top.elem]) /\ Len(deps[Top.elem]) \in Nat
    BY <1>0, <2>1, LenProperties DEF TypeOK
  <2> QED
    BY <1>1, <1>2, <1>4, <2>1, <2>2
<1>6. f \in 1 .. n - 1 /\ frames'[f] = frames[f]
  BY <1>1, <1>5
<1> QED
  BY <1>4, <1>6

LEMMA StepChecked == CheckInv /\ [CheckNext]_vars => CheckInv'
<1> SUFFICES ASSUME CheckInv, [CheckNext]_vars
             PROVE  CheckInv'
  OBVIOUS
<1>0. TypeOK /\ TypeOK'
  BY StepTyped DEF CheckInv
<1>1. CASE Track
  BY <1>0, <1>1, TrackStep DEF CheckInv
<1>2. CASE NextRoot
  BY <1>0, <1>2, NextRootStep DEF CheckInv
<1>3. ASSUME UNCHANGED <<bindings, roots, deps, root>>,
             phase = "detect", phase' \in {"detect", "aborted"}
      PROVE  TrackedSoFar' /\ CheckedClear'
  BY <1>3 DEF CheckInv, TrackedSoFar, CheckedClear, Cyclic
<1>4. CASE Abort
  <2>1. TrackedSoFar' /\ CheckedClear'
    BY <1>3, <1>4 DEF Abort
  <2>2. CycleAhead'
    BY <1>4 DEF Abort, CycleAhead
  <2> QED
    BY <1>0, <2>1, <2>2 DEF CheckInv
<1>5. CASE VisitNew
  <2>1. TrackedSoFar' /\ CheckedClear'
    BY <1>3, <1>5 DEF VisitNew, HasChild
  <2> QED
    BY <1>0, <1>5, <2>1, VisitNewStep DEF CheckInv
<1>6. CASE VisitSeen
  <2>1. TrackedSoFar' /\ CheckedClear'
    BY <1>3, <1>6 DEF VisitSeen, HasChild
  <2>2. CycleAhead'
    BY <1>6 DEF VisitSeen, CycleAhead
  <2> QED
    BY <1>0, <2>1, <2>2 DEF CheckInv
<1>7. CASE Leave
  <2>1. TrackedSoFar' /\ CheckedClear'
    BY <1>3, <1>7 DEF Leave
  <2> QED
    BY <1>0, <1>7, <2>1, LeaveStep DEF CheckInv
<1>8. CASE UNCHANGED vars
  <2>1. UNCHANGED <<bindings, roots, deps, root, frames, result, phase>>
    BY <1>8 DEF vars
  <2>2. TrackedSoFar'
    BY <2>1 DEF CheckInv, TrackedSoFar
  <2>3. CycleAhead'
    BY <2>1 DEF CheckInv, CycleAhead, Cyclic
  <2>4. CheckedClear'
    BY <2>1 DEF CheckInv, CheckedClear, Cyclic
  <2> QED
    BY <1>0, <2>2, <2>3, <2>4 DEF CheckInv
<1> QED
  BY <1>1, <1>2, <1>4, <1>5, <1>6, <1>7, <1>8 DEF CheckNext

LEMMA CheckedIsAcyclic == CheckInv => AcceptedAcyclic
<1> SUFFICES ASSUME CheckInv, phase = "accepted",
                    NEW S \in SUBSET Elements, Circular(S)
             PROVE  FALSE
  BY DEF AcceptedAcyclic
<1>0. TypeOK /\ TrackedSoFar /\ CheckedClear
  BY DEF CheckInv
<1>1. Len(roots) = Len(bindings) /\ DOMAIN bindings = 1 .. Len(roots)
  BY <1>0, LenProperties DEF TypeOK, TrackedSoFar
<1>2. ASSUME NEW s \in S
      PROVE  /\ \E i \in 1 .. Len(roots) : roots[i] = s
             /\ \E j \in DOMAIN deps[s] : deps[s][j] \in S
  <2>1. PICK i \in 1 .. Len(roots) :
          bindings[i].target = s /\ ToSet(bindings[i].operands) \cap S # {}
    BY <1>1 DEF Circular
  <2>2. roots[i] = s /\ ToSet(bindings[i].operands) \subseteq ToSet(deps[s])
    BY <1>0, <2>1 DEF TrackedSoFar
  <2>3. ToSet(deps[s]) \cap S # {}
    BY <2>1, <2>2
  <2> QED
    BY <2>2, <2>3 DEF ToSet
<1>3. Cyclic(S)
  BY <1>2 DEF Cyclic
<1>4. PICK s \in S : TRUE
  BY DEF Circular
<1> QED
  BY <1>0, <1>2, <1>3, <1>4 DEF CheckedClear

LEMMA CheckInvariant == CheckSpec => []CheckInv
BY InitChecked, StepChecked, PTL DEF CheckSpec

(* A class that the check lets through has no circular binding, whatever   *)
(* its elements and however many bindings it has.                          *)
THEOREM NoCircularBindingPasses == CheckSpec => []AcceptedAcyclic
BY CheckInvariant, CheckedIsAcyclic, PTL

-----------------------------------------------------------------------------
(* The recursion of the check is a path without repetition.                *)

(* Append adds one element.                                                *)
LEMMA AppendElements ==
  ASSUME NEW S, NEW s \in Seq(S), NEW x \in S
  PROVE  ToSet(Append(s, x)) = ToSet(s) \cup {x}
<1>1. PICK t : t = Append(s, x)
  OBVIOUS
<1>2. /\ Len(t) = Len(s) + 1 /\ Len(s) \in Nat /\ t \in Seq(S)
      /\ \A i \in 1 .. Len(s) : t[i] = s[i]
      /\ t[Len(s) + 1] = x
  BY <1>1, AppendProperties, LenProperties
<1>3. DOMAIN s = 1 .. Len(s) /\ DOMAIN t = 1 .. Len(s) + 1
  BY <1>2, LenProperties
<1>4. ToSet(t) = ToSet(s) \cup {x}
  BY <1>2, <1>3 DEF ToSet
<1> QED BY <1>1, <1>4

(* An element with an activation has been visited: visit never takes it    *)
(* again.  There is no activation before the search begins.                *)
PathInv ==
  /\ RecursionIsPath
  /\ \A i \in DOMAIN frames : frames[i].elem \in ToSet(visited)
  /\ phase = "track" => frames = <<>>

LEMMA VisitNewPath ==
  ASSUME TypeOK, PathInv, VisitNew
  PROVE  PathInv'
<1>1. frames \in Seq(FrameRec) /\ frames # <<>> /\ visited \in Seq(Elements)
  BY DEF TypeOK, FrameRec, VisitNew, HasChild
<1>2. PICK n, new, child : n = Len(frames) /\ new = [elem |-> Child, next |-> 1] /\ child = Child
  OBVIOUS
<1>3. child \in Elements /\ new \in FrameRec /\ new.elem = child
  BY <1>2, ChildTyped DEF VisitNew, FrameRec
<1>4. /\ Advance \in Seq(FrameRec) /\ Len(Advance) = n /\ n \in Nat /\ n > 0
      /\ \A i \in 1 .. n - 1 : Advance[i] = frames[i]
      /\ Advance[n].elem = frames[n].elem /\ Advance[n].next = frames[n].next + 1
      /\ frames[n].next \in Nat
      /\ child = deps[frames[n].elem][frames[n].next]
  BY <1>1, <1>2, AdvanceFacts, LenProperties DEF FrameRec, Child
<1>5. /\ Len(frames') = n + 1 /\ frames' \in Seq(FrameRec)
      /\ \A i \in 1 .. n : frames'[i] = Advance[i]
      /\ frames'[n + 1] = new
  BY <1>2, <1>3, <1>4, AppendProperties DEF VisitNew
<1>6. DOMAIN frames = 1 .. n /\ DOMAIN frames' = 1 .. n + 1
  BY <1>1, <1>2, <1>5, LenProperties
<1>7. \A i \in 1 .. n : frames'[i].elem = frames[i].elem
  <2>1. \A i \in 1 .. n : i \in 1 .. n - 1 \/ i = n
    BY <1>4
  <2> QED BY <1>4, <1>5, <2>1
<1>8. UNCHANGED <<deps, roots, root>> /\ phase' = "detect"
  BY DEF VisitNew, HasChild
<1>9. ToSet(visited') = ToSet(visited) \cup {child} /\ child \notin ToSet(visited)
  <2>1. ToSet(visited') = ToSet(visited) \cup {child}
    BY <1>1, <1>2, <1>3, AppendElements DEF VisitNew
  <2> QED BY <1>2, <2>1 DEF VisitNew
<1>10. \A i \in 1 .. n + 1 : i \in 1 .. n \/ i = n + 1
  BY <1>4
<1>11. \A i \in 1 .. n : frames[i].elem \in ToSet(visited) /\ frames[i].elem # child
  BY <1>6, <1>9 DEF PathInv
<1>12. \A i \in DOMAIN frames' : frames'[i].elem \in ToSet(visited')
  BY <1>3, <1>5, <1>6, <1>7, <1>9, <1>10, <1>11
<1>13. \A i, j \in DOMAIN frames' : frames'[i].elem = frames'[j].elem => i = j
  <2> SUFFICES ASSUME NEW i \in 1 .. n + 1, NEW j \in 1 .. n + 1,
                      frames'[i].elem = frames'[j].elem
               PROVE  i = j
    BY <1>6
  <2>1. CASE i \in 1 .. n /\ j \in 1 .. n
    BY <1>6, <1>7, <2>1 DEF PathInv, RecursionIsPath
  <2>2. CASE i = n + 1 /\ j \in 1 .. n
    BY <1>3, <1>5, <1>7, <1>11, <2>2
  <2>3. CASE i \in 1 .. n /\ j = n + 1
    BY <1>3, <1>5, <1>7, <1>11, <2>3
  <2> QED BY <1>10, <2>1, <2>2, <2>3
<1>14. ASSUME NEW i \in 1 .. n + 1
       PROVE  IF i = 1 THEN frames'[i].elem = roots[root]
              ELSE frames'[i].elem = deps[frames'[i - 1].elem][frames'[i - 1].next - 1]
  <2>1. CASE i = 1
    <3>1. 1 \in 1 .. n
      BY <1>4
    <3> QED BY <1>6, <1>7, <2>1, <3>1 DEF PathInv, RecursionIsPath
  <2>2. CASE i # 1 /\ i # n + 1
    <3>1. i \in 1 .. n /\ i - 1 \in 1 .. n - 1 /\ i - 1 \in 1 .. n
      BY <1>4, <2>2
    <3>2. frames'[i].elem = frames[i].elem /\ frames'[i - 1] = frames[i - 1]
      BY <1>4, <1>5, <1>7, <3>1
    <3> QED BY <1>6, <2>2, <3>1, <3>2 DEF PathInv, RecursionIsPath
  <2>3. CASE i = n + 1
    <3>1. n \in 1 .. n /\ i # 1 /\ i - 1 = n
      BY <1>4, <2>3
    <3>2. frames'[n].elem = frames[n].elem /\ frames'[n].next - 1 = frames[n].next
      BY <1>4, <1>5, <3>1
    <3> QED BY <1>3, <1>4, <1>5, <2>3, <3>1, <3>2
  <2> QED BY <2>1, <2>2, <2>3
<1>15. RecursionIsPath'
  BY <1>6, <1>8, <1>13, <1>14 DEF RecursionIsPath
<1> QED BY <1>8, <1>12, <1>15 DEF PathInv

(* An activation ends.                                                     *)
LEMMA ReturnPath ==
  ASSUME TypeOK, PathInv, VisitSeen \/ Leave
  PROVE  PathInv'
<1>1. /\ frames \in Seq(FrameRec) /\ frames # <<>> /\ frames' = Front(frames)
      /\ UNCHANGED <<deps, roots, root, visited>> /\ phase' = "detect"
  BY DEF TypeOK, FrameRec, VisitSeen, HasChild, Leave
<1>2. PICK n : n = Len(frames)
  OBVIOUS
<1>3. /\ frames' \in Seq(FrameRec) /\ Len(frames') = n - 1 /\ n \in Nat /\ n > 0
      /\ \A i \in 1 .. n - 1 : frames'[i] = frames[i]
  BY <1>1, <1>2, FrontFacts, LenProperties
<1>4. DOMAIN frames = 1 .. n /\ DOMAIN frames' = 1 .. n - 1
  BY <1>1, <1>2, <1>3, LenProperties
<1>5. \A i \in 1 .. n - 1 : i \in 1 .. n /\ (i # 1 => i - 1 \in 1 .. n - 1)
  BY <1>3
<1>6. \A i \in DOMAIN frames' : frames'[i].elem \in ToSet(visited)
  BY <1>3, <1>4, <1>5 DEF PathInv
<1>7. RecursionIsPath'
  BY <1>1, <1>3, <1>4, <1>5 DEF PathInv, RecursionIsPath
<1> QED BY <1>1, <1>6, <1>7 DEF PathInv

LEMMA NextRootPath ==
  ASSUME TypeOK, PathInv, NextRoot
  PROVE  PathInv'
<1>1. frames = <<>> /\ UNCHANGED <<roots, deps>>
  BY DEF NextRoot, PathInv
<1>2. CASE root < Len(roots)
  <2>1. PICK r : r = roots[root + 1]
    OBVIOUS
  <2>2. /\ visited' = <<r>> /\ frames' = <<[elem |-> r, next |-> 1]>>
        /\ roots'[root'] = r /\ phase' = "detect"
    BY <1>1, <1>2, <2>1 DEF NextRoot
  <2>3. DOMAIN frames' = {1} /\ frames'[1].elem = r /\ r \in ToSet(visited')
    BY <2>2 DEF ToSet
  <2> QED BY <2>2, <2>3 DEF PathInv, RecursionIsPath
<1>3. CASE ~(root < Len(roots))
  BY <1>1, <1>3 DEF NextRoot, PathInv, RecursionIsPath
<1> QED BY <1>2, <1>3

LEMMA StepPath == TypeOK /\ PathInv /\ [CheckNext]_vars => PathInv'
<1> SUFFICES ASSUME TypeOK, PathInv, [CheckNext]_vars PROVE PathInv'
  OBVIOUS
<1>1. CASE Track
  BY <1>1 DEF Track, PathInv, RecursionIsPath
<1>2. CASE Abort
  BY <1>2 DEF Abort, PathInv, RecursionIsPath
<1>3. CASE UNCHANGED vars
  BY <1>3 DEF vars, PathInv, RecursionIsPath
<1> QED BY <1>1, <1>2, <1>3, VisitNewPath, ReturnPath, NextRootPath DEF CheckNext

LEMMA PathInvariant == CheckSpec => []PathInv
<1>1. Init => PathInv
  BY DEF Init, PathInv, RecursionIsPath
<1> QED BY <1>1, StepPath, CheckTypeCorrect, PTL DEF CheckSpec

(* sema::visit recurses along a path of the dependency graph that starts   *)
(* at the target and meets no element twice, for every class: the visited  *)
(* list is what keeps a circular class from recursing for ever.            *)
THEOREM VisitFollowsPath == CheckSpec => []RecursionIsPath
<1>1. PathInv => RecursionIsPath
  BY DEF PathInv
<1> QED BY <1>1, PathInvariant, PTL

(* So there are never more activations of visit than identifiers in the    *)
(* class.                                                                  *)
THEOREM VisitDepthBounded ==
  ASSUME IsFiniteSet(Elements)
  PROVE  CheckSpec => [](Len(frames) <= Cardinality(Elements))
<1>1. TypeOK /\ RecursionIsPath => Len(frames) <= Cardinality(Elements)
  <2> SUFFICES ASSUME TypeOK, RecursionIsPath PROVE Len(frames) <= Cardinality(Elements)
    OBVIOUS
  <2> DEFINE g == [i \in 1 .. Len(frames) |-> frames[i].elem]
  <2>1. frames \in Seq(FrameRec) /\ DOMAIN frames = 1 .. Len(frames) /\ Len(frames) \in Nat
    BY LenProperties DEF TypeOK, FrameRec
  <2>2. \A i \in 1 .. Len(frames) : frames[i].elem \in Elements
    <3>1. \A i \in 1 .. Len(frames) : frames[i] \in FrameRec
      BY <2>1, ElementOfSeq
    <3> QED BY <3>1 DEF FrameRec
  <2>3. g \in Injection(1 .. Len(frames), Elements)
    BY <2>1, <2>2 DEF Injection, IsInjective, RecursionIsPath
  <2>4. Cardinality(1 .. Len(frames)) <= Cardinality(Elements)
    BY <2>3, FS_Injection
  <2>5. Cardinality(1 .. Len(frames)) = Len(frames)
    BY <2>1, FS_Interval
  <2> QED BY <2>4, <2>5
<1> QED BY <1>1, VisitFollowsPath, CheckTypeCorrect, PTL

-----------------------------------------------------------------------------
(* What the verdict means.  The graph d is that of the operands; it is a   *)
(* constant here, so that the lemmas hold before and after a step.         *)

Graph == [Elements -> Seq(Elements)]

SuccIn(d, S) == UNION {ToSet(d[s]) : s \in S}

Unfolds(d, S, N, g) ==
  g = [n \in 0 .. N |-> IF n = 0 THEN S ELSE g[n - 1] \cup SuccIn(d, g[n - 1])]

(* The rounds of Reach, and the edges IsTree counts.                       *)
Rounds(d, S) == CHOOSE g : Unfolds(d, S, Cardinality(Elements), g)
ReachIn(d, e) == Rounds(d, {e})[Cardinality(Elements)]
Edges(d, S) == UNION {{s} \X DOMAIN d[s] : s \in S}
TreeIn(d, e) ==
  Cardinality(Edges(d, ReachIn(d, e))) = Cardinality(ReachIn(d, e)) - 1

LEMMA TreeIsTreeIn == TRUE => \A e : IsTree(e) <=> TreeIn(deps, e)
<1>1. \A S : Reach(S) = Rounds(deps, S)[Cardinality(Elements)]
  BY DEF Reach, Succ, SuccIn, Rounds, Unfolds
<1>2. ASSUME NEW e PROVE IsTree(e) <=> TreeIn(deps, e)
  <2>1. Reach({e}) = ReachIn(deps, e)
    BY <1>1 DEF ReachIn
  <2> QED BY <2>1 DEF IsTree, TreeIn, Edges
<1> QED BY <1>2

(* A set of naturals up to n has a least element.                          *)
LEMMA FirstOf ==
  ASSUME NEW n \in Nat, NEW T, T \subseteq 0 .. n, T # {}
  PROVE  \E i \in T : \A j \in 0 .. i - 1 : j \notin T
<1>1. T \subseteq Nat
  OBVIOUS
<1>2. PICK i \in T : \A j \in T : <<j, i>> \notin OpToRel(<, Nat)
  BY <1>1, NatLessThanWellFounded, WFMin, Zenon
<1>3. \A j \in T : ~ (j < i)
  BY <1>1, <1>2 DEF OpToRel
<1> QED BY <1>1, <1>3

(* The rounds of Reach exist: by induction, those up to n do.              *)
LEMMA RoundsExist ==
  ASSUME NEW d, NEW S, NEW N \in Nat
  PROVE  \E g : Unfolds(d, S, N, g)
<1> DEFINE Upto(k, g) == Unfolds(d, S, k, g)
           T == {k \in 0 .. N : ~ \E g : Upto(k, g)}
<1>1. SUFFICES ASSUME T # {} PROVE FALSE
  <2>1. N \in 0 .. N
    OBVIOUS
  <2> QED BY <1>1, <2>1
<1>2. PICK k \in T : \A j \in 0 .. k - 1 : j \notin T
  BY <1>1, FirstOf
<1>3. CASE k = 0
  <2>1. PICK g : g = [n \in 0 .. 0 |-> S]
    OBVIOUS
  <2>2. Upto(0, g)
    BY <2>1 DEF Unfolds
  <2> QED BY <1>2, <1>3, <2>2
<1>4. CASE k # 0
  <2>1. k - 1 \in 0 .. k - 1 /\ k - 1 \in 0 .. N /\ k \in Nat
    BY <1>2, <1>4
  <2>2. PICK g : Upto(k - 1, g)
    BY <1>2, <2>1
  <2>3. PICK h : h = [n \in 0 .. k |-> IF n = k THEN g[k - 1] \cup SuccIn(d, g[k - 1]) ELSE g[n]]
    OBVIOUS
  <2>4. /\ h[0] = S /\ h[k - 1] = g[k - 1]
        /\ \A n \in 0 .. k : n # 0 /\ n # k => h[n] = h[n - 1] \cup SuccIn(d, h[n - 1])
        /\ h[k] = g[k - 1] \cup SuccIn(d, g[k - 1])
    <3>1. h[0] = S
      BY <1>4, <2>1, <2>2, <2>3 DEF Unfolds
    <3>2. h[k - 1] = g[k - 1] /\ h[k] = g[k - 1] \cup SuccIn(d, g[k - 1])
      BY <2>1, <2>3
    <3>3. ASSUME NEW n \in 0 .. k, n # 0, n # k
          PROVE  h[n] = h[n - 1] \cup SuccIn(d, h[n - 1])
      <4>1. n \in 0 .. k - 1 /\ n - 1 \in 0 .. k /\ n - 1 # k
        BY <2>1, <3>3
      <4>2. h[n] = g[n] /\ h[n - 1] = g[n - 1]
        BY <2>3, <3>3, <4>1
      <4>3. g[n] = g[n - 1] \cup SuccIn(d, g[n - 1])
        BY <2>2, <3>3, <4>1 DEF Unfolds
      <4> QED BY <4>2, <4>3
    <3> QED BY <3>1, <3>2, <3>3
  <2>5. \A n \in 0 .. k : h[n] = IF n = 0 THEN S ELSE h[n - 1] \cup SuccIn(d, h[n - 1])
    BY <1>4, <2>4
  <2>6. Upto(k, h)
    BY <2>3, <2>5 DEF Unfolds
  <2> QED BY <1>2, <2>6
<1> QED BY <1>3, <1>4

LEMMA RoundsUnfold ==
  ASSUME IsFiniteSet(Elements), NEW d, NEW S
  PROVE  /\ Cardinality(Elements) \in Nat
         /\ Rounds(d, S)[0] = S
         /\ \A n \in 1 .. Cardinality(Elements) :
              Rounds(d, S)[n] = Rounds(d, S)[n - 1] \cup SuccIn(d, Rounds(d, S)[n - 1])
<1>1. Cardinality(Elements) \in Nat
  BY FS_CardinalityType
<1>2. \E g : Unfolds(d, S, Cardinality(Elements), g)
  BY <1>1, RoundsExist
<1>3. PICK g : g = Rounds(d, S)
  OBVIOUS
<1>4. Unfolds(d, S, Cardinality(Elements), g)
  BY <1>2, <1>3 DEF Rounds
<1>5. g[0] = S
  BY <1>1, <1>4 DEF Unfolds
<1>6. ASSUME NEW n \in 1 .. Cardinality(Elements)
      PROVE  g[n] = g[n - 1] \cup SuccIn(d, g[n - 1])
  <2>1. n \in 0 .. Cardinality(Elements) /\ n # 0
    BY <1>1
  <2> QED BY <1>4, <2>1 DEF Unfolds
<1> QED BY <1>1, <1>3, <1>5, <1>6

(* A closed set with the start holds all rounds.                           *)
LEMMA RoundsBelow ==
  ASSUME IsFiniteSet(Elements), NEW d, NEW S, NEW V, S \subseteq V,
         \A s \in V : ToSet(d[s]) \subseteq V
  PROVE  \A n \in 0 .. Cardinality(Elements) : Rounds(d, S)[n] \subseteq V
<1>1. PICK N, g : N = Cardinality(Elements) /\ g = Rounds(d, S)
  OBVIOUS
<1>2. /\ N \in Nat /\ g[0] = S
      /\ \A n \in 1 .. N : g[n] = g[n - 1] \cup SuccIn(d, g[n - 1])
  BY <1>1, RoundsUnfold
<1> DEFINE T == {n \in 0 .. N : ~ (g[n] \subseteq V)}
<1>3. SUFFICES ASSUME T # {} PROVE FALSE
  BY <1>1
<1>4. PICK n \in T : \A j \in 0 .. n - 1 : j \notin T
  BY <1>2, <1>3, FirstOf
<1>5. n # 0
  BY <1>2, <1>4
<1>6. n \in 1 .. N /\ n - 1 \in 0 .. n - 1 /\ n - 1 \in 0 .. N
  BY <1>2, <1>4, <1>5
<1>7. g[n - 1] \subseteq V
  BY <1>4, <1>6
<1>8. SuccIn(d, g[n - 1]) \subseteq V
  BY <1>7 DEF SuccIn
<1>9. g[n] \subseteq V
  BY <1>2, <1>6, <1>7, <1>8
<1> QED BY <1>4, <1>9

(* Later rounds hold the earlier ones.                                     *)
LEMMA RoundsGrow ==
  ASSUME IsFiniteSet(Elements), NEW d, NEW S, NEW m \in 0 .. Cardinality(Elements)
  PROVE  Rounds(d, S)[m] \subseteq Rounds(d, S)[Cardinality(Elements)]
<1>1. PICK N, g : N = Cardinality(Elements) /\ g = Rounds(d, S)
  OBVIOUS
<1>2. /\ N \in Nat /\ m \in 0 .. N
      /\ \A n \in 1 .. N : g[n] = g[n - 1] \cup SuccIn(d, g[n - 1])
  BY <1>1, RoundsUnfold
<1> DEFINE T == {n \in 0 .. N : m <= n /\ ~ (g[m] \subseteq g[n])}
<1>3. SUFFICES ASSUME T # {} PROVE FALSE
  <2>1. N \in 0 .. N /\ m <= N
    BY <1>2
  <2> QED BY <1>1, <1>3, <2>1
<1>4. PICK n \in T : \A j \in 0 .. n - 1 : j \notin T
  BY <1>2, <1>3, FirstOf
<1>5. n # m
  BY <1>4
<1>6. n \in 1 .. N /\ n - 1 \in 0 .. n - 1 /\ n - 1 \in 0 .. N /\ m <= n - 1
  BY <1>2, <1>4, <1>5
<1>7. g[m] \subseteq g[n - 1]
  BY <1>4, <1>6
<1>8. g[m] \subseteq g[n]
  BY <1>2, <1>6, <1>7
<1> QED BY <1>4, <1>8

LEMMA ReachTyped ==
  ASSUME IsFiniteSet(Elements), NEW d \in Graph, NEW e \in Elements
  PROVE  /\ ReachIn(d, e) \subseteq Elements /\ IsFiniteSet(ReachIn(d, e))
         /\ e \in ReachIn(d, e)
         /\ \A x \in ReachIn(d, e) \ {e} : \E s \in ReachIn(d, e) :
              \E i \in DOMAIN d[s] : d[s][i] = x
<1>1. PICK N, g, S : N = Cardinality(Elements) /\ g = Rounds(d, {e}) /\ S = ReachIn(d, e)
  OBVIOUS
<1>2. /\ N \in Nat /\ g[0] = {e}
      /\ \A n \in 1 .. N : g[n] = g[n - 1] \cup SuccIn(d, g[n - 1])
  BY <1>1, RoundsUnfold
<1>3. S = g[N] /\ \A n \in 0 .. N : g[n] \subseteq S
  BY <1>1, RoundsGrow DEF ReachIn
<1>4. S \subseteq Elements
  <2>1. \A s \in Elements : ToSet(d[s]) \subseteq Elements
    <3> SUFFICES ASSUME NEW s \in Elements, NEW i \in DOMAIN d[s] PROVE d[s][i] \in Elements
      BY DEF ToSet
    <3>1. d[s] \in Seq(Elements)
      BY DEF Graph
    <3> QED BY <3>1, LenProperties, ElementOfSeq
  <2>2. {e} \subseteq Elements /\ N \in 0 .. N
    BY <1>2
  <2> QED BY <1>1, <1>3, <2>1, <2>2, RoundsBelow
<1>5. IsFiniteSet(S)
  BY <1>4, FS_Subset
<1>6. e \in S
  <2>1. 0 \in 0 .. N
    BY <1>2
  <2> QED BY <1>2, <1>3, <2>1
<1>7. ASSUME NEW x \in S \ {e}
      PROVE  \E s \in S : \E i \in DOMAIN d[s] : d[s][i] = x
  <2> DEFINE T == {n \in 0 .. N : x \in g[n]}
  <2>1. N \in T
    BY <1>2, <1>3, <1>7
  <2>2. PICK n \in T : \A j \in 0 .. n - 1 : j \notin T
    BY <1>2, <2>1, FirstOf, ZenonT(40)
  <2>3. n # 0
    BY <1>2, <1>7, <2>2
  <2>4. n \in 1 .. N /\ n - 1 \in 0 .. n - 1 /\ n - 1 \in 0 .. N
    BY <1>2, <2>2, <2>3
  <2>5. x \in g[n] /\ x \notin g[n - 1]
    BY <2>2, <2>4
  <2>6. x \in SuccIn(d, g[n - 1])
    BY <1>2, <2>4, <2>5
  <2>7. PICK s \in g[n - 1] : x \in ToSet(d[s])
    BY <2>6 DEF SuccIn
  <2>8. s \in S
    BY <1>3, <2>4, <2>7
  <2> QED BY <2>7, <2>8 DEF ToSet
<1> QED BY <1>1, <1>4, <1>5, <1>6, <1>7

LEMMA EdgesFinite ==
  ASSUME IsFiniteSet(Elements), NEW d \in Graph, NEW S, S \subseteq Elements
  PROVE  /\ IsFiniteSet(Edges(d, S))
         /\ \A x : x \in Edges(d, S) <=> \E s \in S : \E i \in DOMAIN d[s] : x = <<s, i>>
<1> DEFINE Of(s) == {s} \X DOMAIN d[s]
           All == {Of(s) : s \in S}
           g == [s \in S |-> Of(s)]
<1>1. IsFiniteSet(S)
  BY FS_Subset
<1>2. g \in Surjection(S, All)
  BY DEF Surjection
<1>3. IsFiniteSet(All)
  BY <1>1, <1>2, FS_Surjection
<1>4. ASSUME NEW s \in S PROVE IsFiniteSet(Of(s))
  <2>1. DOMAIN d[s] = 1 .. Len(d[s]) /\ Len(d[s]) \in Nat
    BY LenProperties DEF Graph
  <2>2. IsFiniteSet(DOMAIN d[s])
    <3>1. PICK n \in Int : n = Len(d[s])
      BY <2>1
    <3>2. IsFiniteSet(1 .. n)
      BY FS_Interval
    <3> QED BY <2>1, <3>1, <3>2
  <2>3. IsFiniteSet({s})
    BY FS_Singleton
  <2> QED BY <2>2, <2>3, FS_Product
<1>5. \A T \in All : IsFiniteSet(T)
  BY <1>4
<1>6. IsFiniteSet(UNION All)
  BY <1>3, <1>5, FS_UNION
<1>7. Edges(d, S) = UNION All
  BY DEF Edges
<1> QED BY <1>6, <1>7

(* A closed set whose edges lead to different elements, and none to e.     *)
LEMMA TreeByTargets ==
  ASSUME IsFiniteSet(Elements), NEW d \in Graph, NEW e \in Elements,
         NEW S, S = ReachIn(d, e),
         \A s \in S : \A i \in DOMAIN d[s] :
           /\ d[s][i] \in S \ {e}
           /\ \A t \in S : \A j \in DOMAIN d[t] : d[t][j] = d[s][i] => t = s /\ j = i
  PROVE  TreeIn(d, e)
<1>1. /\ S \subseteq Elements /\ IsFiniteSet(S) /\ e \in S
      /\ \A x \in S \ {e} : \E s \in S : \E i \in DOMAIN d[s] : d[s][i] = x
  BY ReachTyped
<1> DEFINE g == [x \in Edges(d, S) |-> d[x[1]][x[2]]]
<1>2. \A x : x \in Edges(d, S) <=> \E s \in S : \E i \in DOMAIN d[s] : x = <<s, i>>
  BY <1>1, EdgesFinite
<1>3. g \in [Edges(d, S) -> S \ {e}]
  BY <1>2
<1>4. \A x, y \in Edges(d, S) : g[x] = g[y] => x = y
  <2> SUFFICES ASSUME NEW x \in Edges(d, S), NEW y \in Edges(d, S), g[x] = g[y] PROVE x = y
    OBVIOUS
  <2>1. PICK s \in S : \E i \in DOMAIN d[s] : x = <<s, i>>
    BY <1>2
  <2>2. PICK i \in DOMAIN d[s] : x = <<s, i>>
    BY <2>1
  <2>3. PICK t \in S : \E j \in DOMAIN d[t] : y = <<t, j>>
    BY <1>2
  <2>4. PICK j \in DOMAIN d[t] : y = <<t, j>>
    BY <2>3
  <2>5. d[t][j] = d[s][i]
    BY <2>2, <2>4
  <2> QED BY <2>2, <2>4, <2>5
<1>5. \A z \in S \ {e} : \E x \in Edges(d, S) : g[x] = z
  <2> SUFFICES ASSUME NEW z \in S \ {e} PROVE \E x \in Edges(d, S) : g[x] = z
    OBVIOUS
  <2>1. PICK s \in S : \E i \in DOMAIN d[s] : d[s][i] = z
    BY <1>1
  <2>2. PICK i \in DOMAIN d[s] : d[s][i] = z
    BY <2>1
  <2>3. <<s, i>> \in Edges(d, S) /\ g[<<s, i>>] = z
    BY <1>2, <2>2
  <2> QED BY <2>3
<1> HIDE DEF g
<1>6. g \in Injection(Edges(d, S), S \ {e}) /\ g \in Surjection(Edges(d, S), S \ {e})
  BY <1>3, <1>4, <1>5 DEF Injection, IsInjective, Surjection
<1>7. IsFiniteSet(S \ {e}) /\ Cardinality(S \ {e}) = Cardinality(S) - 1
  BY <1>1, FS_RemoveElement
<1>8. Cardinality(Edges(d, S)) = Cardinality(S \ {e})
  BY <1>6, <1>7, FS_Injection
<1> QED BY <1>7, <1>8 DEF TreeIn

(* Two edges that lead to the same element, or one that leads to e.        *)
LEMMA NoTreeByTargets ==
  ASSUME IsFiniteSet(Elements), NEW d \in Graph, NEW e \in Elements,
         NEW s \in ReachIn(d, e), NEW i \in DOMAIN d[s],
         \/ d[s][i] = e
         \/ \E t \in ReachIn(d, e) : \E j \in DOMAIN d[t] :
              d[t][j] = d[s][i] /\ <<t, j>> # <<s, i>>
  PROVE  ~TreeIn(d, e)
<1>1. PICK S : S = ReachIn(d, e)
  OBVIOUS
<1>2. /\ S \subseteq Elements /\ IsFiniteSet(S) /\ e \in S
      /\ \A x \in S \ {e} : \E p \in S : \E q \in DOMAIN d[p] : d[p][q] = x
  BY <1>1, ReachTyped
<1>3. PICK E : E = Edges(d, S)
  OBVIOUS
<1>4. /\ IsFiniteSet(E)
      /\ \A x : x \in E <=> \E p \in S : \E q \in DOMAIN d[p] : x = <<p, q>>
  BY <1>2, <1>3, EdgesFinite, SMTT(20)
<1> DEFINE Target(x) == d[x[1]][x[2]]
           g == [x \in S \ {e} |-> CHOOSE y \in E : Target(y) = x]
<1>5. \A x \in S \ {e} : g[x] \in E /\ Target(g[x]) = x
  <2> SUFFICES ASSUME NEW x \in S \ {e} PROVE g[x] \in E /\ Target(g[x]) = x
    OBVIOUS
  <2>1. PICK p \in S : \E q \in DOMAIN d[p] : d[p][q] = x
    BY <1>2
  <2>2. PICK q \in DOMAIN d[p] : d[p][q] = x
    BY <2>1
  <2>3. <<p, q>> \in E /\ Target(<<p, q>>) = x
    BY <1>4, <2>2
  <2>4. g[x] = CHOOSE y \in E : Target(y) = x
    OBVIOUS
  <2>5. \E y \in E : Target(y) = x
    BY <2>3
  <2> HIDE DEF g, Target
  <2> QED BY <2>4, <2>5, ZenonT(40)
<1>6. DOMAIN g = S \ {e}
  OBVIOUS
<1> HIDE DEF g
<1>7. \E X \in E : \A x \in S \ {e} : g[x] # X
  <2>1. <<s, i>> \in E /\ Target(<<s, i>>) = d[s][i]
    BY <1>1, <1>4
  <2>2. CASE d[s][i] = e
    BY <1>5, <2>1, <2>2
  <2>3. CASE d[s][i] # e
    <3>1. PICK t \in S : \E j \in DOMAIN d[t] : d[t][j] = d[s][i] /\ <<t, j>> # <<s, i>>
      BY <1>1, <2>3
    <3>2. PICK j \in DOMAIN d[t] : d[t][j] = d[s][i] /\ <<t, j>> # <<s, i>>
      BY <3>1
    <3>3. <<t, j>> \in E /\ Target(<<t, j>>) = d[s][i]
      BY <1>4, <3>2
    <3>4. PICK X \in E : Target(X) = d[s][i] /\ X # g[d[s][i]]
      BY <2>1, <3>2, <3>3
    <3> QED BY <1>5, <3>4
  <2> QED BY <2>2, <2>3
<1>8. PICK X \in E : \A x \in S \ {e} : g[x] # X
  BY <1>7
<1>9. g \in Injection(S \ {e}, E \ {X})
  <2>1. g \in [S \ {e} -> E \ {X}]
    <3>1. g = [x \in S \ {e} |-> g[x]]
      BY DEF g
    <3> QED BY <1>5, <1>8, <3>1
  <2>2. \A x, y \in S \ {e} : g[x] = g[y] => x = y
    BY <1>5
  <2> QED BY <2>1, <2>2 DEF Injection, IsInjective
<1>10. IsFiniteSet(E \ {X}) /\ Cardinality(E \ {X}) = Cardinality(E) - 1
  BY <1>4, <1>8, FS_RemoveElement
<1>11. Cardinality(S \ {e}) = Cardinality(S) - 1 /\ Cardinality(S) \in Nat
  BY <1>2, FS_RemoveElement, FS_CardinalityType
<1>12. Cardinality(S \ {e}) <= Cardinality(E \ {X}) /\ Cardinality(E) \in Nat
  BY <1>4, <1>9, <1>10, FS_Injection, FS_CardinalityType
<1>13. Cardinality(E) # Cardinality(S) - 1
  BY <1>10, <1>11, <1>12
<1> QED BY <1>1, <1>3, <1>13 DEF TreeIn

-----------------------------------------------------------------------------
(* What the search has seen: V are the elements visited from e, F the      *)
(* activations of visit.                                                   *)

(* visit has been through edge i of s.                                     *)
Passed(F, s, i) == \A k \in DOMAIN F : F[k].elem = s => i < F[k].next

(* Every element but e was entered through an edge, no two edges led to    *)
(* the same element, and an activation is no deeper than its element.      *)
Entered(d, e, V, F) ==
  \A x \in V \ {e} : \E s \in V : \E i \in DOMAIN d[s] : Passed(F, s, i) /\ d[s][i] = x

Apart(d, e, V, F) ==
  \A s \in V : \A i \in DOMAIN d[s] : Passed(F, s, i) =>
    /\ d[s][i] \in V \ {e}
    /\ \A t \in V : \A j \in DOMAIN d[t] :
         Passed(F, t, j) /\ d[t][j] = d[s][i] => t = s /\ j = i

Deep(d, e, F) == \A k \in DOMAIN F : F[k].elem \in Rounds(d, {e})[k - 1]

Explored(d, e, V, F) ==
  /\ e \in V /\ V \subseteq ReachIn(d, e)
  /\ Entered(d, e, V, F) /\ Apart(d, e, V, F) /\ Deep(d, e, F)

LEMMA ExploredStart ==
  ASSUME IsFiniteSet(Elements), NEW d \in Graph, NEW e \in Elements,
         NEW F, DOMAIN F = {1}, F[1].elem = e, F[1].next = 1
  PROVE  Explored(d, e, {e}, F)
<1>1. e \in ReachIn(d, e) /\ Rounds(d, {e})[0] = {e}
  BY ReachTyped, RoundsUnfold
<1>2. \A i \in DOMAIN d[e] : ~Passed(F, e, i)
  <2>1. DOMAIN d[e] = 1 .. Len(d[e]) /\ Len(d[e]) \in Nat
    BY LenProperties DEF Graph
  <2> QED BY <2>1 DEF Passed
<1>3. Entered(d, e, {e}, F) /\ Apart(d, e, {e}, F)
  BY <1>2 DEF Entered, Apart
<1>4. Deep(d, e, F)
  BY <1>1 DEF Deep
<1> QED BY <1>1, <1>3, <1>4 DEF Explored

(* visit goes on from the n-th activation, at edge i of s, in child c.     *)
Descent(V, F, G, n, s, i, c) ==
  /\ DOMAIN F = 1 .. n /\ DOMAIN G = 1 .. n + 1
  /\ F[n].elem = s /\ F[n].next = i
  /\ \A k, l \in 1 .. n : F[k].elem = F[l].elem => k = l
  /\ \A k \in 1 .. n : F[k].elem \in V
  /\ \A k \in 1 .. n - 1 : G[k] = F[k]
  /\ G[n].elem = s /\ G[n].next = i + 1
  /\ G[n + 1].elem = c /\ G[n + 1].next = 1

LEMMA ExploredChild ==
  ASSUME IsFiniteSet(Elements), NEW d \in Graph, NEW e \in Elements,
         NEW V, NEW F, NEW G, NEW n \in Nat, n > 0, n <= Cardinality(Elements),
         Explored(d, e, V, F),
         NEW s \in V, NEW i \in DOMAIN d[s], NEW c, c = d[s][i], c \notin V,
         Descent(V, F, G, n, s, i, c)
  PROVE  Explored(d, e, V \cup {c}, G)
<1> USE DEF Descent
<1>1. PICK W : W = V \cup {c}
  OBVIOUS
<1>2. /\ e \in V /\ V \subseteq ReachIn(d, e) /\ ReachIn(d, e) \subseteq Elements
      /\ Entered(d, e, V, F) /\ Apart(d, e, V, F) /\ Deep(d, e, F)
  BY ReachTyped DEF Explored
<1>3. s \in Elements /\ i \in Nat /\ c \in Elements
  <2>1. d[s] \in Seq(Elements)
    BY <1>2 DEF Graph
  <2> QED BY <1>2, <2>1, LenProperties, ElementOfSeq
<1>4. c \in Rounds(d, {e})[n] /\ c \in ReachIn(d, e)
  <2>1. s \in Rounds(d, {e})[n - 1]
    <3>1. n \in DOMAIN F
      OBVIOUS
    <3> QED BY <1>2, <3>1 DEF Deep
  <2>2. n \in 1 .. Cardinality(Elements) /\ n \in 0 .. Cardinality(Elements)
    <3>1. Cardinality(Elements) \in Nat
      BY FS_CardinalityType
    <3> QED BY <3>1
  <2>3. c \in SuccIn(d, Rounds(d, {e})[n - 1])
    <3>1. c \in ToSet(d[s])
      BY DEF ToSet
    <3> QED BY <2>1, <3>1 DEF SuccIn
  <2>4. c \in Rounds(d, {e})[n]
    BY <2>2, <2>3, RoundsUnfold
  <2> QED BY <2>2, <2>4, RoundsGrow DEF ReachIn
<1>5. \A k \in 1 .. n + 1 : k \in 1 .. n - 1 \/ k = n \/ k = n + 1
  OBVIOUS
<1>6. \A k \in 1 .. n - 1 : k \in 1 .. n /\ F[k].elem # s /\ n \in 1 .. n
  OBVIOUS
<1>7. ASSUME NEW t \in V, NEW j \in DOMAIN d[t]
      PROVE  Passed(G, t, j) <=> Passed(F, t, j) \/ (t = s /\ j = i)
  <2>1. j \in Nat
    <3>1. d[t] \in Seq(Elements)
      BY <1>2 DEF Graph
    <3> QED BY <3>1, LenProperties
  <2>2. CASE t # s
    <3>1. Passed(G, t, j) <=> \A k \in 1 .. n - 1 : F[k].elem = t => j < F[k].next
      BY <1>5, <1>6, <2>2 DEF Passed
    <3>2. Passed(F, t, j) <=> \A k \in 1 .. n - 1 : F[k].elem = t => j < F[k].next
      <4>1. \A k \in 1 .. n : k \in 1 .. n - 1 \/ k = n
        OBVIOUS
      <4> QED BY <1>6, <2>2, <4>1 DEF Passed
    <3> QED BY <2>2, <3>1, <3>2
  <2>3. CASE t = s
    <3>1. Passed(G, t, j) <=> j < i + 1
      BY <1>5, <1>6, <2>3 DEF Passed
    <3>2. Passed(F, t, j) <=> j < i
      <4>1. \A k \in 1 .. n : k \in 1 .. n - 1 \/ k = n
        OBVIOUS
      <4> QED BY <1>6, <2>3, <4>1 DEF Passed
    <3> QED BY <1>3, <2>1, <2>3, <3>1, <3>2
  <2> QED BY <2>2, <2>3
<1>8. \A j \in DOMAIN d[c] : ~Passed(G, c, j)
  <2>1. DOMAIN d[c] = 1 .. Len(d[c]) /\ Len(d[c]) \in Nat
    BY <1>3, LenProperties DEF Graph
  <2>2. n + 1 \in 1 .. n + 1
    OBVIOUS
  <2> QED BY <2>1, <2>2 DEF Passed
<1>9. Entered(d, e, W, G)
  <2> SUFFICES ASSUME NEW x \in W \ {e}
               PROVE  \E t \in W : \E j \in DOMAIN d[t] : Passed(G, t, j) /\ d[t][j] = x
    BY DEF Entered
  <2>1. CASE x = c
    BY <1>1, <1>7, <2>1
  <2>2. CASE x # c
    <3>1. PICK t \in V : \E j \in DOMAIN d[t] : Passed(F, t, j) /\ d[t][j] = x
      BY <1>1, <1>2, <2>2 DEF Entered
    <3>2. PICK j \in DOMAIN d[t] : Passed(F, t, j) /\ d[t][j] = x
      BY <3>1
    <3> QED BY <1>1, <1>7, <3>2
  <2> QED BY <2>1, <2>2
<1>10. Apart(d, e, W, G)
  <2>1. ASSUME NEW t \in W, NEW j \in DOMAIN d[t], Passed(G, t, j)
        PROVE  t \in V /\ (Passed(F, t, j) \/ (t = s /\ j = i))
    <3>1. t # c
      BY <1>8, <2>1
    <3> QED BY <1>1, <1>7, <2>1, <3>1
  <2>2. \A t \in V : \A j \in DOMAIN d[t] : Passed(F, t, j) => d[t][j] \in V \ {e} /\ d[t][j] # c
    BY <1>2 DEF Apart
  <2>3. c # e
    BY <1>2
  <2> SUFFICES ASSUME NEW t \in W, NEW j \in DOMAIN d[t], Passed(G, t, j)
               PROVE  /\ d[t][j] \in W \ {e}
                      /\ \A p \in W : \A q \in DOMAIN d[p] :
                           Passed(G, p, q) /\ d[p][q] = d[t][j] => p = t /\ q = j
    BY DEF Apart
  <2>4. d[t][j] \in W \ {e}
    BY <1>1, <2>1, <2>2, <2>3
  <2>5. ASSUME NEW p \in W, NEW q \in DOMAIN d[p], Passed(G, p, q), d[p][q] = d[t][j]
        PROVE  p = t /\ q = j
    <3>1. t \in V /\ (Passed(F, t, j) \/ (t = s /\ j = i))
      BY <2>1
    <3>2. p \in V /\ (Passed(F, p, q) \/ (p = s /\ q = i))
      BY <2>1, <2>5
    <3>3. CASE Passed(F, t, j) /\ Passed(F, p, q)
      BY <1>2, <2>5, <3>1, <3>2, <3>3 DEF Apart
    <3>4. CASE Passed(F, t, j) /\ p = s /\ q = i
      BY <2>2, <2>5, <3>1, <3>4
    <3>5. CASE Passed(F, p, q) /\ t = s /\ j = i
      BY <2>2, <2>5, <3>2, <3>5
    <3> QED BY <3>1, <3>2, <3>3, <3>4, <3>5
  <2> QED BY <2>4, <2>5
<1>11. Deep(d, e, G)
  <2> SUFFICES ASSUME NEW k \in 1 .. n + 1 PROVE G[k].elem \in Rounds(d, {e})[k - 1]
    BY DEF Deep
  <2>1. CASE k \in 1 .. n
    <3>1. G[k].elem = F[k].elem /\ k \in DOMAIN F
      BY <1>5, <2>1
    <3>2. F[k].elem \in Rounds(d, {e})[k - 1]
      BY <1>2, <3>1 DEF Deep
    <3> QED BY <3>1, <3>2
  <2>2. CASE k = n + 1
    BY <1>4, <2>2
  <2> QED BY <1>5, <2>1, <2>2
<1> QED BY <1>1, <1>2, <1>4, <1>9, <1>10, <1>11 DEF Explored

(* An activation that has no child left ends.                              *)
LEMMA ExploredReturn ==
  ASSUME NEW d \in Graph, NEW e, NEW V, NEW F, NEW G, NEW n \in Nat, n > 0,
         V \subseteq Elements, Explored(d, e, V, F),
         DOMAIN F = 1 .. n, DOMAIN G = 1 .. n - 1, \A k \in 1 .. n - 1 : G[k] = F[k],
         F[n].next \in Nat \ {0}, F[n].next \notin DOMAIN d[F[n].elem]
  PROVE  Explored(d, e, V, G)
<1>1. \A k \in 1 .. n : k \in 1 .. n - 1 \/ k = n
  OBVIOUS
<1>2. \A s \in V : \A i \in DOMAIN d[s] : Passed(F, s, i) <=> Passed(G, s, i)
  <2> SUFFICES ASSUME NEW s \in V, NEW i \in DOMAIN d[s]
               PROVE  Passed(F, s, i) <=> Passed(G, s, i)
    OBVIOUS
  <2>1. F[n].elem = s => i < F[n].next
    <3>1. DOMAIN d[s] = 1 .. Len(d[s]) /\ Len(d[s]) \in Nat
      BY LenProperties DEF Graph
    <3> QED BY <3>1
  <2>2. \A k \in 1 .. n - 1 : k \in 1 .. n
    OBVIOUS
  <2> QED BY <1>1, <2>1, <2>2 DEF Passed
<1>3. Entered(d, e, V, G)
  <2> SUFFICES ASSUME NEW x \in V \ {e}
               PROVE  \E s \in V : \E i \in DOMAIN d[s] : Passed(G, s, i) /\ d[s][i] = x
    BY DEF Entered
  <2>1. PICK s \in V : \E i \in DOMAIN d[s] : Passed(F, s, i) /\ d[s][i] = x
    BY DEF Explored, Entered
  <2>2. PICK i \in DOMAIN d[s] : Passed(F, s, i) /\ d[s][i] = x
    BY <2>1
  <2> QED BY <1>2, <2>2
<1>4. Apart(d, e, V, G)
  BY <1>2 DEF Explored, Apart
<1>5. Deep(d, e, G)
  <2> SUFFICES ASSUME NEW k \in 1 .. n - 1 PROVE G[k].elem \in Rounds(d, {e})[k - 1]
    BY DEF Deep
  <2>1. k \in DOMAIN F /\ G[k] = F[k]
    OBVIOUS
  <2>2. F[k].elem \in Rounds(d, {e})[k - 1]
    BY <2>1 DEF Explored, Deep
  <2> QED BY <2>1, <2>2
<1> QED BY <1>3, <1>4, <1>5 DEF Explored

(* The search is over: e reaches each element along one path.              *)
LEMMA ExploredIsTree ==
  ASSUME IsFiniteSet(Elements), NEW d \in Graph, NEW e \in Elements, NEW V, NEW F,
         DOMAIN F = {}, Explored(d, e, V, F)
  PROVE  TreeIn(d, e)
<1>1. \A s \in V : \A i \in DOMAIN d[s] : Passed(F, s, i)
  BY DEF Passed
<1>2. \A s \in V : ToSet(d[s]) \subseteq V
  BY <1>1 DEF Explored, Apart, ToSet
<1>3. ReachIn(d, e) \subseteq V
  <2>1. {e} \subseteq V
    BY DEF Explored
  <2>2. Cardinality(Elements) \in 0 .. Cardinality(Elements)
    BY FS_CardinalityType
  <2> QED BY <1>2, <2>1, <2>2, RoundsBelow DEF ReachIn
<1>4. V = ReachIn(d, e)
  BY <1>3 DEF Explored
<1>5. \A s \in V : \A i \in DOMAIN d[s] :
        /\ d[s][i] \in V \ {e}
        /\ \A t \in V : \A j \in DOMAIN d[t] : d[t][j] = d[s][i] => t = s /\ j = i
  BY <1>1 DEF Explored, Apart
<1> QED BY <1>4, <1>5, TreeByTargets

(* visit meets an element again: e reaches it along two paths.             *)
LEMMA ExploredNoTree ==
  ASSUME IsFiniteSet(Elements), NEW d \in Graph, NEW e \in Elements, NEW V, NEW F,
         Explored(d, e, V, F), NEW k \in DOMAIN F, F[k].elem \in V,
         F[k].next \in DOMAIN d[F[k].elem], d[F[k].elem][F[k].next] \in V
  PROVE  ~TreeIn(d, e)
<1>1. PICK s, i : s = F[k].elem /\ i = F[k].next
  OBVIOUS
<1>2. s \in V /\ V \subseteq ReachIn(d, e) /\ i \in DOMAIN d[s]
  BY <1>1 DEF Explored
<1>3. ~Passed(F, s, i)
  <2>1. i \in Nat
    <3>1. s \in Elements
      BY <1>2, ReachTyped
    <3>2. d[s] \in Seq(Elements)
      BY <3>1 DEF Graph
    <3> QED BY <1>2, <3>2, LenProperties
  <2> QED BY <1>1, <2>1 DEF Passed
<1>4. CASE d[s][i] = e
  BY <1>2, <1>4, NoTreeByTargets
<1>5. CASE d[s][i] # e
  <2>1. d[s][i] \in V \ {e}
    BY <1>1, <1>5
  <2>2. PICK t \in V : \E j \in DOMAIN d[t] : Passed(F, t, j) /\ d[t][j] = d[s][i]
    BY <2>1 DEF Explored, Entered
  <2>3. PICK j \in DOMAIN d[t] : Passed(F, t, j) /\ d[t][j] = d[s][i]
    BY <2>2
  <2>4. <<t, j>> # <<s, i>>
    BY <1>3, <2>3
  <2>5. t \in ReachIn(d, e)
    BY <1>2
  <2> QED BY <1>2, <2>3, <2>4, <2>5, NoTreeByTargets
<1> QED BY <1>4, <1>5

-----------------------------------------------------------------------------
(* The verdict is that of the reference.                                   *)

VerdictInv ==
  /\ phase = "detect" /\ ~result => Explored(deps, roots[root], ToSet(visited), frames)
  /\ phase \in {"detect", "aborted"} /\ result => ~TreeIn(deps, roots[root])
  /\ phase = "aborted" => result
  /\ \A i \in 1 .. Len(roots) : i < root \/ phase = "accepted" => TreeIn(deps, roots[i])

(* The graph does not change once the search has begun.                    *)
LEMMA SearchTyped ==
  ASSUME TypeOK, TrackedSoFar, phase = "detect"
  PROVE  /\ deps \in Graph /\ roots[root] \in Elements /\ root \in 1 .. Len(roots)
         /\ frames \in Seq(FrameRec) /\ DOMAIN frames = 1 .. Len(frames)
         /\ Len(frames) \in Nat /\ Len(roots) \in Nat
         /\ ToSet(visited) \subseteq Elements
<1>1. root \in 1 .. Len(roots) /\ roots \in Seq(Elements) /\ Len(roots) \in Nat
  BY LenProperties DEF TypeOK, TrackedSoFar
<1>2. roots[root] \in Elements
  BY <1>1, ElementOfSeq
<1>3. frames \in Seq(FrameRec) /\ deps \in Graph /\ visited \in Seq(Elements)
  BY DEF TypeOK, FrameRec, Graph
<1>4. ToSet(visited) \subseteq Elements
  BY <1>3, LenProperties, ElementOfSeq DEF ToSet
<1> QED BY <1>1, <1>2, <1>3, <1>4, LenProperties

LEMMA NextRootVerdict ==
  ASSUME IsFiniteSet(Elements), TypeOK, TrackedSoFar, VerdictInv, NextRoot
  PROVE  VerdictInv'
<1>1. PICK d, r : d = deps /\ r = roots
  OBVIOUS
<1>2. deps' = d /\ roots' = r /\ d \in Graph /\ r \in Seq(Elements) /\ Len(r) \in Nat
      /\ root \in 0 .. Len(r)
  BY <1>1, LenProperties DEF NextRoot, TypeOK, Graph
<1>3. ASSUME NEW i \in 1 .. Len(r), i <= root PROVE TreeIn(d, r[i])
  <2>1. CASE i < root
    BY <1>1, <1>2, <2>1 DEF VerdictInv
  <2>2. CASE i = root
    <3>1. phase = "detect" /\ frames = <<>> /\ ~result
      BY <1>3, <2>2 DEF NextRoot, TrackedSoFar
    <3>2. Explored(d, r[root], ToSet(visited), frames) /\ DOMAIN frames = {}
      BY <1>1, <3>1 DEF VerdictInv
    <3>3. r[root] \in Elements
      BY <1>1, <3>1, SearchTyped
    <3> QED BY <1>2, <2>2, <3>2, <3>3, ExploredIsTree
  <2> QED BY <1>2, <1>3, <2>1, <2>2
<1>4. CASE root < Len(r)
  <2>1. PICK e : e = r[root + 1]
    OBVIOUS
  <2>2. /\ root' = root + 1 /\ phase' = "detect" /\ ~result'
        /\ visited' = <<e>> /\ frames' = <<[elem |-> e, next |-> 1]>>
    BY <1>1, <1>4, <2>1 DEF NextRoot
  <2>3. e \in Elements /\ roots'[root'] = e
    BY <1>2, <1>4, <2>1, <2>2, ElementOfSeq
  <2>4. ToSet(visited') = {e} /\ DOMAIN frames' = {1}
        /\ frames'[1].elem = e /\ frames'[1].next = 1
    BY <2>2 DEF ToSet
  <2>5. Explored(d, e, {e}, frames')
    BY <1>2, <2>3, <2>4, ExploredStart
  <2>6. \A i \in 1 .. Len(r) : i < root + 1 => i <= root
    BY <1>2
  <2> QED BY <1>2, <1>3, <2>2, <2>3, <2>4, <2>5, <2>6 DEF VerdictInv
<1>5. CASE ~(root < Len(r))
  <2>1. root' = root /\ root = Len(r) /\ phase' = "accepted"
    BY <1>1, <1>2, <1>5 DEF NextRoot
  <2>2. \A i \in 1 .. Len(r) : i <= root
    BY <2>1
  <2> QED BY <1>2, <1>3, <2>1, <2>2 DEF VerdictInv
<1> QED BY <1>4, <1>5

(* A step of the search that has not met an element again.                 *)
LEMMA SearchVerdict ==
  ASSUME VerdictInv, phase = "detect", UNCHANGED <<roots, deps, root, result, phase>>,
         ~result => Explored(deps, roots[root], ToSet(visited'), frames')
  PROVE  VerdictInv'
<1>1. PICK d, r, k : d = deps /\ r = roots /\ k = root
  OBVIOUS
<1>2. deps' = d /\ roots' = r /\ root' = k
  BY <1>1
<1> QED BY <1>1, <1>2 DEF VerdictInv

LEMMA VisitNewVerdict ==
  ASSUME IsFiniteSet(Elements), TypeOK, TrackedSoFar, PathInv, VerdictInv, VisitNew,
         (Len(frames) <= Cardinality(Elements))'
  PROVE  VerdictInv'
<1>1. PICK d, e, n, child, V, F, G :
        /\ d = deps /\ e = roots[root] /\ n = Len(frames) /\ child = Child
        /\ V = ToSet(visited) /\ F = frames /\ G = frames'
  OBVIOUS
<1>2. /\ d \in Graph /\ e \in Elements /\ F \in Seq(FrameRec) /\ F # <<>>
      /\ phase = "detect" /\ child \notin V /\ visited \in Seq(Elements)
      /\ UNCHANGED <<roots, deps, root, result, phase>>
  BY <1>1, SearchTyped DEF VisitNew, HasChild, TypeOK
<1>3. /\ Advance \in Seq(FrameRec) /\ Len(Advance) = n /\ n \in Nat /\ n > 0
      /\ \A k \in 1 .. n - 1 : Advance[k] = F[k]
      /\ Advance[n].elem = F[n].elem /\ Advance[n].next = F[n].next + 1
      /\ Top = F[n]
  BY <1>1, <1>2, AdvanceFacts, LenProperties
<1>4. child \in Elements
  BY <1>1, ChildTyped DEF VisitNew
<1>5. /\ DOMAIN F = 1 .. n /\ DOMAIN G = 1 .. n + 1 /\ Len(G) = n + 1
      /\ \A k \in 1 .. n - 1 : G[k] = F[k]
      /\ G[n].elem = F[n].elem /\ G[n].next = F[n].next + 1
      /\ G[n + 1].elem = child /\ G[n + 1].next = 1
  <2>1. PICK new : new = [elem |-> child, next |-> 1]
    OBVIOUS
  <2>2. new \in FrameRec /\ new.elem = child /\ new.next = 1
    BY <1>4, <2>1 DEF FrameRec
  <2>3. G = Append(Advance, new)
    BY <1>1, <2>1 DEF VisitNew
  <2>4. /\ Len(G) = n + 1 /\ G \in Seq(FrameRec) /\ G[n + 1] = new
        /\ \A k \in 1 .. n : G[k] = Advance[k]
    BY <1>3, <2>2, <2>3, AppendProperties
  <2>5. DOMAIN F = 1 .. n /\ DOMAIN G = 1 .. n + 1
    BY <1>1, <1>2, <2>4, LenProperties
  <2>6. n \in 1 .. n /\ \A k \in 1 .. n - 1 : k \in 1 .. n
    BY <1>3
  <2> QED BY <1>3, <2>2, <2>4, <2>5, <2>6
<1>6. n <= Cardinality(Elements)
  BY <1>1, <1>3, <1>5, FS_CardinalityType, SMTT(20)
<1>7. /\ F[n].elem \in V /\ F[n].next \in DOMAIN d[F[n].elem]
      /\ child = d[F[n].elem][F[n].next]
      /\ \A k \in 1 .. n : F[k].elem \in V
      /\ \A k, l \in 1 .. n : F[k].elem = F[l].elem => k = l
  <2>1. n \in DOMAIN F
    BY <1>3, <1>5
  <2> QED BY <1>1, <1>3, <1>5, <2>1 DEF VisitNew, HasChild, Child, PathInv, RecursionIsPath
<1>8. ToSet(visited') = V \cup {child}
  BY <1>1, <1>2, <1>4, AppendElements DEF VisitNew
<1>9. ASSUME ~result PROVE Explored(d, e, V \cup {child}, G)
  <2>1. Explored(d, e, V, F)
    BY <1>1, <1>2, <1>9 DEF VerdictInv
  <2>2. PICK s \in V : s = F[n].elem
    BY <1>7
  <2>3. PICK i \in DOMAIN d[s] : i = F[n].next
    BY <1>7, <2>2
  <2>4. child = d[s][i] /\ child \notin V
    BY <1>2, <1>7, <2>2, <2>3
  <2>5. Descent(V, F, G, n, s, i, child)
    BY <1>5, <1>7, <2>2, <2>3 DEF Descent
  <2> QED BY <1>2, <1>3, <1>6, <2>1, <2>4, <2>5, ExploredChild
<1> QED BY <1>1, <1>2, <1>8, <1>9, SearchVerdict

LEMMA VisitSeenVerdict ==
  ASSUME IsFiniteSet(Elements), TypeOK, TrackedSoFar, PathInv, VerdictInv, VisitSeen
  PROVE  VerdictInv'
<1>1. PICK d, r, k : d = deps /\ r = roots /\ k = root
  OBVIOUS
<1>2. /\ phase = "detect" /\ phase' = "detect" /\ result'
      /\ deps' = d /\ roots' = r /\ root' = k
      /\ frames \in Seq(FrameRec) /\ frames # <<>> /\ d \in Graph /\ r[k] \in Elements
  BY <1>1, SearchTyped DEF VisitSeen, HasChild
<1>3. ~TreeIn(d, r[k])
  <2>1. CASE result
    BY <1>1, <1>2, <2>1 DEF VerdictInv
  <2>2. CASE ~result
    <3>1. Explored(d, r[k], ToSet(visited), frames)
      BY <1>1, <1>2, <2>2 DEF VerdictInv
    <3>2. PICK n : n = Len(frames)
      OBVIOUS
    <3>3. n \in DOMAIN frames /\ Top = frames[n]
      <4>1. Len(frames) > 0 /\ Len(frames) \in Nat /\ Last(frames) = frames[Len(frames)]
        BY <1>2, FrontFacts, LenProperties
      <4> QED BY <1>2, <3>2, <4>1, LenProperties DEF Top
    <3>4. /\ frames[n].elem \in ToSet(visited)
          /\ frames[n].next \in DOMAIN d[frames[n].elem]
          /\ d[frames[n].elem][frames[n].next] \in ToSet(visited)
      BY <1>1, <3>3 DEF VisitSeen, HasChild, Child, PathInv
    <3> QED BY <1>2, <3>1, <3>3, <3>4, ExploredNoTree
  <2> QED BY <2>1, <2>2
<1> QED BY <1>1, <1>2, <1>3 DEF VerdictInv

LEMMA LeaveVerdict ==
  ASSUME TypeOK, TrackedSoFar, VerdictInv, Leave
  PROVE  VerdictInv'
<1>1. PICK d, e, n, V, F, G :
        /\ d = deps /\ e = roots[root] /\ n = Len(frames)
        /\ V = ToSet(visited) /\ F = frames /\ G = frames'
  OBVIOUS
<1>2. /\ d \in Graph /\ F \in Seq(FrameRec) /\ F # <<>> /\ V \subseteq Elements
      /\ phase = "detect" /\ G = Front(F)
      /\ UNCHANGED <<roots, deps, root, visited, result, phase>>
  BY <1>1, SearchTyped DEF Leave
<1>3. /\ G \in Seq(FrameRec) /\ Len(G) = n - 1 /\ n \in Nat /\ n > 0
      /\ \A k \in 1 .. n - 1 : G[k] = F[k]
      /\ Last(F) = F[n] /\ F[n] \in FrameRec
  BY <1>1, <1>2, FrontFacts, LenProperties
<1>4. DOMAIN F = 1 .. n /\ DOMAIN G = 1 .. n - 1
  BY <1>1, <1>2, <1>3, LenProperties
<1>5. F[n].next \in Nat \ {0} /\ F[n].next \notin DOMAIN d[F[n].elem]
  BY <1>1, <1>3 DEF Leave, Top, FrameRec
<1>6. ASSUME ~result PROVE Explored(d, e, V, G)
  <2>1. Explored(d, e, V, F)
    BY <1>1, <1>2, <1>6 DEF VerdictInv
  <2> QED BY <1>2, <1>3, <1>4, <1>5, <2>1, ExploredReturn
<1> QED BY <1>1, <1>2, <1>6, SearchVerdict

LEMMA StepVerdict ==
  ASSUME IsFiniteSet(Elements), TypeOK, TrackedSoFar, PathInv, VerdictInv, [CheckNext]_vars,
         (Len(frames) <= Cardinality(Elements))'
  PROVE  VerdictInv'
<1>1. CASE Track
  <2>1. phase' = "track" /\ root' = 0 /\ (Len(roots') \in Nat)
    <3>1. TypeOK'
      BY StepTyped
    <3> QED BY <1>1, <3>1, LenProperties DEF Track, TrackedSoFar, TypeOK
  <2>2. \A i \in 1 .. Len(roots') : ~(i < 0)
    BY <2>1
  <2> QED BY <2>1, <2>2 DEF VerdictInv
<1>2. ASSUME UNCHANGED <<roots, deps, root, visited, frames, result>>,
             phase' = phase \/ (phase = "detect" /\ phase' = "aborted" /\ result)
      PROVE  VerdictInv'
  <2>1. PICK d, r, k, V, F : d = deps /\ r = roots /\ k = root /\ V = visited /\ F = frames
    OBVIOUS
  <2>2. deps' = d /\ roots' = r /\ root' = k /\ visited' = V /\ frames' = F
    BY <1>2, <2>1
  <2> QED BY <1>2, <2>1, <2>2 DEF VerdictInv
<1>3. CASE Abort \/ UNCHANGED vars
  BY <1>2, <1>3 DEF Abort, vars
<1> QED BY <1>1, <1>3, NextRootVerdict, VisitNewVerdict, VisitSeenVerdict, LeaveVerdict
        DEF CheckNext

(* detect_circular_references accepts exactly the classes in which every   *)
(* target reaches each element along one path, whatever the elements and   *)
(* the bindings: an identifier read twice on the way from a target is      *)
(* reported as circular, and nothing else is.                              *)
THEOREM CheckDecidesTrees ==
  ASSUME IsFiniteSet(Elements)
  PROVE  CheckSpec => []VerdictIsTree
<1> DEFINE Bounded == Len(frames) <= Cardinality(Elements)
           Known == TypeOK /\ TrackedSoFar /\ PathInv /\ Bounded
<1>1. Init => VerdictInv
  <2> SUFFICES ASSUME Init PROVE VerdictInv
    OBVIOUS
  <2>1. DOMAIN roots = {} /\ Len(roots) = 0 /\ phase = "track"
    BY EmptySeq DEF Init
  <2> QED BY <2>1 DEF VerdictInv
<1>2. Known /\ Bounded' /\ VerdictInv /\ [CheckNext]_vars => VerdictInv'
  BY StepVerdict
<1>3. TypeOK /\ TrackedSoFar /\ VerdictInv => VerdictIsTree
  <2> SUFFICES ASSUME TypeOK, TrackedSoFar, VerdictInv PROVE VerdictIsTree
    OBVIOUS
  <2>1. DOMAIN roots = 1 .. Len(roots)
    BY LenProperties DEF TypeOK
  <2>2. phase = "accepted" => \A i \in DOMAIN roots : TreeIn(deps, roots[i])
    BY <2>1 DEF VerdictInv
  <2>3. phase = "aborted" => ~TreeIn(deps, roots[root])
    BY DEF VerdictInv
  <2> QED BY <2>2, <2>3, TreeIsTreeIn DEF VerdictIsTree
<1>4. CheckInv => TypeOK /\ TrackedSoFar
  BY DEF CheckInv
<1>5. CheckSpec => []Bounded
  BY VisitDepthBounded
<1>6. CheckSpec => [](Known /\ TypeOK /\ TrackedSoFar)
  BY <1>4, <1>5, CheckInvariant, PathInvariant, PTL
<1>7. CheckSpec => []VerdictInv
  <2> HIDE DEF Known, Bounded
  <2> QED BY <1>1, <1>2, <1>5, <1>6, PTL DEF CheckSpec
<1> QED BY <1>3, <1>6, <1>7, PTL

-----------------------------------------------------------------------------
(* At run time.                                                            *)

UpdateVars == <<vars, updateVars>>

(* The bindings never change once the class is parsed.                     *)
LEMMA BindingsKept == [UpdateNext]_UpdateVars => bindings' = bindings
BY DEF UpdateNext, UpdateVars, vars, Compile, CheckNext, Track, NextRoot, Abort,
       VisitNew, VisitSeen, Leave, Assign, AssignLocal, AssignDynamic, AssignOutside,
       Trigger

LEMMA StoreTyped ==
  ASSUME NEW e \in Elements, NEW v, NEW n
  PROVE  Stored(e, v, n) \subseteq [Elements -> Values]
BY DEF Stored

LEMMA EvaluateTyped ==
  ASSUME UpdateTypeOK, NEW b \in Bindings, Evaluate(b)
  PROVE  value' \in [Elements -> Values]
<1>1. b.target \in Elements
  BY DEF Bindings
<1>2. PICK v \in Seen :
        value' \in IF b.target \in shadows THEN {value} ELSE Stored(b.target, Eval(b, v), store)
  BY DEF Evaluate
<1> QED
  BY <1>1, <1>2, StoreTyped DEF UpdateTypeOK

LEMMA StartTyped ==
  ASSUME UpdateTypeOK, bindings' = bindings, NEW n \in {4, 8}, StartRound(n)
  PROVE  /\ pending' \in 0 .. Len(bindings) /\ pending' \in {0, 1}
         /\ store' \in {4, 8} /\ shadows' \subseteq Elements
<1>1. bindings # <<>> => Len(bindings) > 0 /\ Len(bindings) \in Nat
  BY EmptySeq, LenProperties DEF UpdateTypeOK, TypeOK
<1>2. Len(bindings) \in Nat
  BY LenProperties DEF UpdateTypeOK, TypeOK
<1> QED
  BY <1>1, <1>2, UpdateAssumption DEF StartRound

LEMMA UpdateStepTyped == UpdateTypeOK /\ [UpdateNext]_UpdateVars => UpdateTypeOK'
<1> SUFFICES ASSUME UpdateTypeOK, [UpdateNext]_UpdateVars
             PROVE  UpdateTypeOK'
  OBVIOUS
<1>0. /\ TypeOK /\ Len(bindings) \in Nat /\ bindings' = bindings
      /\ rounds \in 0 .. Len(bindings) /\ 0 \in 0 .. Len(bindings)
  BY BindingsKept, LenProperties DEF UpdateTypeOK, TypeOK
<1>1. CASE Compile
  BY <1>0, <1>1, StepTyped DEF UpdateTypeOK, Compile, updateVars
<1>2. ASSUME UNCHANGED vars
      PROVE  TypeOK'
  BY <1>0, <1>2 DEF vars, TypeOK
<1>3. CASE Trigger
  <2>1. bindings[pending] \in Bindings /\ pending \in 1 .. Len(bindings)
    <3>1. pending \in 1 .. Len(bindings) /\ bindings \in Seq(Bindings)
      BY <1>0, <1>3 DEF Trigger, UpdateTypeOK, TypeOK
    <3> QED
      BY <3>1, ElementOfSeq
  <2>2. value' \in [Elements -> Values]
    BY <1>3, <2>1, EvaluateTyped DEF Trigger
  <2>3. CASE pending = Len(bindings)
    <3>1. pending' = 0 /\ (rounds' = 0 \/ rounds' = rounds \/ (rounds < Len(bindings) /\ rounds' = rounds + 1))
      BY <1>3, <2>3 DEF Trigger, EndRound
    <3>2. rounds' \in 0 .. Len(bindings)
      BY <1>0, <3>1
    <3> QED
      BY <1>0, <1>2, <1>3, <2>2, <3>1, <3>2 DEF Trigger, UpdateTypeOK
  <2>4. CASE pending # Len(bindings)
    <3>1. pending' = pending + 1 /\ rounds' = rounds
      BY <1>3, <2>4 DEF Trigger
    <3>2. pending' \in 0 .. Len(bindings)
      BY <1>0, <2>1, <2>4, <3>1
    <3> QED
      BY <1>0, <1>2, <1>3, <2>2, <3>1, <3>2 DEF Trigger, UpdateTypeOK
  <2> QED
    BY <2>3, <2>4
<1>4. ASSUME NEW e \in Elements, NEW v \in Values, Assign(e, v)
      PROVE  UpdateTypeOK'
  <2>1. StoreOf(e) \in {4, 8}
    BY DEF StoreOf
  <2>2. StartRound(StoreOf(e)) /\ rounds' = 0 /\ UNCHANGED vars
    BY <1>4 DEF Assign
  <2>3. value' \in [Elements -> Values]
    BY <1>4, StoreTyped DEF Assign
  <2>4. pending' \in 0 .. Len(bindings) /\ store' \in {4, 8} /\ shadows' \subseteq Elements
    BY <1>0, <2>1, <2>2, StartTyped
  <2> QED
    BY <1>0, <1>2, <2>2, <2>3, <2>4 DEF UpdateTypeOK
<1>5. ASSUME NEW n \in LocalStores, AssignLocal(n)
      PROVE  UpdateTypeOK'
  <2>1. n \in {4, 8}
    BY UpdateAssumption
  <2>2. StartRound(n) /\ rounds' = rounds /\ value' = value /\ UNCHANGED vars
    BY <1>5 DEF AssignLocal
  <2>3. pending' \in 0 .. Len(bindings) /\ store' \in {4, 8} /\ shadows' \subseteq Elements
    BY <1>0, <2>1, <2>2, StartTyped
  <2> QED
    BY <1>0, <1>2, <2>2, <2>3 DEF UpdateTypeOK
<1>6. ASSUME NEW e \in Elements, NEW v \in Values, AssignDynamic(e, v)
      PROVE  UpdateTypeOK'
  BY <1>0, <1>2, <1>6 DEF AssignDynamic, UpdateTypeOK
<1>7. ASSUME NEW e \in Elements, NEW v \in Values, AssignOutside(e, v)
      PROVE  UpdateTypeOK'
  BY <1>0, <1>2, <1>7, StoreTyped DEF AssignOutside, UpdateTypeOK
<1>8. CASE UNCHANGED UpdateVars
  BY <1>0, <1>2, <1>8 DEF UpdateVars, updateVars, UpdateTypeOK
<1> QED
  BY <1>1, <1>3, <1>4, <1>5, <1>6, <1>7, <1>8 DEF UpdateNext

LEMMA UpdateInitTyped == UpdateInit => UpdateTypeOK
<1> SUFFICES ASSUME UpdateInit
             PROVE  UpdateTypeOK
  OBVIOUS
<1>1. TypeOK
  BY InitTyped DEF UpdateInit
<1>2. Len(bindings) \in Nat
  BY <1>1, LenProperties DEF TypeOK
<1>3. value \in [Elements -> Values] /\ pending = 0 /\ store = 4 /\ shadows = {} /\ rounds = 0
  BY DEF UpdateInit
<1> QED
  BY <1>1, <1>2, <1>3 DEF UpdateTypeOK

(* The object and the assignment in progress keep their types, whatever    *)
(* the widths of the fields and the names of the locals.                   *)
THEOREM UpdateTypeCorrect == UpdateSpec => []UpdateTypeOK
BY UpdateInitTyped, UpdateStepTyped, PTL DEF UpdateSpec, UpdateVars

-----------------------------------------------------------------------------
(* The bindings of a class in dependency order.                            *)

(* In a clean evaluation the bindings before the pending one hold.         *)
EvaluatedSoFar ==
  /\ bindings \in Classes
  /\ pending # 0 /\ Clean /\ InDependencyOrder(bindings) =>
       \A i \in 1 .. pending - 1 : Holds(bindings[i])

(* A clean store of a binding sets its target to what it evaluates to, and *)
(* changes no other field that a binding names.                            *)
LEMMA CleanEvaluation ==
  ASSUME UpdateTypeOK, Clean, bindings \in Classes, NEW k \in DOMAIN bindings, Evaluate(bindings[k])
  PROVE  /\ value' \in [Elements -> Values]
         /\ value'[bindings[k].target] = Eval(bindings[k], value)
         /\ \A e \in Names \ {bindings[k].target} : value'[e] = value[e]
<1>1. PICK b : b = bindings[k]
  OBVIOUS
<1>2. b \in Bindings /\ value \in [Elements -> Values]
  BY <1>1, ElementOfSeq, LenProperties DEF UpdateTypeOK, TypeOK
<1>3. b.target \in Names /\ Sources(b) \subseteq Names
  BY <1>1 DEF Names
<1>4. /\ Names \cap shadows = {} /\ store >= Bytes[b.target]
      /\ Names \cap Behind(b.target, store) = {}
  BY <1>1 DEF Clean
<1>5. PICK v \in Seen :
        value' \in IF b.target \in shadows THEN {value} ELSE Stored(b.target, Eval(b, v), store)
  BY <1>1 DEF Evaluate
<1>6. b.target \notin shadows /\ value' \in Stored(b.target, Eval(b, v), store)
  BY <1>3, <1>4, <1>5
<1>7. v \in [Elements -> Values] /\ \A e \in Elements \ shadows : v[e] = value[e]
  BY <1>5 DEF Seen
<1>8. Sources(b) \subseteq Elements
  <2>1. b.operands \in Seq(Elements) /\ b.hidden \subseteq Elements
    BY <1>2 DEF Bindings
  <2>2. ToSet(b.operands) \subseteq Elements
    BY <2>1, LenProperties, ElementOfSeq DEF ToSet
  <2> QED
    BY <2>1, <2>2 DEF Sources
<1>9. Eval(b, v) = Eval(b, value)
  <2>1. \A e \in Sources(b) : v[e] = value[e]
    BY <1>3, <1>4, <1>7, <1>8
  <2> QED
    BY <1>1, <1>2, <1>7, <2>1, EvalAssumption
<1>10. /\ value' \in [Elements -> Values]
       /\ value'[b.target] = Eval(b, v)
       /\ \A e \in Elements \ ({b.target} \cup Behind(b.target, store)) : value'[e] = value[e]
  BY <1>4, <1>6 DEF Stored
<1>11. Names \subseteq Elements
  <2>1. ASSUME NEW i \in DOMAIN bindings
        PROVE  {bindings[i].target} \cup Sources(bindings[i]) \subseteq Elements
    <3>1. bindings[i] \in Bindings
      BY ElementOfSeq, LenProperties DEF UpdateTypeOK, TypeOK
    <3>2. bindings[i].operands \in Seq(Elements) /\ bindings[i].hidden \subseteq Elements
          /\ bindings[i].target \in Elements
      BY <3>1 DEF Bindings
    <3>3. ToSet(bindings[i].operands) \subseteq Elements
      BY <3>2, LenProperties, ElementOfSeq DEF ToSet
    <3> QED
      BY <3>2, <3>3 DEF Sources
  <2> QED
    BY <2>1 DEF Names
<1> QED
  BY <1>1, <1>4, <1>9, <1>10, <1>11

LEMMA TriggerKeepsEarlier ==
  ASSUME UpdateTypeOK, EvaluatedSoFar, Clean, InDependencyOrder(bindings), Trigger
  PROVE  \A i \in 1 .. pending : value'[bindings[i].target] = Eval(bindings[i], value')
<1> DEFINE b == bindings[pending]
<1>1. /\ pending \in 1 .. Len(bindings) /\ Len(bindings) \in Nat
      /\ DOMAIN bindings = 1 .. Len(bindings)
      /\ bindings \in Classes
      /\ value \in [Elements -> Values]
  BY LenProperties DEF UpdateTypeOK, TypeOK, EvaluatedSoFar, Trigger
<1>2. pending \in DOMAIN bindings /\ Evaluate(b)
  BY <1>1 DEF Trigger
<1>3. /\ value' \in [Elements -> Values]
      /\ value'[b.target] = Eval(b, value)
      /\ \A e \in Names \ {b.target} : value'[e] = value[e]
  BY <1>1, <1>2, CleanEvaluation
<1>4. \A i \in DOMAIN bindings : bindings[i].target \in Names /\ Sources(bindings[i]) \subseteq Names
  BY DEF Names
<1>5. ASSUME NEW i \in 1 .. pending
      PROVE  Eval(bindings[i], value') = Eval(bindings[i], value)
  <2>1. i \in DOMAIN bindings /\ ~(pending < i)
    BY <1>1
  <2>2. b.target \notin Sources(bindings[i])
    BY <1>2, <2>1 DEF InDependencyOrder
  <2>3. \A e \in Sources(bindings[i]) : value'[e] = value[e]
    BY <1>3, <1>4, <2>1, <2>2
  <2> QED
    BY <1>1, <1>3, <2>1, <2>3, EvalAssumption
<1>6. ASSUME NEW i \in 1 .. pending, i # pending
      PROVE  value'[bindings[i].target] = Eval(bindings[i], value)
  <2>1. i \in 1 .. pending - 1 /\ i \in DOMAIN bindings /\ pending # 0
    BY <1>1, <1>6
  <2>2. bindings[i].target # b.target
    BY <1>2, <1>6, <2>1 DEF InDependencyOrder, TargetsDiffer
  <2>3. value[bindings[i].target] = Eval(bindings[i], value)
    BY <2>1 DEF EvaluatedSoFar, Holds
  <2> QED
    BY <1>3, <1>4, <2>1, <2>2, <2>3
<1> QED
  BY <1>1, <1>3, <1>5, <1>6

UpdateInv == UpdateTypeOK /\ EvaluatedSoFar /\ RelationshipHolds

LEMMA CleanKept ==
  ASSUME bindings' = bindings, store' = store, shadows' = shadows
  PROVE  (Clean <=> Clean') /\ (InDependencyOrder(bindings) <=> InDependencyOrder(bindings'))
BY DEF Clean, Names

LEMMA UpdateStepHolds ==
  ASSUME UpdateInv, [UpdateNext]_UpdateVars
  PROVE  UpdateInv'
<1>0. /\ UpdateTypeOK /\ UpdateTypeOK' /\ bindings' = bindings
      /\ EvaluatedSoFar /\ RelationshipHolds /\ bindings \in Classes
      /\ DOMAIN bindings = 1 .. Len(bindings) /\ Len(bindings) \in Nat
  BY UpdateStepTyped, BindingsKept, LenProperties DEF UpdateInv, UpdateTypeOK, TypeOK, EvaluatedSoFar
<1>1. CASE Compile \/ UNCHANGED UpdateVars
  <2>1. UNCHANGED updateVars
    BY <1>1 DEF Compile, UpdateVars
  <2>2. (Clean <=> Clean') /\ value' = value /\ pending' = pending /\ rounds' = rounds
    BY <1>0, <2>1, CleanKept DEF updateVars
  <2> QED
    BY <1>0, <2>2 DEF UpdateInv, EvaluatedSoFar, RelationshipHolds, Holds
<1>2. CASE Trigger
  <2>0. (Clean <=> Clean') /\ pending # 0 /\ pending \in 1 .. Len(bindings)
    <3>1. pending # 0 /\ store' = store /\ shadows' = shadows
      BY <1>2 DEF Trigger
    <3>2. Clean <=> Clean'
      BY <1>0, <3>1, CleanKept
    <3>3. pending \in 0 .. Len(bindings)
      BY <1>0 DEF UpdateTypeOK
    <3> QED
      BY <1>0, <3>1, <3>2, <3>3
  <2>1. Clean /\ InDependencyOrder(bindings) =>
          \A i \in 1 .. pending : value'[bindings[i].target] = Eval(bindings[i], value')
    BY <1>0, <1>2, TriggerKeepsEarlier
  <2>2. CASE pending = Len(bindings)
    <3>1. pending' = 0 /\ (rounds' > 0 => Clean)
      BY <1>2, <2>2 DEF Trigger, EndRound
    <3>2. RelationshipHolds'
      BY <1>0, <2>1, <2>2, <3>1 DEF RelationshipHolds, Holds
    <3> QED
      BY <1>0, <3>1, <3>2 DEF UpdateInv, EvaluatedSoFar
  <2>3. CASE pending # Len(bindings)
    <3>1. pending' = pending + 1
      BY <1>2, <2>3 DEF Trigger
    <3>2. pending' # 0 /\ pending' - 1 = pending
      BY <2>0, <3>1
    <3>3. EvaluatedSoFar'
      BY <1>0, <2>0, <2>1, <3>2 DEF EvaluatedSoFar, Holds
    <3> QED
      BY <1>0, <3>2, <3>3 DEF UpdateInv, RelationshipHolds
  <2> QED
    BY <2>2, <2>3
<1>3. ASSUME NEW n \in {4, 8}, StartRound(n)
      PROVE  UpdateInv'
  <2>1. pending' \in {0, 1} /\ (pending' = 0 => bindings = <<>>)
    BY <1>3 DEF StartRound
  <2>2. bindings = <<>> => DOMAIN bindings = {}
    OBVIOUS
  <2>3. \A i \in 1 .. pending' - 1 : FALSE
    <3>1. pending' = 0 \/ pending' = 1
      BY <2>1, Zenon
    <3> QED
      BY <3>1
  <2>4. EvaluatedSoFar'
    BY <1>0, <2>3 DEF EvaluatedSoFar
  <2>5. RelationshipHolds'
    BY <1>0, <2>1, <2>2 DEF RelationshipHolds
  <2> QED
    BY <1>0, <2>4, <2>5 DEF UpdateInv
<1>4. ASSUME NEW e \in Elements, NEW v \in Values, Assign(e, v)
      PROVE  UpdateInv'
  <2>1. StoreOf(e) \in {4, 8} /\ StartRound(StoreOf(e))
    BY <1>4 DEF Assign, StoreOf
  <2> QED
    BY <1>3, <2>1
<1>5. ASSUME NEW n \in LocalStores, AssignLocal(n)
      PROVE  UpdateInv'
  <2>1. n \in {4, 8} /\ StartRound(n)
    BY <1>5, UpdateAssumption DEF AssignLocal
  <2> QED
    BY <1>3, <2>1
<1>6. ASSUME NEW e \in Elements, NEW v \in Values,
             AssignDynamic(e, v) \/ AssignOutside(e, v)
      PROVE  UpdateInv'
  <2>1. rounds' = 0 /\ pending' = 0
    BY <1>6 DEF AssignDynamic, AssignOutside, Running
  <2> QED
    BY <1>0, <2>1 DEF UpdateInv, EvaluatedSoFar, RelationshipHolds
<1> QED
  BY <1>1, <1>2, <1>4, <1>5, <1>6 DEF UpdateNext

(* For any layout, expressions and number of bindings, and whatever was    *)
(* done to the fields before by stores of the wrong width, shadowed names, *)
(* assignments to a var and other classes: once the bindings of a class in *)
(* dependency order are evaluated cleanly, every target has the value of   *)
(* its expression, until something else is assigned.                       *)
THEOREM OrderedBindingsHold == UpdateSpec => []RelationshipHolds
<1>1. UpdateInit => UpdateInv
  BY UpdateInitTyped DEF UpdateInit, Init, UpdateInv, EvaluatedSoFar, RelationshipHolds
<1>2. UpdateInv /\ [UpdateNext]_UpdateVars => UpdateInv'
  BY UpdateStepHolds
<1>3. UpdateInv => RelationshipHolds
  BY DEF UpdateInv
<1> QED
  BY <1>1, <1>2, <1>3, PTL DEF UpdateSpec, UpdateVars

-----------------------------------------------------------------------------
(* Bindings in any order.                                                  *)

(* Classes in which what the check sees is all there is.                   *)
Plain == TargetsDiffer(bindings) /\ \A i \in DOMAIN bindings : bindings[i].hidden = {}

(* The bindings of F hold, and what they read is bound by others of F or   *)
(* not at all: evaluating any binding leaves them as they are.             *)
Ready(g, F) == \A j \in DOMAIN bindings : bindings[j].target \in Sources(bindings[g]) => j \in F
Settled(F) ==
  /\ F \subseteq DOMAIN bindings
  /\ \A i \in F : Holds(bindings[i]) /\ Ready(i, F)

(* There are as many settled bindings as rounds, and in a clean round one  *)
(* more is to come, which holds from its turn on.                          *)
SettledSoFar ==
  Plain =>
    \E F : /\ Settled(F) /\ Cardinality(F) >= rounds
           /\ pending # 0 /\ F # DOMAIN bindings =>
                \E g \in DOMAIN bindings \ F : Ready(g, F) /\ (g < pending => Holds(bindings[g]))

ConvergeInv ==
  /\ CheckInv /\ UpdateTypeOK /\ bindings \in Classes
  /\ pending # 0 => phase = "accepted"
  /\ pending = 0 \/ Clean => SettledSoFar

LEMMA BindingsFinite ==
  ASSUME UpdateTypeOK
  PROVE  /\ DOMAIN bindings = 1 .. Len(bindings) /\ Len(bindings) \in Nat
         /\ IsFiniteSet(DOMAIN bindings) /\ Cardinality(DOMAIN bindings) = Len(bindings)
         /\ \A i \in DOMAIN bindings : bindings[i] \in Bindings
<1>1. DOMAIN bindings = 1 .. Len(bindings) /\ Len(bindings) \in Nat
  BY LenProperties DEF UpdateTypeOK, TypeOK
<1>2. \A i \in DOMAIN bindings : bindings[i] \in Bindings
  BY ElementOfSeq, <1>1 DEF UpdateTypeOK, TypeOK
<1>3. IsFiniteSet(1 .. Len(bindings)) /\ Cardinality(1 .. Len(bindings)) = Len(bindings)
  <2>1. PICK n \in Nat : n = Len(bindings)
    BY <1>1
  <2>2. /\ IsFiniteSet(1 .. n)
        /\ Cardinality(1 .. n) = IF 1 > n THEN 0 ELSE n - 1 + 1
    BY FS_Interval
  <2>3. (IF 1 > n THEN 0 ELSE n - 1 + 1) = n
    OBVIOUS
  <2> QED
    BY <2>1, <2>2, <2>3
<1> QED
  BY <1>1, <1>2, <1>3

(* In an accepted class one of the bindings that are not settled reads     *)
(* nothing that one of them sets.                                          *)
LEMMA SomeReady ==
  ASSUME CheckInv, UpdateTypeOK, Plain, phase = "accepted",
         NEW F \in SUBSET (DOMAIN bindings), F # DOMAIN bindings
  PROVE  \E g \in DOMAIN bindings \ F : Ready(g, F)
<1> SUFFICES ASSUME \A g \in DOMAIN bindings \ F : ~Ready(g, F)
             PROVE  FALSE
  OBVIOUS
<1> DEFINE S == {bindings[g].target : g \in DOMAIN bindings \ F}
<1>1. S \in SUBSET Elements
  BY BindingsFinite DEF Bindings
<1>2. ASSUME NEW g \in DOMAIN bindings \ F
      PROVE  ToSet(bindings[g].operands) \cap S # {}
  <2>1. PICK j \in DOMAIN bindings : bindings[j].target \in Sources(bindings[g]) /\ j \notin F
    BY <1>2 DEF Ready
  <2>2. Sources(bindings[g]) = ToSet(bindings[g].operands)
    BY DEF Sources, Plain
  <2> QED
    BY <2>1, <2>2
<1>3. Circular(S)
  <2>1. S # {}
    OBVIOUS
  <2> QED
    BY <1>2, <2>1 DEF Circular
<1> QED
  BY <1>1, <1>3, CheckedIsAcyclic DEF AcceptedAcyclic

(* A clean evaluation leaves a binding true if it sets nothing that this   *)
(* binding names, or if what it sets was true already.                     *)
LEMMA Undisturbed ==
  ASSUME UpdateTypeOK, Clean, bindings \in Classes, TargetsDiffer(bindings),
         NEW k \in DOMAIN bindings, Evaluate(bindings[k]),
         NEW i \in DOMAIN bindings, Holds(bindings[i]), i # k,
         Holds(bindings[k]) \/ bindings[k].target \notin Sources(bindings[i])
  PROVE  value'[bindings[i].target] = Eval(bindings[i], value')
<1>1. /\ value' \in [Elements -> Values] /\ value \in [Elements -> Values]
      /\ value'[bindings[k].target] = Eval(bindings[k], value)
      /\ \A e \in Names \ {bindings[k].target} : value'[e] = value[e]
  BY CleanEvaluation DEF UpdateTypeOK
<1>2. bindings[i].target \in Names /\ Sources(bindings[i]) \subseteq Names
  BY DEF Names
<1>3. \A e \in Sources(bindings[i]) : value'[e] = value[e]
  BY <1>1, <1>2 DEF Holds
<1>4. Eval(bindings[i], value') = Eval(bindings[i], value)
  BY <1>1, <1>3, EvalAssumption
<1>5. bindings[i].target # bindings[k].target
  BY DEF TargetsDiffer
<1> QED
  BY <1>1, <1>2, <1>4, <1>5 DEF Holds

LEMMA SelfEvaluated ==
  ASSUME UpdateTypeOK, Clean, bindings \in Classes,
         NEW k \in DOMAIN bindings, Evaluate(bindings[k]),
         Holds(bindings[k]) \/ bindings[k].target \notin Sources(bindings[k])
  PROVE  value'[bindings[k].target] = Eval(bindings[k], value')
<1>1. /\ value' \in [Elements -> Values] /\ value \in [Elements -> Values]
      /\ value'[bindings[k].target] = Eval(bindings[k], value)
      /\ \A e \in Names \ {bindings[k].target} : value'[e] = value[e]
  BY CleanEvaluation DEF UpdateTypeOK
<1>2. Sources(bindings[k]) \subseteq Names
  BY DEF Names
<1>3. \A e \in Sources(bindings[k]) : value'[e] = value[e]
  BY <1>1, <1>2 DEF Holds
<1>4. Eval(bindings[k], value') = Eval(bindings[k], value)
  BY <1>1, <1>3, EvalAssumption
<1> QED
  BY <1>1, <1>4

(* Evaluating a binding leaves the settled ones true, and the ready one    *)
(* from its turn on.                                                       *)
LEMMA SettledStays ==
  ASSUME UpdateTypeOK, Clean, bindings \in Classes, Plain,
         NEW F, Settled(F), Trigger, NEW i \in F
  PROVE  value'[bindings[i].target] = Eval(bindings[i], value')
<1>1. pending \in DOMAIN bindings /\ Evaluate(bindings[pending]) /\ i \in DOMAIN bindings
  <2>1. pending \in 0 .. Len(bindings) /\ pending # 0 /\ Evaluate(bindings[pending])
    BY DEF UpdateTypeOK, Trigger
  <2> QED
    BY <2>1, BindingsFinite DEF Settled
<1>2. Holds(bindings[i]) /\ Ready(i, F) /\ TargetsDiffer(bindings)
  BY DEF Settled, Plain
<1>3. CASE i = pending
  BY <1>1, <1>2, <1>3, SelfEvaluated
<1>4. CASE i # pending
  <2>1. Holds(bindings[pending]) \/ bindings[pending].target \notin Sources(bindings[i])
    BY <1>1, <1>2 DEF Ready, Settled
  <2> QED
    BY <1>1, <1>2, <1>4, <2>1, Undisturbed
<1> QED
  BY <1>3, <1>4

LEMMA ReadyStays ==
  ASSUME UpdateTypeOK, Clean, bindings \in Classes, Plain,
         NEW F, Settled(F), Trigger, NEW g \in DOMAIN bindings \ F, Ready(g, F),
         g < pending => Holds(bindings[g]), g <= pending
  PROVE  value'[bindings[g].target] = Eval(bindings[g], value')
<1>1. pending \in DOMAIN bindings /\ Evaluate(bindings[pending]) /\ pending \in Nat /\ g \in Nat
  <2>1. pending \in 0 .. Len(bindings) /\ pending # 0 /\ Evaluate(bindings[pending])
    BY DEF UpdateTypeOK, Trigger
  <2> QED
    BY <2>1, BindingsFinite
<1>2. CASE g = pending
  <2>1. bindings[g].target \notin Sources(bindings[g])
    BY DEF Ready
  <2> QED
    BY <1>1, <1>2, <2>1, SelfEvaluated
<1>3. CASE g # pending
  <2>1. Holds(bindings[g])
    BY <1>1, <1>3
  <2>2. Holds(bindings[pending]) \/ bindings[pending].target \notin Sources(bindings[g])
    BY <1>1 DEF Ready, Settled
  <2> QED
    BY <1>1, <1>3, <2>1, <2>2, Undisturbed DEF Plain
<1> QED
  BY <1>2, <1>3

(* What the next state says of the same bindings.                          *)
LEMMA NextSettled ==
  ASSUME bindings' = bindings, NEW F, F \subseteq DOMAIN bindings,
         \A i \in F : Ready(i, F) /\ value'[bindings[i].target] = Eval(bindings[i], value')
  PROVE  Settled(F)'
BY DEF Settled, Holds, Ready

LEMMA NothingSettled ==
  ASSUME UpdateTypeOK, bindings' = bindings, rounds' = 0, pending' = 0
  PROVE  SettledSoFar'
<1>1. Settled({})'
  BY NextSettled
<1>2. Cardinality({}) = 0
  BY FS_EmptySet
<1> QED
  BY <1>1, <1>2 DEF SettledSoFar

(* The start of a round: some binding is ready.                            *)
LEMMA RoundStarts ==
  ASSUME CheckInv, UpdateTypeOK, Plain, phase = "accepted", bindings' = bindings, pending' = 1,
         NEW F, Settled(F)', Cardinality(F) >= rounds'
  PROVE  SettledSoFar'
<1>1. F \in SUBSET (DOMAIN bindings)
  BY DEF Settled
<1>2. ASSUME F # DOMAIN bindings
      PROVE  \E g \in DOMAIN bindings \ F : Ready(g, F)' /\ ~(g < pending')
  <2>1. PICK g \in DOMAIN bindings \ F : Ready(g, F)
    BY <1>1, <1>2, SomeReady
  <2>2. ~(g < 1)
    BY BindingsFinite
  <2> QED
    BY <2>1, <2>2 DEF Ready
<1> QED
  BY <1>2 DEF SettledSoFar

LEMMA TriggerSettles ==
  ASSUME UpdateTypeOK, UpdateTypeOK', bindings' = bindings, bindings \in Classes,
         Clean, Plain, SettledSoFar, Trigger
  PROVE  SettledSoFar'
<1>1. PICK F : /\ Settled(F) /\ Cardinality(F) >= rounds
               /\ pending # 0 /\ F # DOMAIN bindings =>
                    \E g \in DOMAIN bindings \ F : Ready(g, F) /\ (g < pending => Holds(bindings[g]))
  BY DEF SettledSoFar
<1>2. /\ F \subseteq DOMAIN bindings /\ IsFiniteSet(F) /\ Cardinality(F) \in Nat
      /\ \A i \in F : Ready(i, F)
  BY <1>1, BindingsFinite, FS_Subset, FS_CardinalityType DEF Settled
<1>3. \A i \in F : value'[bindings[i].target] = Eval(bindings[i], value')
  BY <1>1, SettledStays
<1>4. Settled(F)'
  BY <1>2, <1>3, NextSettled
<1>5. /\ pending # 0 /\ pending \in 1 .. Len(bindings) /\ rounds \in 0 .. Len(bindings)
      /\ rounds' \in 0 .. Len(bindings) /\ Len(bindings) \in Nat
      /\ Cardinality(DOMAIN bindings) = Len(bindings) /\ DOMAIN bindings = 1 .. Len(bindings)
  BY BindingsFinite DEF UpdateTypeOK, Trigger
<1>6. rounds' <= rounds + 1
  <2>1. rounds' = rounds \/ rounds' = 0 \/ rounds' = rounds + 1
    BY DEF Trigger, EndRound
  <2> QED
    BY <1>5, <2>1
<1>7. CASE F = DOMAIN bindings
  <2>1. Cardinality(F) >= rounds'
    BY <1>5, <1>7
  <2> QED
    BY <1>4, <1>7, <2>1 DEF SettledSoFar
<1>8. CASE F # DOMAIN bindings
  <2>1. PICK g \in DOMAIN bindings \ F : Ready(g, F) /\ (g < pending => Holds(bindings[g]))
    BY <1>1, <1>5, <1>8
  <2>2. g <= pending => value'[bindings[g].target] = Eval(bindings[g], value')
    BY <1>1, <2>1, ReadyStays
  <2>3. CASE pending = Len(bindings)
    <3> DEFINE G == F \cup {g}
    <3>1. Cardinality(G) = Cardinality(F) + 1
      BY <1>2, <2>1, FS_AddElement
    <3>2. g <= pending
      BY <1>5, <2>1, <2>3
    <3>3. \A i \in G : Ready(i, G) /\ value'[bindings[i].target] = Eval(bindings[i], value')
      BY <1>2, <1>3, <2>1, <2>2, <3>2 DEF Ready
    <3>4. Settled(G)'
      BY <1>2, <2>1, <3>3, NextSettled
    <3>5. Cardinality(G) >= rounds' /\ pending' = 0
      <4>1. pending' = 0
        BY <2>3 DEF Trigger, EndRound
      <4> QED
        BY <1>1, <1>2, <1>5, <1>6, <3>1, <4>1
    <3> HIDE DEF G
    <3> QED
      BY <3>4, <3>5 DEF SettledSoFar
  <2>4. CASE pending # Len(bindings)
    <3>1. pending' = pending + 1 /\ rounds' = rounds
      BY <2>4 DEF Trigger
    <3>2. g < pending' => g <= pending
      BY <1>5, <2>1, <3>1
    <3>3. Ready(g, F)' /\ (g < pending' => Holds(bindings[g])')
      BY <2>1, <2>2, <3>2 DEF Ready, Holds
    <3>4. g \in (DOMAIN bindings)' \ F /\ Cardinality(F) >= rounds'
      BY <1>1, <2>1, <3>1
    <3> QED
      BY <1>4, <3>3, <3>4 DEF SettledSoFar
  <2> QED
    BY <2>3, <2>4
<1> QED
  BY <1>7, <1>8

LEMMA ConvergeStep ==
  ASSUME ConvergeInv, [UpdateNext]_UpdateVars
  PROVE  ConvergeInv'
<1>0. /\ CheckInv /\ UpdateTypeOK /\ UpdateTypeOK' /\ bindings' = bindings /\ bindings \in Classes
      /\ (Plain <=> Plain')
  BY UpdateStepTyped, BindingsKept DEF ConvergeInv, Plain
<1>1. CASE Compile \/ UNCHANGED UpdateVars
  <2>1. UNCHANGED updateVars /\ [CheckNext]_vars
    BY <1>1 DEF Compile, UpdateVars
  <2>2. CheckInv'
    BY <1>0, <2>1, StepChecked
  <2>3. /\ (Clean <=> Clean') /\ value' = value /\ pending' = pending /\ rounds' = rounds
        /\ (SettledSoFar <=> SettledSoFar')
    BY <1>0, <2>1, CleanKept DEF updateVars, SettledSoFar, Settled, Ready, Holds
  <2>4. phase = "accepted" => phase' = "accepted"
    BY <2>1 DEF CheckNext, Track, NextRoot, Abort, VisitNew, VisitSeen, Leave, HasChild, vars
  <2> QED
    BY <1>0, <2>2, <2>3, <2>4 DEF ConvergeInv
<1>2. ASSUME UNCHANGED vars
      PROVE  CheckInv' /\ phase' = phase
  BY <1>0, <1>2, StepChecked DEF vars
<1>3. CASE Trigger
  <2>1. /\ store' = store /\ shadows' = shadows /\ UNCHANGED vars /\ phase = "accepted"
        /\ pending # 0
    BY <1>3 DEF Trigger, ConvergeInv
  <2>2. Clean <=> Clean'
    BY <1>0, <2>1, CleanKept
  <2>3. CASE Clean
    <3>1. SettledSoFar'
      <4>1. CASE Plain
        BY <1>0, <1>3, <2>3, <4>1, TriggerSettles DEF ConvergeInv
      <4>2. CASE ~Plain
        BY <1>0, <4>2 DEF SettledSoFar
      <4> QED
        BY <4>1, <4>2
    <3> QED
      BY <1>0, <1>2, <2>1, <3>1 DEF ConvergeInv
  <2>4. CASE ~Clean
    <3>1. pending' = 0 => rounds' = 0
      <4>1. pending \in 0 .. Len(bindings) /\ Len(bindings) \in Nat
        BY <1>0, BindingsFinite DEF UpdateTypeOK
      <4>2. (pending' = 0 /\ rounds' = 0) \/ pending' = pending + 1
        BY <1>3, <2>4 DEF Trigger, EndRound
      <4> QED
        BY <4>1, <4>2
    <3>2. pending' = 0 => SettledSoFar'
      BY <1>0, <3>1, NothingSettled
    <3> QED
      BY <1>0, <1>2, <2>1, <2>2, <2>4, <3>2 DEF ConvergeInv
  <2> QED
    BY <2>3, <2>4
<1>4. ASSUME NEW n, StartRound(n), Running, UNCHANGED vars,
             rounds' = 0 \/ (rounds' = rounds /\ value' = value)
      PROVE  ConvergeInv'
  <2>1. pending = 0 /\ phase = "accepted" /\ SettledSoFar
    BY <1>4 DEF Running, ConvergeInv
  <2>2. SettledSoFar'
    <3>1. CASE Plain
      <4>1. PICK F : Settled(F)' /\ Cardinality(F) >= rounds'
        <5>1. CASE rounds' = 0
          <6>1. Settled({})'
            BY <1>0, NextSettled
          <6> QED
            BY <5>1, <6>1, FS_EmptySet
        <5>2. CASE rounds' = rounds /\ value' = value
          <6>1. PICK F : Settled(F) /\ Cardinality(F) >= rounds
            BY <2>1, <3>1 DEF SettledSoFar
          <6>2. Settled(F)'
            BY <1>0, <5>2, <6>1 DEF Settled, Holds, Ready
          <6> QED
            BY <5>2, <6>1, <6>2
        <5> QED
          BY <1>4, <5>1, <5>2
      <4>2. pending' = 0 \/ pending' = 1
        BY <1>4 DEF StartRound
      <4>3. CASE pending' = 0
        BY <4>1, <4>3 DEF SettledSoFar
      <4>4. CASE pending' = 1
        BY <1>0, <2>1, <3>1, <4>1, <4>4, RoundStarts
      <4> QED
        BY <4>2, <4>3, <4>4
    <3>2. CASE ~Plain
      BY <1>0, <3>2 DEF SettledSoFar
    <3> QED
      BY <3>1, <3>2
  <2> QED
    BY <1>0, <1>2, <1>4, <2>1, <2>2 DEF ConvergeInv
<1>5. ASSUME NEW e \in Elements, NEW v \in Values, Assign(e, v)
      PROVE  ConvergeInv'
  BY <1>4, <1>5 DEF Assign
<1>6. ASSUME NEW n \in LocalStores, AssignLocal(n)
      PROVE  ConvergeInv'
  BY <1>4, <1>6 DEF AssignLocal
<1>7. ASSUME NEW e \in Elements, NEW v \in Values,
             AssignDynamic(e, v) \/ AssignOutside(e, v)
      PROVE  ConvergeInv'
  <2>1. rounds' = 0 /\ pending' = 0 /\ UNCHANGED vars
    BY <1>7 DEF AssignDynamic, AssignOutside, Running
  <2> QED
    BY <1>0, <1>2, <2>1, NothingSettled DEF ConvergeInv
<1> QED
  BY <1>1, <1>3, <1>5, <1>6, <1>7 DEF UpdateNext

(* For any accepted class whose targets differ and of which the check saw  *)
(* everything, written in any order: after as many clean evaluations in a  *)
(* row as it has bindings, all of them are true.                           *)
THEOREM AcceptedBindingsConverge == UpdateSpec => []BindingsConverge
<1>1. UpdateInit => ConvergeInv
  <2> SUFFICES ASSUME UpdateInit
               PROVE  ConvergeInv
    OBVIOUS
  <2>1. UpdateTypeOK /\ CheckInv /\ bindings \in Classes /\ pending = 0 /\ rounds = 0
    BY UpdateInitTyped, InitChecked DEF UpdateInit, Init
  <2>2. Settled({}) /\ Cardinality({}) >= 0
    BY FS_EmptySet DEF Settled
  <2> QED
    BY <2>1, <2>2 DEF ConvergeInv, SettledSoFar
<1>2. ConvergeInv /\ [UpdateNext]_UpdateVars => ConvergeInv'
  BY ConvergeStep
<1>3. ConvergeInv => BindingsConverge
  <2> SUFFICES ASSUME ConvergeInv, pending = 0, rounds = Len(bindings), Plain
               PROVE  \A i \in DOMAIN bindings : Holds(bindings[i])
    BY DEF BindingsConverge, Plain
  <2>1. PICK F : Settled(F) /\ Cardinality(F) >= rounds
    BY DEF ConvergeInv, SettledSoFar
  <2>2. F \subseteq DOMAIN bindings /\ Cardinality(F) >= Cardinality(DOMAIN bindings)
    BY <2>1, BindingsFinite DEF Settled, ConvergeInv
  <2>3. F = DOMAIN bindings
    <3>1. IsFiniteSet(DOMAIN bindings) /\ IsFiniteSet(F)
      BY <2>2, BindingsFinite, FS_Subset DEF ConvergeInv
    <3>2. Cardinality(F) \in Nat /\ Cardinality(DOMAIN bindings) \in Nat
      BY <3>1, FS_CardinalityType
    <3>3. Cardinality(F) <= Cardinality(DOMAIN bindings)
      BY <2>2, <3>1, FS_Subset
    <3> QED
      BY <2>2, <3>1, <3>2, <3>3, FS_Subset
  <2> QED
    BY <2>1, <2>3 DEF Settled
<1> QED
  BY <1>1, <1>2, <1>3, PTL DEF UpdateSpec, UpdateVars

=============================================================================
