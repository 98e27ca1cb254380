---------------------------- MODULE BindingCheck -----------------------------
(***************************************************************************)
(* The check of a class's "let" bindings before it is accepted.            *)
(* compileStruct turns every binding into a bound_element (the target) and *)
(* its dependencies (the identifiers in the expression), then calls        *)
(* detect_circular_references on each target in turn: a depth first search *)
(* that reports "circular" as soon as it meets an element twice.  The      *)
(* recursion of sema::visit is the stack "frames".                         *)
(***************************************************************************)
EXTENDS Integers, Sequences, FiniteSets, SequencesExt

CONSTANTS
  Elements,   (* the identifiers of the class: its fields                  *)
  Classes     (* the classes considered, each the sequence of its bindings *)

(* A binding  let target: expression.  "operands" are the identifiers that *)
(* ast_visit_identities reaches, through binary operators only, from left  *)
(* to right; "hidden" are those in call arguments, member accesses and     *)
(* unary operators, which it does not look into.                           *)
Bindings == [target : Elements, operands : Seq(Elements), hidden : SUBSET Elements]

ASSUME ClassesAssumption == Classes \subseteq Seq(Bindings)

VARIABLES
  bindings,   (* AEStructNode::m_bindings of the class compiled            *)
  roots,      (* the targets tracked so far, one for each binding          *)
  deps,       (* bound_element::dependencies                               *)
  root,       (* index in roots of the element under examination           *)
  visited,    (* the local "visited" of detect_circular_references         *)
  frames,     (* activations of visit: element and index of the next child *)
  result,     (* the local "result" of detect_circular_references          *)
  phase       (* where compileStruct is                                    *)

vars == <<bindings, roots, deps, root, visited, frames, result, phase>>

Phases == {"track", "detect", "accepted", "aborted"}

Top == Last(frames)

-----------------------------------------------------------------------------
(* The dependency graph.                                                   *)

Init ==
  /\ bindings \in Classes
  /\ roots = <<>>
  /\ deps = [e \in Elements |-> <<>>]
  /\ root = 0
  /\ visited = <<>>
  /\ frames = <<>>
  /\ result = FALSE
  /\ phase = "track"

(* Mutant: a second binding of the same target replaces the first.         *)
Track_Replaces ==
  /\ phase = "track"
  /\ Len(roots) < Len(bindings)
  /\ LET b == bindings[Len(roots) + 1] IN
       /\ roots' = Append(roots, b.target)
       /\ deps' = [deps EXCEPT ![b.target] = b.operands]
  /\ UNCHANGED <<bindings, root, visited, frames, result, phase>>

(* A reading of one expression appends to what the target depends on: a    *)
(* second binding of the same target adds to the first.                    *)
Track ==
  /\ phase = "track"
  /\ Len(roots) < Len(bindings)
  /\ LET b == bindings[Len(roots) + 1] IN
       /\ roots' = Append(roots, b.target)
       /\ deps' = [deps EXCEPT ![b.target] = @ \o b.operands]
  /\ UNCHANGED <<bindings, root, visited, frames, result, phase>>

-----------------------------------------------------------------------------
(* The search.                                                             *)

(* Mutant: the children are counted from zero.                             *)
NextRoot_FromZero ==
  /\ \/ phase = "track" /\ Len(roots) = Len(bindings)
     \/ phase = "detect" /\ frames = <<>> /\ ~result
  /\ IF root < Len(roots)
       THEN /\ root' = root + 1
            /\ visited' = <<roots[root + 1]>>
            /\ frames' = <<[elem |-> roots[root + 1], next |-> 0]>>
            /\ phase' = "detect"
       ELSE /\ phase' = "accepted"
            /\ UNCHANGED <<root, visited, frames>>
  /\ result' = FALSE
  /\ UNCHANGED <<bindings, roots, deps>>

(* The next target, or the end of the check: a binding expression without  *)
(* a reported element lets the class pass.                                 *)
NextRoot ==
  /\ \/ phase = "track" /\ Len(roots) = Len(bindings)
     \/ phase = "detect" /\ frames = <<>> /\ ~result
  /\ IF root < Len(roots)
       THEN /\ root' = root + 1
            /\ visited' = <<roots[root + 1]>>
            /\ frames' = <<[elem |-> roots[root + 1], next |-> 1]>>
            /\ phase' = "detect"
       ELSE /\ phase' = "accepted"
            /\ UNCHANGED <<root, visited, frames>>
  /\ result' = FALSE
  /\ UNCHANGED <<bindings, roots, deps>>

Abort ==
  /\ phase = "detect" /\ frames = <<>> /\ result
  /\ phase' = "aborted"
  /\ UNCHANGED <<bindings, roots, deps, root, visited, frames, result>>

Child == deps[Top.elem][Top.next]

HasChild ==
  /\ phase = "detect"
  /\ frames # <<>>
  /\ Top.next \in DOMAIN deps[Top.elem]

Advance == [frames EXCEPT ![Len(frames)].next = @ + 1]

(* Mutant: the children of the child are not visited.                      *)
VisitNew_Shallow ==
  /\ HasChild
  /\ Child \notin ToSet(visited)
  /\ visited' = Append(visited, Child)
  /\ frames' = Advance
  /\ UNCHANGED <<bindings, roots, deps, root, result, phase>>

(* Mutant: the child is not remembered.                                    *)
VisitNew_Forgets ==
  /\ HasChild
  /\ Child \notin ToSet(visited)
  /\ frames' = Append(Advance, [elem |-> Child, next |-> 1])
  /\ UNCHANGED <<bindings, roots, deps, root, visited, result, phase>>

(* The callback takes a new child: visit goes on in it.                    *)
VisitNew ==
  /\ HasChild
  /\ Child \notin ToSet(visited)
  /\ visited' = Append(visited, Child)
  /\ frames' = Append(Advance, [elem |-> Child, next |-> 1])
  /\ UNCHANGED <<bindings, roots, deps, root, result, phase>>

(* Mutant: the activation neither returns nor goes on to its next child.   *)
VisitSeen_Stays ==
  /\ HasChild
  /\ Child \in ToSet(visited)
  /\ result' = TRUE
  /\ UNCHANGED <<bindings, roots, deps, root, visited, frames, phase>>

(* The callback has seen the child: this activation returns, the ones      *)
(* below it go on with their own children.                                 *)
VisitSeen ==
  /\ HasChild
  /\ Child \in ToSet(visited)
  /\ result' = TRUE
  /\ frames' = Front(frames)
  /\ UNCHANGED <<bindings, roots, deps, root, visited, phase>>

Leave ==
  /\ phase = "detect"
  /\ frames # <<>>
  /\ Top.next \notin DOMAIN deps[Top.elem]
  /\ frames' = Front(frames)
  /\ UNCHANGED <<bindings, roots, deps, root, visited, result, phase>>

CheckNext == Track \/ NextRoot \/ Abort \/ VisitNew \/ VisitSeen \/ Leave

(* The compiler is one thread of sequential code: it keeps running.        *)
CheckSpec == Init /\ [][CheckNext]_vars /\ WF_vars(CheckNext)

-----------------------------------------------------------------------------
(* Properties.                                                             *)

TypeOK ==
  /\ bindings \in Seq(Bindings)
  /\ roots \in Seq(Elements)
  /\ deps \in [Elements -> Seq(Elements)]
  /\ root \in 0 .. Len(roots)
  /\ visited \in Seq(Elements)
  /\ frames \in Seq([elem : Elements, next : Nat \ {0}])
  /\ result \in BOOLEAN
  /\ phase \in Phases

(* A set of targets each of which needs one of the set before it can be    *)
(* evaluated.                                                              *)
Circular(S) ==
  /\ S # {}
  /\ \A s \in S : \E i \in DOMAIN bindings :
       bindings[i].target = s /\ ToSet(bindings[i].operands) \cap S # {}

(* The message of the check: a class with a circular binding is rejected,  *)
(* whatever the order and number of its bindings.                          *)
AcceptedAcyclic ==
  phase = "accepted" => ~\E S \in SUBSET Elements : Circular(S)

(* The activations of visit are a path in the dependency graph that starts *)
(* at the target, and every one of them was entered once: the recursion is *)
(* never deeper than there are elements.                                   *)
RecursionIsPath ==
  /\ \A i, j \in DOMAIN frames : frames[i].elem = frames[j].elem => i = j
  /\ \A i \in DOMAIN frames :
       IF i = 1 THEN frames[i].elem = roots[root]
       ELSE frames[i].elem = deps[frames[i - 1].elem][frames[i - 1].next - 1]

Succ(S) == UNION {ToSet(deps[s]) : s \in S}

(* What can be reached from S: as many rounds as there are elements.       *)
Reach(S) ==
  LET R[n \in 0 .. Cardinality(Elements)] ==
        IF n = 0 THEN S ELSE R[n - 1] \cup Succ(R[n - 1])
  IN R[Cardinality(Elements)]

(* Every element is reached from e along exactly one path: apart from e    *)
(* there are as many elements as there are edges.                          *)
IsTree(e) ==
  LET S == Reach({e})
      edges == UNION {{s} \X DOMAIN deps[s] : s \in S}
  IN Cardinality(edges) = Cardinality(S) - 1

(* What the check decides: it accepts exactly the classes in which every   *)
(* target reaches each element along one path, so that an element read     *)
(* twice is taken for a circular one.                                      *)
VerdictIsTree ==
  /\ phase = "accepted" => \A i \in DOMAIN roots : IsTree(roots[i])
  /\ phase = "aborted" => ~IsTree(roots[root])

(* The check comes to a verdict, circular or not.                          *)
Decides == <>(phase \in {"accepted", "aborted"})

=============================================================================
