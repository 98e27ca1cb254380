-------------------------------- MODULE Terms ---------------------------------
(***************************************************************************)
(* What a value is made of, for modules Source and Machine: a literal, a   *)
(* variable, or an operator and its arguments.  A term is a tuple <<name,  *)
(* kind, arguments>> with the arguments by side; an operator that commutes *)
(* has its arguments on no side.                                           *)
(***************************************************************************)
EXTENDS Sequences

(* What OP_LOAD yields for a local, and the local, which OP_LOADADDR       *)
(* points at.  The two are told apart because they are two places: OP_LOAD *)
(* reads ebp + offset, and the frame is below ebp, where OP_LOADADDR gives *)
(* ebp - offset (property LoadsTheLocal of module Machine).                *)
Reads == "ebp+"
Writes == "ebp-"

Leaf(name, kind) == <<name, kind, {}>>
Of(name, kind, a) == <<name, kind, {<<"only", a>>}>>
Apply(op, kind, a, b) ==
  <<op, kind, IF op \in {"+", "*", "==", "!="} THEN {<<"any", a>>, <<"any", b>>}
              ELSE {<<"left", a>>, <<"right", b>>}>>
Converted(v, t, u) == Of("conv", t \o " to " \o u, v)

(* What the execution of a statement does: which statement, with what      *)
(* outcome, which place it assigns to, and the value it stores or tests.   *)
Effect(id, how, target, value) == [at |-> id, how |-> how, target |-> target, value |-> value]
Nowhere == Leaf("", "")
Begin == Effect("begin", "done", Nowhere, Nowhere)
End == Effect("end", "done", Nowhere, Nowhere)

=============================================================================
