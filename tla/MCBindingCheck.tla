---------------------------- MODULE MCBindingCheck ---------------------------
(* Every class with up to MaxBindings bindings of up to MaxOperands        *)
(* identifiers, and up to MaxHidden more where the check does not look.    *)
EXTENDS BindingCheck

CONSTANTS MaxBindings, MaxOperands, MaxHidden

UpTo(n, S) == UNION {[1 .. k -> S] : k \in 0 .. n}

MCBindings ==
  [target : Elements, operands : UpTo(MaxOperands, Elements),
   hidden : {S \in SUBSET Elements : Cardinality(S) <= MaxHidden}]

MCClasses == UpTo(MaxBindings, MCBindings)

=============================================================================
