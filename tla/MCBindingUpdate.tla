---------------------------- MODULE MCBindingUpdate --------------------------
(* Classes of up to two bindings in any order, with what the check does    *)
(* not see, and of three, over an int32, a bool, an int32 and a var, which *)
(* lie in this order.                                                      *)
EXTENDS BindingUpdate

UpTo(n, S) == UNION {[1 .. k -> S] : k \in 0 .. n}
MCBindings(targets, hidden) ==
  [target : targets, operands : UpTo(1, Elements), hidden : {{}} \cup {{e} : e \in hidden}]

MCClasses ==
  UpTo(2, MCBindings({"a", "b"}, {"b"}))
  \cup {class \in [1 .. 3 -> MCBindings({"a", "b", "c"}, {})] :
          [i \in DOMAIN class |-> class[i].target] \in {<<"a", "b", "c">>, <<"c", "b", "a">>}}

MCValues == 0 .. 1
MCEval(b, v) ==
  (1 + FoldSeq(LAMBDA e, n : v[e] + n, 0, b.operands)
     + FoldSet(LAMBDA e, n : v[e] + n, 0, b.hidden)) % 2

MCOffset == [a |-> 0, b |-> 4, c |-> 8, d |-> 12]
MCBytes == [a |-> 4, b |-> 4, c |-> 4, d |-> 16]

=============================================================================
