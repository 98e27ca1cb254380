----------------------------- MODULE MCClassBuild -----------------------------
(* Batches over two classes, in a unit each or in the same unit.           *)
EXTENDS ClassBuild

MCHostSize == [t \in HostTypes |-> 4]
MCEmpty == {<<"T", "main">>}

(* App has overloads and gets a constructor, T has one of its own or not. *)
App == [name |-> "App", functions |-> <<"main", "main">>]
T(fns) == [name |-> "T", functions |-> fns]

MCBatches ==
  { << <<App>> >>,
    << <<T(<<"T">>)>>, <<App>> >>,
    << <<T(<<"main">>), [App EXCEPT !.functions = <<>>]>> >> }

=============================================================================
