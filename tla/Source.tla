-------------------------------- MODULE Source --------------------------------
(***************************************************************************)
(* A method that does what its source says: one assignment or test after   *)
(* the other, in the order of its blocks, branches and loops.  Module      *)
(* Meaning has the order and the effects.                                  *)
(***************************************************************************)
EXTENDS Terms

CONSTANTS
  Programs,    (* the bodies of methods                                    *)
  Start(_),    (* the statement a method starts with                       *)
  Order(_),    (* <<id, how, id>>: which statement follows which           *)
  Effects(_)   (* what the statements of a method do                       *)

VARIABLES
  program,
  last         (* the last assignment or test, and what it did             *)

vars == <<program, last>>

Init ==
  /\ program \in Programs
  /\ last = Begin

Follow(e) ==
  IF e = Begin THEN Start(program)
  ELSE (CHOOSE x \in Order(program) : x[1] = e.at /\ x[2] = e.how)[3]

Next ==
  /\ last # End
  /\ last' \in {e \in Effects(program) \cup {End} : e.at = Follow(last)}
  /\ UNCHANGED program

Spec == Init /\ [][Next]_vars /\ WF_vars(Next)

=============================================================================
