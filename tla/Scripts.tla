-------------------------------- MODULE Scripts -------------------------------
(***************************************************************************)
(* The method bodies the compiler is given: what the parser leaves of a    *)
(* script, for modules Source (what it says) and Emit (what is emitted).   *)
(* An expression is a tuple, a statement a record with an id:              *)
(*   <<"int">>  <<"float">>  <<"id", x>>  <<"dot", object, member>>        *)
(*   <<"unary", op, e>>  <<"bin", op, l, r>>                               *)
(* The two sets below hold the expressions and bodies of some scripts with *)
(* all their parts; a tree of nodes is finite, so it has a depth.          *)
(***************************************************************************)
EXTENDS Integers, Sequences

CONSTANTS
  Expressions,  (* the expressions, and every operand of one               *)
  Bodies,       (* the blocks, every block in one and every rest of one    *)
  ExprDepth,    (* the depth of the tree of an expression                  *)
  BodyDepth,    (* the depth of the tree of a block                        *)
  FieldType,    (* the types of the fields of the class                    *)
  MemberType    (* the types of the fields of the other classes            *)

Operators == {"+", "-", "*", "/", ">", "<", ">=", "<=", "==", "!=", "&&", "||"}

ASSUME ExpressionAssumption ==
  /\ Expressions \subseteq
       {<<"int">>, <<"float">>} \cup ({"id"} \X STRING) \cup ({"dot"} \X STRING \X STRING)
       \cup ({"unary"} \X {"-", "++"} \X Expressions)
       \cup ({"bin"} \X Operators \X Expressions \X Expressions)
  /\ ExprDepth \in [Expressions -> Nat]
  /\ \A e \in Expressions :
       /\ e[1] \in {"unary", "bin"} => ExprDepth[e[3]] < ExprDepth[e]
       /\ e[1] = "bin" => ExprDepth[e[4]] < ExprDepth[e]

(* What an assignment or an increment may be made to.                      *)
Targets == {e \in Expressions : e[1] \in {"id", "dot"}}

(* The names of statements; "begin" and "end" are no statement's.  The last*)
(* statement of a method is followed by "end".                             *)
Ids == STRING \ {"", "begin", "end"}
Labels == Ids \cup {"end"}

Decl == [kind : {"decl"}, id : Ids, name : STRING, type : STRING]
InitVar == [kind : {"init"}, id : Ids, name : STRING, type : STRING, rhs : Expressions]
Assign == [kind : {"assign"}, id : Ids, lhs : Targets, rhs : Expressions]
Increment == [kind : {"increment"}, id : Ids, lhs : Targets]
Branch == [kind : {"if", "while"}, id : Ids, test : Expressions, body : Bodies]
For == [kind : {"for"}, id : Ids, init : Decl \cup InitVar \cup Assign, test : Expressions,
        update : Increment \cup Assign, body : Bodies]
Statement == Decl \cup InitVar \cup Assign \cup Branch \cup For

(* The statements that hold a block, and those that declare a local.       *)
Compound == {"if", "while", "for"}
Declaring == {"decl", "init"}

(* The target of an initialiser and the expression of an increment are     *)
(* expressions too.                                                        *)
NodesOf(s) ==
  CASE s.kind = "init" -> {<<"id", s.name>>}
    [] s.kind = "for" -> (IF s.init.kind = "init" THEN {<<"id", s.init.name>>} ELSE {})
                         \cup (IF s.update.kind = "increment" THEN {<<"unary", "++", s.update.lhs>>} ELSE {})
    [] OTHER -> {}

ASSUME BodyAssumption ==
  /\ <<>> \in Bodies
  /\ Bodies \subseteq Seq(Statement)
  /\ BodyDepth \in [Bodies -> Nat]
  /\ \A body \in Bodies : body # <<>> =>
       /\ Tail(body) \in Bodies /\ BodyDepth[Tail(body)] < BodyDepth[body]
       /\ Head(body).kind \in Compound => BodyDepth[Head(body).body] < BodyDepth[body]
       /\ NodesOf(Head(body)) \subseteq Expressions

(***************************************************************************)
(* The locals in scope are a sequence of names and types, innermost last;  *)
(* a method of the class T starts with its receiver.  (TLAPS does not know *)
(* that "this" is a string.)                                               *)
(***************************************************************************)
Scopes == Seq((STRING \cup {"this"}) \X (STRING \cup {"T"}))
Receiver == << <<"this", "T">> >>

=============================================================================
