---------------------------- MODULE BindingUpdate ----------------------------
(***************************************************************************)
(* What the accepted bindings do when the program runs.  The compiler adds *)
(* to every static assignment in a method of the class the evaluation of   *)
(* all its bindings, in the order of their declaration, each stored with   *)
(* the type of the assignment that triggered them (compileStaticAssign).   *)
(* One step is one OP_SET.  The methods run on one thread: nothing comes   *)
(* between an assignment and the bindings it triggers.                     *)
(***************************************************************************)
EXTENDS BindingCheck

CONSTANTS
  Values,      (* the values of a field                                    *)
  Eval(_, _),  (* the value of a binding's expression in a store           *)
  Offset,      (* where in the object each field lies                      *)
  Bytes,       (* the size of its type: 4 for int32, float, bool, string   *)
  Numbers,     (* the fields of type int32 or float                        *)
  Dynamic,     (* the fields of type var                                   *)
  LocalStores, (* the widths of assignments to parameters and locals       *)
  Shadows      (* for the assignments of the class, the names of fields    *)
               (* that a local or parameter in m_scopes has                *)

Sources(b) == ToSet(b.operands) \cup b.hidden

ASSUME UpdateAssumption ==
  /\ Offset \in [Elements -> Nat]
  /\ Bytes \in [Elements -> Nat \ {0}]
  /\ \A e, f \in Elements : e # f => Offset[f] \notin Offset[e] .. Offset[e] + Bytes[e] - 1
  /\ Numbers \subseteq {e \in Elements : Bytes[e] = 4}
  /\ Dynamic \subseteq Elements
  /\ LocalStores \subseteq {4, 8}
  /\ Shadows \subseteq SUBSET Elements

(* An expression reads its identifiers and nothing else.                   *)
ASSUME EvalAssumption ==
  \A class \in Classes : \A i \in DOMAIN class :
    \A v, w \in [Elements -> Values] :
      /\ Eval(class[i], v) \in Values
      /\ (\A e \in Sources(class[i]) : v[e] = w[e]) =>
            Eval(class[i], v) = Eval(class[i], w)

VARIABLES
  value,       (* the fields of the object                                 *)
  pending,     (* the next binding to evaluate, 0 outside an assignment    *)
  store,       (* the bytes each pending binding is stored with            *)
  shadows,     (* the fields a local or parameter hides from them          *)
  rounds       (* how often in a row the bindings were evaluated, reading  *)
               (* and writing what they name, with nothing else assigned   *)

updateVars == <<value, pending, store, shadows, rounds>>

(* A field of any type but int32 and float is assigned like a pointer,     *)
(* also a bool or a string, which have 4 bytes.                            *)
StoreOf(e) == IF e \in Numbers THEN 4 ELSE 8

(* DoAssign copies 8 bytes for a pointer and 4 otherwise.  Of a field that *)
(* is larger only a part is written; behind a smaller one others are       *)
(* overwritten, with whatever the stack word held besides.                 *)
Behind(e, n) == {f \in Elements \ {e} : Offset[f] \in Offset[e] .. Offset[e] + n - 1}

Stored(e, v, n) ==
  {w \in [Elements -> Values] :
     /\ n >= Bytes[e] => w[e] = v
     /\ \A f \in Elements \ ({e} \cup Behind(e, n)) : w[f] = value[f]}

(* Evaluating the bindings does what they say: no local is taken for what  *)
(* one of them names, and no store cuts a target or overwrites a name.     *)
Names == UNION {{bindings[i].target} \cup Sources(bindings[i]) : i \in DOMAIN bindings}
Clean ==
  /\ Names \cap shadows = {}
  /\ \A i \in DOMAIN bindings :
       LET e == bindings[i].target IN store >= Bytes[e] /\ Names \cap Behind(e, store) = {}

UpdateInit ==
  /\ Init
  /\ value \in [Elements -> Values]
  /\ pending = 0
  /\ store = 4
  /\ shadows = {}
  /\ rounds = 0

(* The class is compiled: the fields are as the allocation left them.      *)
Compile == CheckNext /\ UNCHANGED updateVars

Running == phase = "accepted" /\ pending = 0

(* The bindings are compiled behind the assignment, with the same m_scopes.*)
StartRound(n) ==
  /\ pending' = IF bindings = <<>> THEN 0 ELSE 1
  /\ store' = n
  /\ shadows' \in Shadows

(* A static assignment to a field in a method of the class: no local has   *)
(* its name.                                                               *)
Assign(e, v) ==
  /\ Running
  /\ e \notin Dynamic
  /\ StartRound(StoreOf(e))
  /\ e \notin shadows'
  /\ value' \in Stored(e, v, StoreOf(e))
  /\ rounds' = 0
  /\ UNCHANGED vars

(* The trigger does not look at what is assigned: a local or parameter of  *)
(* a method sets it off like a field.                                      *)
AssignLocal(n) ==
  /\ Running
  /\ StartRound(n)
  /\ UNCHANGED <<value, rounds>>
  /\ UNCHANGED vars

(* compileVarAssign: the assignment to a var triggers nothing.             *)
AssignDynamic(e, v) ==
  /\ Running
  /\ e \in Dynamic
  /\ value' = [value EXCEPT ![e] = v]
  /\ rounds' = 0
  /\ UNCHANGED <<pending, store, shadows>>
  /\ UNCHANGED vars

(* An assignment to the object in a method of another class triggers the   *)
(* bindings of that class, not the ones of this object.                    *)
AssignOutside(e, v) ==
  /\ Running
  /\ e \notin Dynamic
  /\ value' \in Stored(e, v, StoreOf(e))
  /\ rounds' = 0
  /\ UNCHANGED <<pending, store, shadows>>
  /\ UNCHANGED vars

(* What a binding reads: of a name that a local has, whatever OP_LOAD      *)
(* finds where it takes that local to be.                                  *)
Seen == {v \in [Elements -> Values] : \A e \in Elements \ shadows : v[e] = value[e]}

(* The store of a binding goes to its field, unless a local has its name.  *)
Evaluate(b) ==
  \E v \in Seen :
    value' \in IF b.target \in shadows THEN {value} ELSE Stored(b.target, Eval(b, v), store)

EndRound ==
  /\ pending' = 0
  /\ rounds' = IF ~Clean THEN 0 ELSE IF rounds < Len(bindings) THEN rounds + 1 ELSE rounds

(* Mutant: the last binding is left out.                                   *)
Trigger_OffByOne ==
  /\ pending # 0
  /\ Evaluate(bindings[pending])
  /\ IF pending + 1 >= Len(bindings) THEN EndRound ELSE pending' = pending + 1 /\ UNCHANGED rounds
  /\ UNCHANGED <<store, shadows>>
  /\ UNCHANGED vars

(* Mutant: the index passes the last binding.                              *)
Trigger_Overruns ==
  /\ pending # 0
  /\ Evaluate(bindings[pending])
  /\ IF pending > Len(bindings) THEN EndRound ELSE pending' = pending + 1 /\ UNCHANGED rounds
  /\ UNCHANGED <<store, shadows>>
  /\ UNCHANGED vars

(* Mutant: the assignment of a binding triggers the bindings again.        *)
Trigger_Again ==
  /\ pending # 0
  /\ Evaluate(bindings[pending])
  /\ pending' = IF pending = Len(bindings) THEN 1 ELSE pending + 1
  /\ UNCHANGED <<store, shadows, rounds>>
  /\ UNCHANGED vars

(* One binding is evaluated and stored.                                    *)
Trigger ==
  /\ pending # 0
  /\ Evaluate(bindings[pending])
  /\ IF pending = Len(bindings) THEN EndRound ELSE pending' = pending + 1 /\ UNCHANGED rounds
  /\ UNCHANGED <<store, shadows>>
  /\ UNCHANGED vars

UpdateNext ==
  \/ Compile
  \/ Trigger
  \/ \E e \in Elements, v \in Values :
       Assign(e, v) \/ AssignDynamic(e, v) \/ AssignOutside(e, v)
  \/ \E n \in LocalStores : AssignLocal(n)

UpdateSpec ==
  /\ UpdateInit
  /\ [][UpdateNext]_<<vars, updateVars>>
  /\ WF_vars(Compile)
  /\ WF_updateVars(Trigger)

-----------------------------------------------------------------------------
(* Properties.                                                             *)

UpdateTypeOK ==
  /\ TypeOK
  /\ value \in [Elements -> Values]
  /\ pending \in 0 .. Len(bindings)
  /\ store \in {4, 8}
  /\ shadows \subseteq Elements
  /\ rounds \in 0 .. Len(bindings)

Holds(b) == value[b.target] = Eval(b, value)
TargetsDiffer(class) == \A i, j \in DOMAIN class : class[i].target = class[j].target => i = j

(* Every target is bound once and before the bindings that read it.        *)
InDependencyOrder(class) ==
  /\ TargetsDiffer(class)
  /\ \A i, j \in DOMAIN class : class[i].target \in Sources(class[j]) => i < j

(* Features.md:11 "This relationship will always remain true": in a class  *)
(* written in dependency order one clean evaluation after an assignment    *)
(* makes every binding true, whatever a cut store, a shadowed name, a var  *)
(* or another class did to the fields before.                              *)
RelationshipHolds ==
  pending = 0 /\ rounds > 0 /\ InDependencyOrder(bindings) =>
    \A i \in DOMAIN bindings : Holds(bindings[i])

(* What refusing circular classes is for: written in any order, bindings   *)
(* that the check followed to the end are true after as many evaluations   *)
(* as there are bindings, and further ones change nothing.                 *)
BindingsConverge ==
  pending = 0 /\ rounds = Len(bindings) /\ TargetsDiffer(bindings)
    /\ (\A i \in DOMAIN bindings : bindings[i].hidden = {})
  => \A i \in DOMAIN bindings : Holds(bindings[i])

(* An assignment comes to an end, with all bindings evaluated.             *)
AssignmentEnds == pending # 0 ~> pending = 0

=============================================================================
