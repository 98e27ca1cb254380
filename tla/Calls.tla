--------------------------------- MODULE Calls --------------------------------
(***************************************************************************)
(* What a script says to its host: the native functions it calls and the   *)
(* fields it sets, in the order of its source, each call with the values   *)
(* that its arguments have at that moment.  First the constructor of class *)
(* App, then its function main.  Loops never end: the IR has no branch.    *)
(***************************************************************************)
EXTENDS Integers, SequencesExt

CONSTANTS
  Scripts,   (* sequences of functions                                     *)
  Memory     (* what malloc may return                                     *)

VARIABLES
  script,
  says,      (* its effects, those of its first loop, the fields it names  *)
  fields,    (* what each field of the App object it names holds           *)
  last       (* the last call or assignment, and what it gave              *)

vars == <<script, says, fields, last>>

Null == <<"null">>
Effect(id, fun, args, gives) == [id |-> id, fun |-> fun, args |-> args, gives |-> gives]
Begin == Effect("begin", "", <<>>, Null)
End == Effect("end", "", <<>>, Null)
Result(fun) == <<"result", fun>>

(***************************************************************************)
(* The effects of an expression, innermost first.  An argument is a        *)
(* literal, what a field holds, or what the effect before it gave.         *)
(***************************************************************************)
Value(e) ==
  CASE e.is = "int" -> <<"int", e.value>>
    [] e.is = "name" -> <<"held", e.name>>
    [] OTHER -> <<"it">>

RECURSIVE Effects(_)
All(exprs) == FlattenSeq([n \in DOMAIN exprs |-> Effects(exprs[n])])
Values(exprs) == [n \in DOMAIN exprs |-> Value(exprs[n])]
Effects(e) ==
  CASE e.is \in {"int", "name"} -> <<>>
    [] e.is = "new" -> << Effect(e.id, e.type \o "." \o e.type, <<>>, <<"new">>) >>
    [] e.is = "call" -> All(e.args) \o << Effect(e.id, e.fun, Values(e.args), Result(e.fun)) >>
    [] e.is = "dot" ->
         All(e.args) \o << Effect(e.id, e.fun, << Value(e.on) >> \o Values(e.args), Result(e.fun)) >>
    [] e.is = "=" -> Effects(e.rhs) \o << Effect(e.id, "=", << Value(e.rhs) >>, <<"field", e.lhs.name>>) >>
    [] e.is = "var" -> Effects(e.init)
    [] e.is = "return" -> <<>>

(* A body as a path: the effects up to its first loop, and that loop's.    *)
Loops(body) == {n \in DOMAIN body : body[n].is \in {"for", "while"}}
RECURSIVE Path(_)
Path(body) ==
  IF Loops(body) = {} THEN [once |-> All(body), again |-> <<>>]
  ELSE LET n == Min(Loops(body))
           before == All(SubSeq(body, 1, n - 1))
           inner == Path(body[n].body)
           update == IF body[n].is = "for" THEN Effects(body[n].update) ELSE <<>>
       IN IF inner.again # <<>> THEN [inner EXCEPT !.once = before \o @]
          ELSE [once |-> before, again |-> inner.once \o update]

Body(functions, name) ==
  LET n == SelectInSeq(functions, LAMBDA f : f.class = "App" /\ f.name = name)
  IN IF n = 0 THEN <<>> ELSE functions[n].body

(* The fields a script sets or takes for an operand.                       *)
Names(effects) ==
  LET words == UNION {Range(e.args) \cup {e.gives} : e \in Range(effects)}
  IN {word[2] : word \in {w \in words : w[1] \in {"held", "field"}}}

Says(functions) ==
  LET path == Path(Body(functions, "main"))
      once == All(Body(functions, "App")) \o path.once
  IN [once |-> once, again |-> path.again, names |-> Names(once \o path.again)]

Init ==
  /\ script \in Scripts
  /\ says = Says(script)
  /\ fields = [f \in says.names |-> Null]
  /\ last = Begin

Following ==
  LET all == says.once \o says.again
      n == SelectInSeq(all, LAMBDA e : e.id = last.id)
  IN CASE n < Len(all) -> all[n + 1]
       [] n = Len(all) -> IF says.again = <<>> THEN End ELSE says.again[1]

Meaning(v) ==
  CASE v[1] = "held" -> fields[v[2]]
    [] v[1] = "it" -> last.gives
    [] OTHER -> v

Do(e) ==
  LET args == [n \in DOMAIN e.args |-> Meaning(e.args[n])]
  IN \/ /\ e.gives = <<"new">>
        /\ \E m \in Memory : last' = Effect(e.id, e.fun, <<m>>, m)
        /\ UNCHANGED fields
     \/ /\ e.fun = "="
        /\ fields' = [fields EXCEPT ![e.gives[2]] = args[1]]
        /\ last' = Effect(e.id, "=", args, Null)
     \/ /\ e.gives # <<"new">> /\ e.fun # "="
        /\ last' = Effect(e.id, e.fun, args, e.gives)
        /\ UNCHANGED fields

Next == last # End /\ Do(Following) /\ UNCHANGED <<script, says>>

Spec == Init /\ [][Next]_vars /\ WF_vars(Next)

===============================================================================
