----------------------------- MODULE ValuesProofs ------------------------------
(***************************************************************************)
(* Proofs about Values, for every host, name, text and number, and every   *)
(* bound on the statements, the variables and the heap.                    *)
(***************************************************************************)
EXTENDS Values, SequenceTheorems, WellFoundedInduction, TLAPS

Kinds == {"undefined", "int", "string", "object", "array", "prototype", "function"} \cup Overlaid
Val == [type : Kinds, data : Int]
String == [str : Texts, ref : Int, fate : {"held", "shared", "alone"}]
Property == [name : Names, value : Val]
Place == ({"stack"} \X Nat) \cup ({"object"} \X Nat \X Nat)
Cell ==
  [is : {"slot"}, word : Int] \cup [is : {"variant"}, value : Val]
  \cup [is : {"ref"}, type : {"REF_VALUE", "REF_RAW"}, place : Place]
  \cup [is : {"ref"}, type : {"REF_UNDEFINED"}, place : {<<>>}]
Instruction ==
  ({"VARLOADREF"} \X {1} \X Nat) \cup ({"VARLOADREF"} \X {0} \X Names)
  \cup ({"LOADK"} \X Ints) \cup ({"PUSHVAR"} \X Nat) \cup ({"VARSTORE"} \X {"INT", "OBJECT", "VAR"})
  \cup {<<"NEW">>, <<"VARCALL">>, <<"POPVAR">>}

Statuses == {"running", "null pointer", "raw memory", "freed memory", "other memory", "print"}

Shapes ==
  /\ host \in [Hosts -> Val]
  /\ strings \in Seq(String) /\ objects \in Seq(Seq(Property)) /\ arrays \in Seq(Seq(Val))
  /\ stack \in Seq(Cell)
  /\ declared \in 0 .. MaxLocals
  /\ code \in Seq(Instruction)
  /\ status \in Statuses

-----------------------------------------------------------------------------
(* Everything in the heap and on the stack leads somewhere.                *)

Live(s) == s.ref > 0 \/ s.fate = "shared"

Leads(v, ss, os, as) ==
  /\ v.type = "string" => v.data = 0 \/ (v.data \in DOMAIN ss /\ Live(ss[v.data]))
  /\ v.type = "object" => v.data \in DOMAIN os
  /\ v.type = "array" => v.data \in DOMAIN as
  /\ v.type \in Overlaid => v.data = Bits

HostLeads == \A h \in Hosts : Leads(host[h], strings, objects, arrays)
ObjectsLead ==
  \A o \in DOMAIN objects : \A i \in DOMAIN objects[o] :
    Leads(objects[o][i].value, strings, objects, arrays)
ArraysLead ==
  \A a \in DOMAIN arrays : \A i \in DOMAIN arrays[a] :
    Leads(arrays[a][i], strings, objects, arrays)
StackLeads ==
  \A i \in DOMAIN stack : stack[i].is = "variant" =>
    Leads(stack[i].value, strings, objects, arrays)

Exists(p, i, os) ==
  IF p[1] = "stack" THEN p[2] \in 1 .. i - 1
  ELSE p[2] \in DOMAIN os /\ p[3] \in DOMAIN os[p[2]]
RefsLead ==
  \A i \in DOMAIN stack : stack[i].is = "ref" /\ stack[i].type # "REF_UNDEFINED" =>
    Exists(stack[i].place, i, objects)

-----------------------------------------------------------------------------
(* What is left of a statement, and what the stack holds at that point.    *)

Assignment(rhs) == compileVarAssign(lhs, rhs)
EvalLen(rhs) == IF rhs.is = "call" THEN 2 ELSE 1

(* How many of its instructions are through.                               *)
Done(rhs) == Len(Assignment(rhs)) - Len(code)

Variables(n) == n <= Len(stack) /\ \A i \in 1 .. n : stack[i].is = "variant"
IsOperand(c, rhs) == c.is = IF rhs.is \in {"int", "new"} THEN "slot" ELSE "variant"

(* The reference is on top of the variables, or has been lost.             *)
Located == Len(stack) = declared \/ (Len(stack) = declared + 1 /\ stack[declared + 1].is = "ref")
Evaluated(rhs) ==
  LET n == Len(stack)
  IN /\ n \in {declared + 1, declared + 2} /\ IsOperand(stack[n], rhs)
     /\ n = declared + 2 => stack[declared + 1].is = "ref"
Reached(k, rhs) ==
  LET n == Len(lhs)
  IN /\ Variables(declared)
     /\ k = 0 \/ k = n + EvalLen(rhs) + 1 => Len(stack) = declared
     /\ k \in 1 .. n - 1 => Len(stack) = declared + 1 /\ stack[declared + 1].is = "ref"
     /\ k = 1 => stack[declared + 1].type = "REF_VALUE"
     /\ k = n => Located
     /\ k = n + 1 => Evaluated(rhs)
     /\ k = n + 2 /\ rhs.is = "call" => Evaluated(rhs) \/ Located
Assigning(rhs) ==
  LET full == Assignment(rhs)
      k == Done(rhs)
  IN /\ lhs \in Paths
     /\ k \in 0 .. Len(full)
     /\ \A i \in DOMAIN code : code[i] = full[k + i]
     /\ Reached(k, rhs)

Declaring ==
  /\ declared > 0 /\ lhs = <<declared>>
  /\ Len(stack) = declared - 1 /\ Variables(declared - 1)
  /\ Head(code) = <<"PUSHVAR", 1>>
  /\ \/ Len(code) = 1
     \/ \E rhs \in Expressions : Tail(code) = Assignment(rhs)

Popping ==
  /\ declared = 0
  /\ \A i \in DOMAIN code : code[i] = <<"POPVAR">>
  /\ Len(stack) = Len(code) /\ Variables(Len(stack))

Progress ==
  status = "running" =>
    IF code = <<>> THEN Len(stack) = declared /\ Variables(declared)
    ELSE Popping \/ Declaring \/ \E rhs \in Expressions : Assigning(rhs)

IInv ==
  /\ Shapes
  /\ HostLeads /\ ObjectsLead /\ ArraysLead /\ StackLeads /\ RefsLead
  /\ Progress

-----------------------------------------------------------------------------
(* Lemmas about values.                                                    *)

LEMMA ValueParts ==
  ASSUME NEW t \in Kinds, NEW d \in Int
  PROVE  Value(t, d) \in Val /\ Value(t, d).type = t /\ Value(t, d).data = d
BY DEF Value, Val

LEMMA UndefinedIsVal ==
  /\ Undefined \in Val
  /\ \A ss, os, as : Leads(Undefined, ss, os, as)
BY DEF Undefined, Value, Val, Kinds, Leads, Overlaid

(* An assignment hands on the kind and the payload of a value; what an     *)
(* undefined value leaves behind leads nowhere.                            *)
LEMMA AssignedLeads ==
  ASSUME NEW old \in Val, NEW v \in Val, NEW ss, NEW os, NEW as, Leads(v, ss, os, as)
  PROVE  Assigned(old, v) \in Val /\ Leads(Assigned(old, v), ss, os, as)
BY DEF Assigned, Copied, Val, Kinds, Leads, Overlaid

LEMMA WithRealLeads ==
  ASSUME NEW v \in Val, NEW ss, NEW os, NEW as
  PROVE  WithReal(v) \in Val /\ Leads(WithReal(v), ss, os, as)
<1>1. Bits \in Int /\ 0 \in Int /\ v.type \in Kinds
  BY DEF Bits, Val
<1>2. CASE v.type = "int"
  <2>1. WithReal(v) = Value("int", 0) /\ "int" \in Kinds
    BY <1>2 DEF WithReal, Kinds
  <2>2. /\ Value("int", 0) \in Val /\ Value("int", 0).type = "int"
        /\ Value("int", 0).data = 0
    BY <1>1, <2>1, ValueParts
  <2> QED BY <2>1, <2>2 DEF Leads, Overlaid
<1>3. CASE v.type \in {"string", "object", "array"}
  <2>1. PICK t \in Overlaid : WithReal(v) = Value(t, Bits)
    BY <1>3 DEF WithReal, Overlaid
  <2>2. t \in Kinds
    BY DEF Kinds
  <2>3. Value(t, Bits) \in Val /\ Value(t, Bits).type = t /\ Value(t, Bits).data = Bits
    BY <1>1, <2>2, ValueParts
  <2> QED BY <2>1, <2>3 DEF Leads, Overlaid
<1>4. CASE v.type \notin {"int", "string", "object", "array"}
  <2>1. WithReal(v) = Value(v.type, Bits)
    BY <1>4 DEF WithReal
  <2>2. /\ Value(v.type, Bits) \in Val /\ Value(v.type, Bits).type = v.type
        /\ Value(v.type, Bits).data = Bits
    BY <1>1, ValueParts
  <2> QED BY <1>4, <2>1, <2>2 DEF Leads
<1> QED BY <1>2, <1>3, <1>4

(* Nothing is taken from the heap.                                         *)
HeapGrows ==
  /\ Len(strings) <= Len(strings')
  /\ \A s \in 1 .. Len(strings) : Live(strings[s]) => Live(strings'[s])
  /\ Len(objects) <= Len(objects')
  /\ \A o \in 1 .. Len(objects) : Len(objects[o]) <= Len(objects'[o])
  /\ Len(arrays) <= Len(arrays')

Lengths ==
  /\ Len(strings) \in Nat /\ Len(objects) \in Nat /\ Len(arrays) \in Nat
  /\ Len(stack) \in Nat /\ Len(code) \in Nat /\ declared \in Nat
  /\ DOMAIN strings = 1 .. Len(strings)
  /\ DOMAIN objects = 1 .. Len(objects) /\ DOMAIN arrays = 1 .. Len(arrays)
  /\ DOMAIN stack = 1 .. Len(stack) /\ DOMAIN code = 1 .. Len(code)
  /\ \A o \in 1 .. Len(objects) :
       /\ objects[o] \in Seq(Property) /\ Len(objects[o]) \in Nat
       /\ DOMAIN objects[o] = 1 .. Len(objects[o])
       /\ \A i \in 1 .. Len(objects[o]) : objects[o][i] \in Property
  /\ \A a \in 1 .. Len(arrays) :
       /\ arrays[a] \in Seq(Val) /\ Len(arrays[a]) \in Nat
       /\ DOMAIN arrays[a] = 1 .. Len(arrays[a])
       /\ \A i \in 1 .. Len(arrays[a]) : arrays[a][i] \in Val
  /\ \A i \in 1 .. Len(stack) : stack[i] \in Cell

LEMMA LengthsKnown == Shapes => Lengths
<1> SUFFICES ASSUME Shapes PROVE Lengths
  OBVIOUS
<1>1. MaxLocals \in Nat
  BY ValuesAssumption
<1>2. declared \in 0 .. MaxLocals
  BY DEF Shapes
<1>3. /\ strings \in Seq(String) /\ objects \in Seq(Seq(Property)) /\ arrays \in Seq(Seq(Val))
      /\ stack \in Seq(Cell) /\ code \in Seq(Instruction)
  BY DEF Shapes
<1>4. \A o \in 1 .. Len(objects) : objects[o] \in Seq(Property)
  BY <1>3
<1>5. \A a \in 1 .. Len(arrays) : arrays[a] \in Seq(Val)
  BY <1>3
<1>6. declared \in Nat
  BY <1>1, <1>2
<1> QED BY <1>3, <1>4, <1>5, <1>6, SMTT(20) DEF Lengths

(* What leads to a string is not dangling unless the string was deleted.   *)
LEMMA StringAtHand ==
  ASSUME Lengths, NEW v \in Val, Leads(v, strings, objects, arrays), v.type \in {"string", "realstring"},
         ~Dangling(v)
  PROVE  v.type = "string" /\ v.data \in 1 .. Len(strings)
<1>1. v.type = "string"
  BY DEF Dangling, Overlaid
<1>2. v.data \in DOMAIN strings
  BY <1>1 DEF Dangling
<1> QED BY <1>1, <1>2 DEF Lengths

LEMMA ValuesKept ==
  ASSUME Lengths, Lengths', HeapGrows, NEW v \in Val, Leads(v, strings, objects, arrays)
  PROVE  Leads(v, strings', objects', arrays')
<1>1. /\ Len(strings) \in Nat /\ Len(objects) \in Nat /\ Len(arrays) \in Nat
      /\ DOMAIN strings = 1 .. Len(strings)
      /\ DOMAIN objects = 1 .. Len(objects) /\ DOMAIN arrays = 1 .. Len(arrays)
  BY DEF Lengths
<1>2. /\ Len(strings') \in Nat /\ Len(objects') \in Nat /\ Len(arrays') \in Nat
      /\ DOMAIN strings' = 1 .. Len(strings')
      /\ DOMAIN objects' = 1 .. Len(objects') /\ DOMAIN arrays' = 1 .. Len(arrays')
  BY DEF Lengths
<1>3. v.type \in Kinds /\ v.data \in Int
  BY DEF Val
<1>4. CASE v.type = "string"
  BY <1>1, <1>2, <1>3, <1>4 DEF Leads, HeapGrows
<1>5. CASE v.type = "object"
  BY <1>1, <1>2, <1>3, <1>5 DEF Leads, HeapGrows
<1>6. CASE v.type = "array"
  BY <1>1, <1>2, <1>3, <1>6 DEF Leads, HeapGrows
<1>7. CASE v.type \in {"undefined", "int", "prototype", "function"} \cup Overlaid
  BY <1>3, <1>7 DEF Leads, Overlaid
<1> QED BY <1>3, <1>4, <1>5, <1>6, <1>7 DEF Kinds

LEMMA PlacesKept ==
  ASSUME Lengths, Lengths', HeapGrows, NEW p, NEW i, Exists(p, i, objects)
  PROVE  Exists(p, i, objects')
<1>1. CASE p[1] = "stack"
  BY <1>1 DEF Exists
<1>2. CASE p[1] # "stack"
  <2>1. /\ p[2] \in 1 .. Len(objects) /\ Len(objects) \in Nat
        /\ p[3] \in 1 .. Len(objects[p[2]]) /\ Len(objects[p[2]]) \in Nat
    BY <1>2 DEF Exists, Lengths
  <2>2. /\ Len(objects) <= Len(objects') /\ Len(objects[p[2]]) <= Len(objects'[p[2]])
        /\ Len(objects') \in Nat /\ DOMAIN objects' = 1 .. Len(objects')
    BY <2>1 DEF HeapGrows, Lengths
  <2>3. p[2] \in 1 .. Len(objects')
    BY <2>1, <2>2
  <2>4. Len(objects'[p[2]]) \in Nat /\ DOMAIN objects'[p[2]] = 1 .. Len(objects'[p[2]])
    BY <2>3 DEF Lengths
  <2>5. p[3] \in DOMAIN objects'[p[2]]
    BY <2>1, <2>2, <2>4
  <2> QED BY <1>2, <2>2, <2>3, <2>5 DEF Exists
<1> QED BY <1>1, <1>2

HeapTyped ==
  /\ strings \in Seq(String) /\ objects \in Seq(Seq(Property)) /\ arrays \in Seq(Seq(Val))

(* The parts of the invariant that a step leaves alone.                    *)
LEMMA HostKept ==
  ASSUME Shapes, Lengths, Lengths', HeapGrows, HostLeads, host' = host
  PROVE  HostLeads'
<1> SUFFICES ASSUME NEW h \in Hosts PROVE Leads(host[h], strings', objects', arrays')
  BY DEF HostLeads
<1>1. host[h] \in Val
  BY DEF Shapes
<1> QED BY <1>1, ValuesKept DEF HostLeads

LEMMA ObjectsKept ==
  ASSUME Lengths, Lengths', HeapGrows, ObjectsLead, objects' = objects
  PROVE  ObjectsLead'
<1> SUFFICES ASSUME NEW o \in DOMAIN objects, NEW i \in DOMAIN objects[o]
             PROVE  Leads(objects[o][i].value, strings', objects', arrays')
  BY DEF ObjectsLead
<1>1. objects[o][i].value \in Val
  BY DEF Lengths, Property
<1> QED BY <1>1, ValuesKept DEF ObjectsLead

LEMMA ArraysKept ==
  ASSUME Lengths, Lengths', HeapGrows, ArraysLead, arrays' = arrays
  PROVE  ArraysLead'
<1> SUFFICES ASSUME NEW a \in DOMAIN arrays, NEW i \in DOMAIN arrays[a]
             PROVE  Leads(arrays[a][i], strings', objects', arrays')
  BY DEF ArraysLead
<1>1. arrays[a][i] \in Val
  BY DEF Lengths
<1> QED BY <1>1, ValuesKept DEF ArraysLead

LEMMA VariantCell ==
  ASSUME NEW c \in Cell, c.is = "variant"
  PROVE  c.value \in Val /\ c = Variant(c.value)
BY DEF Cell, Variant

LEMMA StackKept ==
  ASSUME Lengths, Lengths', HeapGrows, StackLeads, RefsLead, stack' = stack
  PROVE  StackLeads' /\ RefsLead'
<1>1. ASSUME NEW i \in DOMAIN stack, stack[i].is = "variant"
      PROVE  Leads(stack[i].value, strings', objects', arrays')
  <2>1. stack[i] \in Cell
    BY DEF Lengths
  <2> QED BY <1>1, <2>1, VariantCell, ValuesKept DEF StackLeads
<1>2. ASSUME NEW i \in DOMAIN stack, stack[i].is = "ref", stack[i].type # "REF_UNDEFINED"
      PROVE  Exists(stack[i].place, i, objects')
  BY <1>2, PlacesKept DEF RefsLead
<1> QED BY <1>1, <1>2 DEF StackLeads, RefsLead

-----------------------------------------------------------------------------
(* The steps of the host leave the script as it is.                        *)

LEMMA AtRestKeeps ==
  ASSUME IInv, AtRest, Shapes', HeapGrows, HostLeads', ObjectsLead', ArraysLead',
         UNCHANGED <<stack, declared, code, lhs>>
  PROVE  IInv'
<1>1. Lengths /\ Lengths'
  BY LengthsKnown, PTL DEF IInv
<1>2. StackLeads' /\ RefsLead'
  BY <1>1, StackKept DEF IInv
<1>3. Progress'
  BY DEF IInv, Progress, AtRest, Variables
<1> QED BY <1>2, <1>3 DEF IInv

LEMMA HostGivesKeeps ==
  ASSUME IInv, AtRest, NEW h \in Hosts, NEW v \in Val, HostGives(h, v), status' = status,
         HeapTyped', HeapGrows, Leads(v, strings', objects', arrays'), ObjectsLead', ArraysLead'
  PROVE  IInv'
<1>1. Shapes'
  BY DEF IInv, Shapes, HeapTyped, HostGives
<1>2. Lengths /\ Lengths'
  BY <1>1, LengthsKnown, PTL DEF IInv
<1>3. HostLeads'
  <2> SUFFICES ASSUME NEW g \in Hosts PROVE Leads(host'[g], strings', objects', arrays')
    BY DEF HostLeads
  <2>1. CASE g = h
    BY <2>1 DEF HostGives, IInv, Shapes
  <2>2. CASE g # h
    <3>1. host'[g] = host[g] /\ host[g] \in Val
      BY <2>2 DEF HostGives, IInv, Shapes
    <3> QED BY <1>2, <3>1, ValuesKept DEF IInv, HostLeads
  <2> QED BY <2>1, <2>2
<1> QED BY <1>1, <1>3, AtRestKeeps DEF HostGives

(* A new cell, and a cell that is written.                                 *)
LEMMA HeapUnchanged ==
  ASSUME IInv, UNCHANGED heap
  PROVE  HeapTyped' /\ HeapGrows
<1>1. Lengths
  BY LengthsKnown DEF IInv
<1>2. HeapTyped'
  BY DEF IInv, Shapes, HeapTyped, heap
<1>3. HeapGrows
  BY <1>1 DEF Lengths, HeapGrows, heap
<1> QED BY <1>2, <1>3

LEMMA KeptLengths == ASSUME IInv, Shapes' PROVE Lengths /\ Lengths'
BY LengthsKnown, PTL DEF IInv

LEMMA AssignIntKeeps ==
  ASSUME IInv, NEW h \in Hosts, NEW n \in Ints, AssignInt(h, n)
  PROVE  IInv'
<1> DEFINE v == Value("int", n)
<1>1. n \in Int
  BY ValuesAssumption
<1>2. v \in Val /\ Leads(v, strings', objects', arrays')
  BY <1>1 DEF Value, Val, Kinds, Leads, Overlaid
<1>3. HeapTyped' /\ HeapGrows
  BY HeapUnchanged DEF AssignInt
<1>4. HostGives(h, v) /\ AtRest /\ status' = status /\ UNCHANGED heap
  BY DEF AssignInt
<1>5. ObjectsLead' /\ ArraysLead'
  BY <1>4 DEF IInv, ObjectsLead, ArraysLead, heap
<1> QED BY <1>2, <1>3, <1>4, <1>5, HostGivesKeeps

LEMMA AssignKeeps ==
  ASSUME IInv, NEW h \in Hosts, NEW g \in Hosts, Assign(h, g)
  PROVE  IInv'
<1> DEFINE v == Assigned(host[h], host[g])
<1>1. host[h] \in Val /\ host[g] \in Val /\ Leads(host[g], strings, objects, arrays)
  BY DEF IInv, Shapes, HostLeads
<1>2. v \in Val /\ Leads(v, strings, objects, arrays)
  BY <1>1, AssignedLeads
<1>3. HeapTyped' /\ HeapGrows
  BY HeapUnchanged DEF Assign
<1>4. HostGives(h, v) /\ AtRest /\ status' = status /\ UNCHANGED heap
  BY DEF Assign
<1>5. ObjectsLead' /\ ArraysLead' /\ Leads(v, strings', objects', arrays')
  BY <1>2, <1>4 DEF IInv, ObjectsLead, ArraysLead, heap
<1> QED BY <1>2, <1>3, <1>4, <1>5, HostGivesKeeps

(* A step of the host that writes in the heap, its own value aside.        *)
LEMMA HeapShapes ==
  ASSUME IInv, AtRest, HeapTyped', host' \in [Hosts -> Val], UNCHANGED <<stack, declared, code, lhs>>,
         status' = status
  PROVE  Shapes' /\ Lengths /\ Lengths'
<1>1. Shapes'
  BY DEF IInv, Shapes, HeapTyped
<1> QED BY <1>1, KeptLengths

LEMMA StringWritten ==
  ASSUME IInv, NEW t \in Texts,
         \/ strings' = Append(strings, NewString(t))
         \/ \E i \in 1 .. Len(strings) : strings' = [strings EXCEPT ![i].str = t],
         UNCHANGED <<objects, arrays>>
  PROVE  HeapTyped' /\ HeapGrows /\ Len(strings') >= Len(strings)
<1>1. Lengths
  BY LengthsKnown DEF IInv
<1>2. strings \in Seq(String) /\ objects \in Seq(Seq(Property)) /\ arrays \in Seq(Seq(Val))
  BY DEF IInv, Shapes
<1>3. /\ strings' \in Seq(String) /\ Len(strings') >= Len(strings)
      /\ \A s \in 1 .. Len(strings) : Live(strings[s]) => Live(strings'[s])
  <2>1. CASE strings' = Append(strings, NewString(t))
    <3>1. NewString(t) \in String
      BY DEF NewString, String
    <3> QED BY <1>1, <1>2, <2>1, <3>1, AppendProperties DEF Lengths
  <2>2. CASE \E i \in 1 .. Len(strings) : strings' = [strings EXCEPT ![i].str = t]
    <3>1. PICK i \in 1 .. Len(strings) : strings' = [strings EXCEPT ![i].str = t]
      BY <2>2
    <3>2. strings' = [strings EXCEPT ![i] = [strings[i] EXCEPT !.str = t]]
      BY <3>1
    <3>3. strings[i] \in String
      BY <1>2
    <3>4. [strings[i] EXCEPT !.str = t] \in String
      BY <3>3 DEF String
    <3>5. Live(strings[i]) => Live([strings[i] EXCEPT !.str = t])
      BY <3>3 DEF String, Live
    <3> DEFINE c == [strings[i] EXCEPT !.str = t]
    <3> HIDE DEF c
    <3>6. /\ strings' \in Seq(String) /\ Len(strings') = Len(strings)
          /\ \A s \in 1 .. Len(strings) : strings'[s] = IF s = i THEN c ELSE strings[s]
      BY <1>2, <3>2, <3>4, ExceptSeq DEF c
    <3>7. Live(strings[i]) => Live(c)
      BY <3>5 DEF c
    <3> QED BY <1>1, <3>6, <3>7 DEF Lengths
  <2> QED BY <2>1, <2>2
<1> QED BY <1>1, <1>2, <1>3 DEF HeapTyped, HeapGrows, Lengths

LEMMA HostFailsKeeps ==
  ASSUME IInv, AtRest, NEW why \in Statuses, HostFails(why)
  PROVE  IInv'
<1>1. status' = why /\ UNCHANGED <<host, heap, stack, declared, code, lhs>>
  BY DEF HostFails
<1>2. Shapes'
  BY <1>1 DEF IInv, Shapes, heap
<1>3. HeapGrows
  BY <1>1, HeapUnchanged
<1>4. HostLeads' /\ ObjectsLead' /\ ArraysLead'
  BY <1>1 DEF IInv, HostLeads, ObjectsLead, ArraysLead, heap
<1> QED BY <1>1, <1>2, <1>3, <1>4, AtRestKeeps

LEMMA Faults == \A v : Fault(v) \in Statuses
BY DEF Fault, Statuses

(* A value that leads nowhere.                                             *)
LEMMA HostValueKeeps ==
  ASSUME IInv, AtRest, NEW h \in Hosts, NEW v \in Val, Leads(v, strings, objects, arrays),
         HostGives(h, v), UNCHANGED <<heap, status>>
  PROVE  IInv'
<1>1. HeapTyped' /\ HeapGrows
  BY HeapUnchanged
<1>2. ObjectsLead' /\ ArraysLead' /\ Leads(v, strings', objects', arrays')
  BY DEF IInv, ObjectsLead, ArraysLead, heap
<1> QED BY <1>1, <1>2, HostGivesKeeps

LEMMA AssignRealKeeps ==
  ASSUME IInv, NEW h \in Hosts, AssignReal(h)
  PROVE  IInv'
<1>1. host[h] \in Val
  BY DEF IInv, Shapes
<1> DEFINE v == WithReal(host[h])
<1>2. v \in Val /\ Leads(v, strings, objects, arrays)
  BY <1>1, WithRealLeads
<1>3. AtRest /\ HostGives(h, v) /\ UNCHANGED <<heap, status>>
  BY DEF AssignReal
<1> HIDE DEF v
<1> QED BY <1>2, <1>3, HostValueKeeps

LEMMA AssignFunctionKeeps ==
  ASSUME IInv, NEW h \in Hosts, AssignFunction(h)
  PROVE  IInv'
<1> DEFINE f == Value("function", 0)
           v == Assigned(host[h], f)
<1>1. host[h] \in Val /\ f \in Val /\ Leads(f, strings, objects, arrays)
  BY DEF IInv, Shapes, Value, Val, Kinds, Leads, Overlaid
<1>2. v \in Val /\ Leads(v, strings, objects, arrays)
  BY <1>1, AssignedLeads
<1>3. AtRest /\ HostGives(h, v) /\ UNCHANGED <<heap, status>>
  BY DEF AssignFunction
<1> HIDE DEF v
<1> QED BY <1>2, <1>3, HostValueKeeps

LEMMA callKeeps ==
  ASSUME IInv, NEW h \in Hosts, call(h)
  PROVE  IInv'
<1>1. AtRest /\ HostFails(Fault(host[h]))
  BY DEF call
<1> QED BY <1>1, Faults, HostFailsKeeps

(* A new string, in a value of the host.                                   *)
LEMMA NewStringLeads ==
  ASSUME IInv, NEW t \in Texts, strings' = Append(strings, NewString(t))
  PROVE  LET v == Value("string", Len(strings) + 1)
         IN  v \in Val /\ Leads(v, strings', objects', arrays')
<1>1. strings \in Seq(String) /\ NewString(t) \in String
  BY DEF IInv, Shapes, NewString, String
<1>2. /\ Len(strings) \in Nat /\ Len(strings) + 1 \in DOMAIN strings'
      /\ strings'[Len(strings) + 1] = NewString(t)
  BY <1>1, AppendProperties
<1>3. Live(NewString(t))
  BY DEF Live, NewString
<1>4. /\ Value("string", Len(strings) + 1) \in Val
      /\ Value("string", Len(strings) + 1).type = "string"
      /\ Value("string", Len(strings) + 1).data = Len(strings) + 1
  BY <1>2, ValueParts DEF Kinds
<1> QED BY <1>2, <1>3, <1>4 DEF Leads, Overlaid

LEMMA AssignTextKeeps ==
  ASSUME IInv, NEW h \in Hosts, NEW t \in Texts, AssignText(h, t)
  PROVE  IInv'
<1>1. Lengths /\ AtRest
  BY LengthsKnown DEF IInv, AssignText
<1>2. CASE /\ host[h].type \notin {"string", "realstring"}
           /\ strings' = Append(strings, NewString(t))
           /\ HostGives(h, Value("string", Len(strings) + 1))
           /\ UNCHANGED <<objects, arrays, status>>
  <2> DEFINE v == Value("string", Len(strings) + 1)
  <2>1. HeapTyped' /\ HeapGrows
    BY <1>2, StringWritten
  <2>2. v \in Val /\ Leads(v, strings', objects', arrays')
    BY <1>2, NewStringLeads
  <2> HIDE DEF v
  <2>3. HostGives(h, v) /\ status' = status
    BY <1>2 DEF v
  <2>4. Shapes' /\ Lengths'
    BY <1>1, <2>1, <2>2, <2>3, HeapShapes DEF HostGives, IInv, Shapes
  <2>5. ObjectsLead' /\ ArraysLead'
    BY <1>1, <1>2, <2>1, <2>4, ObjectsKept, ArraysKept DEF IInv
  <2> QED BY <1>1, <2>1, <2>2, <2>3, <2>5, HostGivesKeeps
<1>3. CASE /\ host[h].type = "string" /\ ~Dangling(host[h])
           /\ strings' = [strings EXCEPT ![host[h].data].str = t]
           /\ HostGives(h, host[h])
           /\ UNCHANGED <<objects, arrays, status>>
  <2>1. host[h] \in Val /\ Leads(host[h], strings, objects, arrays)
    BY DEF IInv, Shapes, HostLeads
  <2>2. host[h].data \in 1 .. Len(strings)
    BY <1>1, <1>3, <2>1, StringAtHand
  <2>3. HeapTyped' /\ HeapGrows
    BY <1>3, <2>2, StringWritten
  <2>4. Shapes' /\ Lengths'
    BY <1>1, <1>3, <2>1, <2>3, HeapShapes DEF HostGives, IInv, Shapes
  <2>5. ObjectsLead' /\ ArraysLead' /\ Leads(host[h], strings', objects', arrays')
    BY <1>1, <1>3, <2>1, <2>3, <2>4, ObjectsKept, ArraysKept, ValuesKept DEF IInv
  <2> QED BY <1>1, <1>3, <2>1, <2>3, <2>5, HostGivesKeeps
<1>4. CASE HostFails(Fault(host[h]))
  BY <1>1, <1>4, Faults, HostFailsKeeps
<1> QED BY <1>2, <1>3, <1>4 DEF AssignText

(* An array that is new, or written anew.                                  *)
LEMMA ArrayWritten ==
  ASSUME IInv, NEW b \in Seq(Val), \A i \in 1 .. Len(b) : Leads(b[i], strings, objects, arrays),
         \/ arrays' = Append(arrays, b)
         \/ \E d \in 1 .. Len(arrays) : arrays' = [arrays EXCEPT ![d] = b],
         UNCHANGED <<strings, objects>>
  PROVE  /\ HeapTyped' /\ HeapGrows
         /\ Lengths' => ObjectsLead' /\ ArraysLead'
<1>1. Lengths
  BY LengthsKnown DEF IInv
<1>2. strings \in Seq(String) /\ objects \in Seq(Seq(Property)) /\ arrays \in Seq(Seq(Val))
  BY DEF IInv, Shapes
<1>3. /\ arrays' \in Seq(Seq(Val)) /\ Len(arrays') >= Len(arrays)
      /\ \A a \in 1 .. Len(arrays') : arrays'[a] = b \/ (a <= Len(arrays) /\ arrays'[a] = arrays[a])
  <2>1. CASE arrays' = Append(arrays, b)
    BY <1>2, <2>1, AppendProperties
  <2>2. CASE \E d \in 1 .. Len(arrays) : arrays' = [arrays EXCEPT ![d] = b]
    BY <1>2, <2>2, ExceptSeq
  <2> QED BY <2>1, <2>2
<1>4. HeapTyped'
  BY <1>2, <1>3 DEF HeapTyped
<1>5. HeapGrows
  BY <1>1, <1>3 DEF HeapGrows, Lengths
<1>6. ASSUME Lengths' PROVE ObjectsLead' /\ ArraysLead'
  <2>1. ObjectsLead'
    BY <1>1, <1>5, <1>6, ObjectsKept DEF IInv
  <2>2. ASSUME NEW a \in 1 .. Len(arrays'), NEW i \in 1 .. Len(arrays'[a])
        PROVE  Leads(arrays'[a][i], strings', objects', arrays')
    <3>1. CASE arrays'[a] = b
      <4>1. b[i] \in Val /\ Leads(b[i], strings, objects, arrays)
        BY <3>1, ElementOfSeq
      <4> QED BY <1>1, <1>5, <1>6, <3>1, <4>1, ValuesKept
    <3>2. CASE a <= Len(arrays) /\ arrays'[a] = arrays[a]
      <4>1. Len(arrays) \in Nat /\ DOMAIN arrays = 1 .. Len(arrays)
        BY <1>1 DEF Lengths
      <4>2. a \in 1 .. Len(arrays)
        BY <3>2, <4>1
      <4>3. a \in DOMAIN arrays /\ i \in DOMAIN arrays[a] /\ arrays[a][i] \in Val
        BY <1>1, <3>2, <4>1, <4>2, SMTT(20) DEF Lengths
      <4>4. Leads(arrays[a][i], strings, objects, arrays)
        BY <4>3 DEF IInv, ArraysLead
      <4> QED BY <1>1, <1>5, <1>6, <3>2, <4>3, <4>4, ValuesKept
    <3> QED BY <1>3, <3>1, <3>2
  <2>3. ArraysLead'
    BY <1>6, <2>2 DEF ArraysLead, Lengths
  <2> QED BY <2>1, <2>3
<1> QED BY <1>4, <1>5, <1>6

LEMMA makeArrayKeeps ==
  ASSUME IInv, NEW h \in Hosts, makeArray(h)
  PROVE  IInv'
<1> DEFINE v == Value("array", Len(arrays) + 1)
<1>1. /\ AtRest /\ HostGives(h, v) /\ status' = status /\ UNCHANGED <<strings, objects>>
      /\ arrays' = Append(arrays, <<>>)
  BY DEF makeArray
<1>2. <<>> \in Seq(Val) /\ Len(<<>>) = 0
  BY EmptySeq
<1>3. \A i \in 1 .. Len(<<>>) : Leads(<<>>[i], strings, objects, arrays)
  BY <1>2
<1>4. HeapTyped' /\ HeapGrows /\ (Lengths' => ObjectsLead' /\ ArraysLead')
  BY <1>1, <1>2, <1>3, ArrayWritten
<1>5. arrays \in Seq(Seq(Val)) /\ arrays' \in Seq(Seq(Val))
  BY <1>4 DEF HeapTyped, IInv, Shapes
<1>6. Len(arrays) \in Nat /\ DOMAIN arrays' = 1 .. Len(arrays) + 1
  BY <1>1, <1>2, <1>5
<1>7. v \in Val /\ Leads(v, strings', objects', arrays')
  <2>1. v \in Val /\ v.type = "array" /\ v.data = Len(arrays) + 1
    BY <1>6, ValueParts DEF Kinds
  <2> QED BY <1>6, <2>1 DEF Leads, Overlaid
<1>8. host' \in [Hosts -> Val] /\ UNCHANGED <<stack, declared, code, lhs>>
  BY <1>1, <1>7 DEF HostGives, IInv, Shapes
<1>9. Lengths'
  BY <1>1, <1>4, <1>8, HeapShapes
<1> QED BY <1>1, <1>4, <1>7, <1>9, HostGivesKeeps

LEMMA Padded ==
  ASSUME NEW a \in Seq(Val), NEW n \in Nat
  PROVE  LET p == a \o [k \in 1 .. n |-> Undefined]
         IN  /\ p \in Seq(Val) /\ Len(p) = Len(a) + n
             /\ \A i \in 1 .. Len(p) : p[i] = IF i <= Len(a) THEN a[i] ELSE Undefined
<1> DEFINE u == [k \in 1 .. n |-> Undefined]
<1>1. u \in Seq(Val) /\ Len(u) = n /\ \A k \in 1 .. n : u[k] = Undefined
  BY UndefinedIsVal
<1> HIDE DEF u
<1>2. /\ a \o u \in Seq(Val) /\ Len(a \o u) = Len(a) + Len(u)
      /\ \A i \in 1 .. Len(a) + Len(u) : (a \o u)[i] = IF i <= Len(a) THEN a[i] ELSE u[i - Len(a)]
  BY <1>1, ConcatProperties
<1>3. Len(a) \in Nat
  BY LenProperties
<1>4. \A i \in 1 .. Len(a) + n : i > Len(a) => i - Len(a) \in 1 .. n
  BY <1>3
<1>5. \A i \in 1 .. Len(a \o u) : (a \o u)[i] = IF i <= Len(a) THEN a[i] ELSE Undefined
  BY <1>1, <1>2, <1>3, <1>4
<1> QED BY <1>1, <1>2, <1>5 DEF u

LEMMA setValueAtKeeps ==
  ASSUME IInv, NEW h \in Hosts, NEW i \in 1 .. MaxItems, NEW g \in Hosts, setValueAt(h, i, g)
  PROVE  IInv'
<1> DEFINE d == host[h].data
           a == arrays[d]
           n == IF Len(a) < i THEN i - Len(a) ELSE 0
           grown == a \o [k \in 1 .. n |-> Undefined]
           b == [grown EXCEPT ![i] = Assigned(grown[i], host[g])]
<1>1. /\ AtRest /\ host[h].type = "array" /\ strings' = strings
      /\ arrays' = [arrays EXCEPT ![d] = b]
      /\ UNCHANGED <<host, objects, stack, declared, code, lhs, status>>
  BY DEF setValueAt, Destroyed
<1>2. Lengths
  BY LengthsKnown DEF IInv
<1>3. /\ host[h] \in Val /\ Leads(host[h], strings, objects, arrays)
      /\ host[g] \in Val /\ Leads(host[g], strings, objects, arrays)
      /\ host \in [Hosts -> Val]
  BY DEF IInv, Shapes, HostLeads
<1>4. d \in DOMAIN arrays /\ d \in 1 .. Len(arrays)
  BY <1>1, <1>2, <1>3 DEF Leads, Lengths
<1>5. a \in Seq(Val) /\ Len(a) \in Nat /\ DOMAIN a = 1 .. Len(a)
  BY <1>2, <1>4 DEF Lengths
<1> HIDE DEF d, a
<1>6. n \in Nat /\ i \in 1 .. Len(a) + n
  BY <1>5
<1> HIDE DEF n
<1>7. /\ grown \in Seq(Val) /\ Len(grown) = Len(a) + n
      /\ \A k \in 1 .. Len(grown) : grown[k] = IF k <= Len(a) THEN a[k] ELSE Undefined
  BY <1>5, <1>6, Padded
<1> HIDE DEF grown
<1>8. \A k \in 1 .. Len(grown) : Leads(grown[k], strings, objects, arrays)
  <2> SUFFICES ASSUME NEW k \in 1 .. Len(grown) PROVE Leads(grown[k], strings, objects, arrays)
    OBVIOUS
  <2>1. CASE k <= Len(a)
    <3>1. k \in DOMAIN a /\ grown[k] = a[k]
      BY <1>5, <1>6, <1>7, <2>1
    <3> QED BY <1>4, <3>1 DEF IInv, ArraysLead, a
  <2>2. CASE ~(k <= Len(a))
    BY <1>7, <2>2, UndefinedIsVal
  <2> QED BY <2>1, <2>2
<1>9. grown[i] \in Val
  BY <1>6, <1>7, ElementOfSeq
<1>10. Assigned(grown[i], host[g]) \in Val /\ Leads(Assigned(grown[i], host[g]), strings, objects, arrays)
  BY <1>3, <1>9, AssignedLeads
<1>11. /\ b \in Seq(Val) /\ Len(b) = Len(grown)
       /\ \A k \in 1 .. Len(grown) : b[k] = IF k = i THEN Assigned(grown[i], host[g]) ELSE grown[k]
  BY <1>6, <1>7, <1>10, ExceptSeq
<1>12. \A k \in 1 .. Len(b) : Leads(b[k], strings, objects, arrays)
  BY <1>8, <1>10, <1>11
<1> HIDE DEF b
<1>13. HeapTyped' /\ HeapGrows /\ (Lengths' => ObjectsLead' /\ ArraysLead')
  BY <1>1, <1>4, <1>11, <1>12, ArrayWritten
<1>14. Shapes' /\ Lengths'
  BY <1>1, <1>3, <1>13, HeapShapes
<1>15. HostLeads'
  BY <1>1, <1>2, <1>13, <1>14, HostKept DEF IInv
<1> QED BY <1>1, <1>13, <1>14, <1>15, AtRestKeeps

LEMMA setValueFailsKeeps ==
  ASSUME IInv, NEW h \in Hosts, NEW g \in Hosts, setValueFails(h, g)
  PROVE  IInv'
<1>1. AtRest /\ \E why \in {"print", "other memory"} : HostFails(why)
  BY DEF setValueFails
<1>2. {"print", "other memory"} \subseteq Statuses
  BY DEF Statuses
<1> QED BY <1>1, <1>2, HostFailsKeeps

LEMMA PlusFailsKeeps ==
  ASSUME IInv, NEW g \in Hosts, NEW k \in Hosts, PlusFails(g, k)
  PROVE  IInv'
BY Faults, HostFailsKeeps DEF PlusFails

LEMMA PlusKeeps ==
  ASSUME IInv, NEW h \in Hosts, NEW g \in Hosts, NEW k \in Hosts, Plus(h, g, k)
  PROVE  IInv'
<1> DEFINE a == host[g]
           b == host[k]
           sum == Sum(a, b)
           v == Assigned(host[h], sum)
<1>1. /\ AtRest /\ HostGives(h, v) /\ status' = status /\ UNCHANGED <<strings, objects>>
      /\ arrays' = IF Joined(a, b) THEN Append(arrays, arrays[a.data] \o arrays[b.data]) ELSE arrays
      /\ \A w \in Follows(a, b) : ~Dangling(w)
  BY DEF Plus
<1>2. Lengths
  BY LengthsKnown DEF IInv
<1>3. /\ a \in Val /\ Leads(a, strings, objects, arrays)
      /\ b \in Val /\ Leads(b, strings, objects, arrays)
      /\ host[h] \in Val /\ host \in [Hosts -> Val]
  BY DEF IInv, Shapes, HostLeads
<1> HIDE DEF a, b, sum
<1>4. CASE Joined(a, b)
  <2> DEFINE s == arrays[a.data]
             t == arrays[b.data]
  <2>1. a.data \in 1 .. Len(arrays) /\ b.data \in 1 .. Len(arrays)
    <3>1. a.type \in {"array", "realarray"} /\ b.type \in {"array", "realarray"}
      BY <1>4 DEF Joined
    <3>2. ~Dangling(a) /\ ~Dangling(b)
      BY <1>1, <1>4 DEF Follows, Joined
    <3>3. a.type = "array" /\ b.type = "array"
      BY <3>1, <3>2 DEF Dangling, Overlaid
    <3> QED BY <1>2, <1>3, <3>3 DEF Leads, Lengths
  <2>2. /\ s \in Seq(Val) /\ Len(s) \in Nat /\ DOMAIN s = 1 .. Len(s)
        /\ t \in Seq(Val) /\ Len(t) \in Nat /\ DOMAIN t = 1 .. Len(t)
    BY <1>2, <2>1 DEF Lengths
  <2>3. /\ \A i \in 1 .. Len(s) : Leads(s[i], strings, objects, arrays)
        /\ \A i \in 1 .. Len(t) : Leads(t[i], strings, objects, arrays)
    BY <1>2, <2>1, <2>2 DEF IInv, ArraysLead, Lengths
  <2> HIDE DEF s, t
  <2>4. /\ s \o t \in Seq(Val) /\ Len(s \o t) = Len(s) + Len(t)
        /\ \A i \in 1 .. Len(s) + Len(t) : (s \o t)[i] = IF i <= Len(s) THEN s[i] ELSE t[i - Len(s)]
    BY <2>2, ConcatProperties
  <2>5. \A i \in 1 .. Len(s) + Len(t) : i > Len(s) => i - Len(s) \in 1 .. Len(t)
    BY <2>2
  <2>6. \A i \in 1 .. Len(s \o t) : Leads((s \o t)[i], strings, objects, arrays)
    <3> SUFFICES ASSUME NEW i \in 1 .. Len(s \o t) PROVE Leads((s \o t)[i], strings, objects, arrays)
      OBVIOUS
    <3>1. CASE i <= Len(s)
      BY <2>2, <2>3, <2>4, <3>1
    <3>2. CASE i > Len(s)
      <4>1. (s \o t)[i] = t[i - Len(s)] /\ i - Len(s) \in 1 .. Len(t)
        BY <2>2, <2>4, <2>5, <3>2
      <4> QED BY <2>3, <4>1
    <3> QED BY <2>2, <2>4, <3>1, <3>2
  <2>7. arrays' = Append(arrays, s \o t)
    BY <1>1, <1>4 DEF s, t
  <2>8. HeapTyped' /\ HeapGrows /\ (Lengths' => ObjectsLead' /\ ArraysLead')
    BY <1>1, <2>4, <2>6, <2>7, ArrayWritten
  <2>9. arrays \in Seq(Seq(Val)) /\ arrays' \in Seq(Seq(Val))
    BY <2>8 DEF HeapTyped, IInv, Shapes
  <2>10. Len(arrays) \in Nat /\ DOMAIN arrays' = 1 .. Len(arrays) + 1
    BY <2>4, <2>7, <2>9
  <2>11. sum \in Val /\ Leads(sum, strings', objects', arrays')
    <3>1. sum = Value("array", Len(arrays) + 1)
      BY <1>4 DEF sum, Sum, Joined
    <3>2. sum \in Val /\ sum.type = "array" /\ sum.data = Len(arrays) + 1
      BY <2>10, <3>1, ValueParts DEF Kinds
    <3> QED BY <2>10, <3>2 DEF Leads, Overlaid
  <2>12. v \in Val /\ Leads(v, strings', objects', arrays')
    BY <1>3, <2>11, AssignedLeads
  <2>13. host' \in [Hosts -> Val] /\ UNCHANGED <<stack, declared, code, lhs>>
    BY <1>1, <1>3, <2>12 DEF HostGives
  <2>14. Lengths'
    BY <1>1, <2>8, <2>13, HeapShapes
  <2> QED BY <1>1, <2>8, <2>12, <2>14, HostGivesKeeps
<1>5. CASE ~Joined(a, b)
  <2>1. UNCHANGED heap
    BY <1>1, <1>5 DEF heap
  <2>2. sum \in Val /\ Leads(sum, strings, objects, arrays)
    <3>1. CASE b.type = "int" /\ a.type = "int"
      <4>1. sum = Value("int", a.data + b.data)
        BY <1>5, <3>1 DEF sum, Sum, Joined
      <4>2. a.data + b.data \in Int
        BY <1>3 DEF Val
      <4>3. sum \in Val /\ sum.type = "int"
        BY <4>1, <4>2, ValueParts DEF Kinds
      <4> QED BY <4>3 DEF Leads, Overlaid
    <3>2. CASE b.type = "int" /\ a.type = "string"
      <4>1. sum = Value("string", 0)
        BY <1>5, <3>2 DEF sum, Sum, Joined
      <4>2. sum \in Val /\ sum.type = "string" /\ sum.data = 0
        BY <4>1, ValueParts DEF Kinds
      <4> QED BY <4>2 DEF Leads, Overlaid
    <3>3. CASE ~(b.type = "int" /\ a.type \in {"int", "string"})
      <4>1. sum = Undefined
        BY <1>5, <3>3 DEF sum, Sum, Joined
      <4> QED BY <4>1, UndefinedIsVal
    <3> QED BY <3>1, <3>2, <3>3
  <2>3. v \in Val /\ Leads(v, strings, objects, arrays)
    BY <1>3, <2>2, AssignedLeads
  <2> HIDE DEF v
  <2> QED BY <1>1, <2>1, <2>3, HostValueKeeps
<1> QED BY <1>4, <1>5

(* Objects that are new, have a new entry or an entry written.             *)
Written(os, v) ==
  /\ os \in Seq(Seq(Property)) /\ Len(os) >= Len(objects)
  /\ \A o \in 1 .. Len(objects) : Len(os[o]) >= Len(objects[o])
  /\ \A o \in 1 .. Len(os) : \A i \in 1 .. Len(os[o]) :
       \/ os[o][i].value = v
       \/ /\ o \in 1 .. Len(objects) /\ i \in 1 .. Len(objects[o])
          /\ os[o][i].value = objects[o][i].value

LEMMA ObjectWritten ==
  ASSUME IInv, NEW v \in Val, Leads(v, strings, objects, arrays) \/ Leads(v, strings', objects', arrays'),
         Written(objects', v), strings' \in Seq(String), Len(strings') >= Len(strings), arrays' = arrays,
         \A s \in 1 .. Len(strings) : Live(strings[s]) => Live(strings'[s])
  PROVE  /\ HeapTyped' /\ HeapGrows
         /\ Lengths' => ObjectsLead' /\ ArraysLead'
<1>1. Lengths
  BY LengthsKnown DEF IInv
<1>2. arrays \in Seq(Seq(Val))
  BY DEF IInv, Shapes
<1>3. HeapTyped'
  BY <1>2 DEF HeapTyped, Written
<1>4. objects' \in Seq(Seq(Property)) /\ strings' \in Seq(String) /\ strings \in Seq(String)
  BY DEF Written, IInv, Shapes
<1>5. /\ Len(objects') \in Nat /\ Len(strings') \in Nat /\ Len(strings) \in Nat
      /\ \A o \in 1 .. Len(objects') : objects'[o] \in Seq(Property)
  BY <1>4
<1>6. \A o \in 1 .. Len(objects') : Len(objects'[o]) \in Nat
  BY <1>5
<1>7. \A o \in 1 .. Len(objects) : o \in 1 .. Len(objects')
  BY <1>1, <1>5 DEF Lengths, Written
<1>8. \A o \in 1 .. Len(objects) : Len(objects'[o]) >= Len(objects[o]) /\ Len(objects'[o]) \in Nat
                                   /\ Len(objects[o]) \in Nat
  BY <1>1, <1>6, <1>7 DEF Lengths, Written
<1>9. HeapGrows
  <2>1. Len(arrays) <= Len(arrays')
    BY <1>1 DEF Lengths
  <2>2. Len(strings) <= Len(strings')
    BY <1>5
  <2>3. Len(objects) <= Len(objects')
    BY <1>1, <1>5 DEF Lengths, Written
  <2>4. \A s \in 1 .. Len(strings) : Live(strings[s]) => Live(strings'[s])
    OBVIOUS
  <2> QED BY <1>8, <2>1, <2>2, <2>3, <2>4 DEF HeapGrows
<1>10. ASSUME Lengths' PROVE ObjectsLead' /\ ArraysLead'
  <2>1. ArraysLead'
    BY <1>1, <1>9, <1>10, ArraysKept DEF IInv
  <2>2. Leads(v, strings', objects', arrays')
    BY <1>1, <1>9, <1>10, ValuesKept
  <2>3. ASSUME NEW o \in 1 .. Len(objects'), NEW i \in 1 .. Len(objects'[o])
        PROVE  Leads(objects'[o][i].value, strings', objects', arrays')
    <3>1. CASE objects'[o][i].value = v
      BY <2>2, <3>1
    <3>2. CASE /\ o \in 1 .. Len(objects) /\ i \in 1 .. Len(objects[o])
               /\ objects'[o][i].value = objects[o][i].value
      <4>1. objects[o][i].value \in Val /\ o \in DOMAIN objects /\ i \in DOMAIN objects[o]
        BY <1>1, <3>2 DEF Lengths, Property
      <4>2. Leads(objects[o][i].value, strings, objects, arrays)
        BY <4>1 DEF IInv, ObjectsLead
      <4> QED BY <1>1, <1>9, <1>10, <3>2, <4>1, <4>2, ValuesKept
    <3> QED BY <3>1, <3>2 DEF Written
  <2>4. ObjectsLead'
    BY <1>10, <2>3 DEF ObjectsLead, Lengths
  <2> QED BY <2>1, <2>4
<1> QED BY <1>3, <1>9, <1>10

LEMMA ReplacedWritten ==
  ASSUME Lengths, objects \in Seq(Seq(Property)), NEW d \in 1 .. Len(objects), NEW b \in Seq(Property), NEW v,
         Len(b) >= Len(objects[d]),
         \A i \in 1 .. Len(b) :
           b[i].value = v \/ (i \in 1 .. Len(objects[d]) /\ b[i].value = objects[d][i].value)
  PROVE  Written([objects EXCEPT ![d] = b], v)
<1> DEFINE os == [objects EXCEPT ![d] = b]
<1>1. /\ os \in Seq(Seq(Property)) /\ Len(os) = Len(objects)
      /\ \A o \in 1 .. Len(objects) : os[o] = IF o = d THEN b ELSE objects[o]
  BY ExceptSeq
<1>2. Len(objects) \in Nat /\ \A o \in 1 .. Len(objects) : Len(objects[o]) \in Nat
  BY DEF Lengths
<1> HIDE DEF os
<1>3. \A o \in 1 .. Len(objects) : Len(os[o]) >= Len(objects[o])
  BY <1>1, <1>2
<1>4. ASSUME NEW o \in 1 .. Len(os), NEW i \in 1 .. Len(os[o])
      PROVE  \/ os[o][i].value = v
             \/ /\ o \in 1 .. Len(objects) /\ i \in 1 .. Len(objects[o])
                /\ os[o][i].value = objects[o][i].value
  BY <1>1, <1>4
<1>5. Written(os, v)
  BY <1>1, <1>2, <1>3, <1>4 DEF Written
<1> QED BY <1>5 DEF os

LEMMA AppendedEntry ==
  ASSUME NEW s \in Seq(Property), NEW f \in Names, NEW v \in Val
  PROVE  LET b == Append(s, Entry(f, v))
         IN  /\ b \in Seq(Property) /\ Len(b) = Len(s) + 1 /\ b[Len(s) + 1] = Entry(f, v)
             /\ \A i \in 1 .. Len(s) : b[i] = s[i]
             /\ \A i \in 1 .. Len(b) : b[i].value = v \/ (i \in 1 .. Len(s) /\ b[i].value = s[i].value)
<1>1. Entry(f, v) \in Property /\ Entry(f, v).value = v
  BY DEF Entry, Property
<1>2. Len(s) \in Nat
  BY LenProperties
<1> QED BY <1>1, <1>2, AppendProperties

LEMMA EntryAppended ==
  ASSUME Lengths, objects \in Seq(Seq(Property)), NEW d \in 1 .. Len(objects), NEW f \in Names, NEW v \in Val
  PROVE  Written([objects EXCEPT ![d] = Append(objects[d], Entry(f, v))], v)
<1> DEFINE b == Append(objects[d], Entry(f, v))
<1>1. objects[d] \in Seq(Property) /\ Len(objects[d]) \in Nat
  BY DEF Lengths
<1>2. /\ b \in Seq(Property) /\ Len(b) >= Len(objects[d])
      /\ \A i \in 1 .. Len(b) :
           b[i].value = v \/ (i \in 1 .. Len(objects[d]) /\ b[i].value = objects[d][i].value)
  BY <1>1, AppendedEntry
<1> QED BY <1>2, ReplacedWritten

LEMMA ObjectAppended ==
  ASSUME Lengths, objects \in Seq(Seq(Property)), NEW b \in Seq(Property), NEW v,
         \A i \in 1 .. Len(b) : b[i].value = v
  PROVE  Written(Append(objects, b), v)
<1> DEFINE os == Append(objects, b)
<1>1. /\ os \in Seq(Seq(Property)) /\ Len(os) = Len(objects) + 1 /\ os[Len(objects) + 1] = b
      /\ \A o \in 1 .. Len(objects) : os[o] = objects[o]
  BY AppendProperties
<1>2. Len(objects) \in Nat /\ \A o \in 1 .. Len(objects) : Len(objects[o]) \in Nat
  BY DEF Lengths
<1> HIDE DEF os
<1>3. ASSUME NEW o \in 1 .. Len(os), NEW i \in 1 .. Len(os[o])
      PROVE  \/ os[o][i].value = v
             \/ /\ o \in 1 .. Len(objects) /\ i \in 1 .. Len(objects[o])
                /\ os[o][i].value = objects[o][i].value
  <2>1. o \in 1 .. Len(objects) \/ o = Len(objects) + 1
    BY <1>1, <1>2
  <2> QED BY <1>1, <1>3, <2>1
<1>4. Written(os, v)
  BY <1>1, <1>2, <1>3, SMTT(20) DEF Written
<1> QED BY <1>4 DEF os

(* The entry, and the object it may have made first.                       *)
LEMMA AddEntryKeeps ==
  ASSUME IInv, AtRest, NEW h \in Hosts, NEW f \in Names, NEW v \in Val,
         host[h].type # "realobject", AddEntry(h, f, v),
         Leads(v, strings, objects, arrays) \/ Leads(v, strings', objects', arrays'),
         strings' \in Seq(String), Len(strings') >= Len(strings),
         \A s \in 1 .. Len(strings) : Live(strings[s]) => Live(strings'[s])
  PROVE  IInv'
<1> DEFINE o == Owner(h)
           w == Value("object", o)
<1>1. /\ arrays' = arrays /\ status' = status /\ HostGives(h, w)
      /\ objects' = IF Made(h) THEN Append(objects, Append(<<>>, Entry(f, v)))
                    ELSE [objects EXCEPT ![o] = Append(objects[o], Entry(f, v))]
  BY DEF AddEntry
<1>2. Lengths
  BY LengthsKnown DEF IInv
<1>3. /\ host[h] \in Val /\ Leads(host[h], strings, objects, arrays)
      /\ host \in [Hosts -> Val]
  BY DEF IInv, Shapes, HostLeads
<1>4. objects \in Seq(Seq(Property))
  BY DEF IInv, Shapes
<1>5. Written(objects', v) /\ o \in 1 .. Len(objects')
  <2>1. CASE Made(h)
    <3>1. objects' = Append(objects, Append(<<>>, Entry(f, v))) /\ o = Len(objects) + 1
      BY <1>1, <2>1 DEF Owner
    <3>2. <<>> \in Seq(Property) /\ Len(<<>>) = 0
      BY EmptySeq
    <3>3. /\ Append(<<>>, Entry(f, v)) \in Seq(Property)
          /\ \A i \in 1 .. Len(Append(<<>>, Entry(f, v))) :
               Append(<<>>, Entry(f, v))[i].value = v
      <4> DEFINE e == Entry(f, v)
      <4>1. e \in Property /\ e.value = v
        BY DEF Entry, Property
      <4> HIDE DEF e
      <4>2. Append(<<>>, e) = <<e>>
        BY <3>2, <4>1
      <4>3. <<e>> \in Seq(Property) /\ Len(<<e>>) = 1 /\ <<e>>[1] = e
        BY <4>1
      <4>4. \A i \in 1 .. 1 : Append(<<>>, e)[i].value = v
        BY <4>1, <4>2, <4>3
      <4> QED BY <4>2, <4>3, <4>4 DEF e
    <3>4. Written(objects', v)
      BY <1>2, <1>4, <3>1, <3>3, ObjectAppended
    <3>5. Len(objects) \in Nat /\ Len(objects') = Len(objects) + 1
      BY <1>2, <1>4, <3>1, <3>3, AppendProperties DEF Lengths
    <3> QED BY <3>1, <3>4, <3>5
  <2>2. CASE ~Made(h)
    <3>1. /\ o = host[h].data /\ host[h].type = "object"
          /\ objects' = [objects EXCEPT ![o] = Append(objects[o], Entry(f, v))]
      BY <1>1, <2>2 DEF Owner, Made
    <3>2. o \in 1 .. Len(objects)
      BY <1>2, <1>3, <3>1 DEF Leads, Lengths
    <3> HIDE DEF o
    <3>3. Written(objects', v)
      BY <1>2, <1>4, <3>1, <3>2, EntryAppended
    <3>4. Len(objects') = Len(objects)
      BY <1>4, <3>1
    <3> QED BY <3>2, <3>3, <3>4
  <2> QED BY <2>1, <2>2
<1> HIDE DEF o
<1>6. HeapTyped' /\ HeapGrows /\ (Lengths' => ObjectsLead' /\ ArraysLead')
  BY <1>1, <1>5, ObjectWritten
<1>7. objects' \in Seq(Seq(Property)) /\ o \in DOMAIN objects' /\ o \in Int
  BY <1>5, <1>6 DEF HeapTyped
<1>8. w \in Val /\ Leads(w, strings', objects', arrays')
  <2>1. w \in Val /\ w.type = "object" /\ w.data = o
    BY <1>7, ValueParts DEF Kinds
  <2> QED BY <1>7, <2>1 DEF Leads, Overlaid
<1>9. host' \in [Hosts -> Val] /\ UNCHANGED <<stack, declared, code, lhs>>
  BY <1>1, <1>3, <1>8 DEF HostGives
<1>10. Lengths'
  BY <1>1, <1>6, <1>9, HeapShapes
<1> QED BY <1>1, <1>6, <1>8, <1>10, HostGivesKeeps

LEMMA setValueKeeps ==
  ASSUME IInv, NEW h \in Hosts, NEW f \in Names, NEW g \in Hosts, setValue(h, f, g)
  PROVE  IInv'
<1>1. PICK v : v = Given(h, g)
  OBVIOUS
<1>2. AtRest /\ host[h].type # "realobject" /\ AddEntry(h, f, v) /\ strings' = strings
  BY <1>1 DEF setValue, Destroyed
<1>3. Lengths /\ strings \in Seq(String)
  BY LengthsKnown DEF IInv, Shapes
<1>4. v \in Val /\ (Leads(v, strings, objects, arrays) \/ Leads(v, strings', objects', arrays'))
  <2>1. CASE v = host[g]
    BY <2>1 DEF IInv, Shapes, HostLeads
  <2>2. CASE Made(h) /\ v = Value("object", Len(objects) + 1)
    <3>1. /\ v \in Val /\ v.type = "object" /\ v.data = Len(objects) + 1
          /\ Len(objects) \in Nat
      BY <1>3, <2>2, ValueParts DEF Kinds, Lengths
    <3>2. /\ objects \in Seq(Seq(Property))
          /\ objects' = Append(objects, Append(<<>>, Entry(f, v)))
      BY <1>2, <2>2 DEF AddEntry, IInv, Shapes
    <3>3. Len(objects) + 1 \in DOMAIN objects'
      <4>1. PICK b : b = Append(<<>>, Entry(f, v))
        OBVIOUS
      <4>2. Entry(f, v) \in Property
        BY <3>1 DEF Entry, Property
      <4>3. b \in Seq(Property)
        BY <4>1, <4>2, EmptySeq, AppendProperties
      <4> QED BY <3>1, <3>2, <4>1, <4>3, AppendProperties
    <3> QED BY <3>1, <3>3 DEF Leads, Overlaid
  <2> QED BY <1>1, <2>1, <2>2 DEF Given, Owner
<1>5. /\ strings' \in Seq(String) /\ Len(strings') >= Len(strings)
      /\ \A s \in 1 .. Len(strings) : Live(strings[s]) => Live(strings'[s])
  BY <1>2, <1>3 DEF Lengths
<1> QED BY <1>2, <1>4, <1>5, AddEntryKeeps

LEMMA setTextKeeps ==
  ASSUME IInv, NEW h \in Hosts, NEW f \in Names, NEW t \in Texts, setText(h, f, t)
  PROVE  IInv'
<1>1. AtRest
  BY DEF setText
<1>2. CASE /\ host[h].type = "object" /\ strings' = Append(strings, NewString(t))
           /\ AddEntry(h, f, Value("string", Len(strings) + 1))
  <2>1. PICK v : v = Value("string", Len(strings) + 1)
    OBVIOUS
  <2>2. v \in Val /\ Leads(v, strings', objects', arrays')
    BY <1>2, <2>1, NewStringLeads
  <2>3. /\ strings \in Seq(String) /\ strings' \in Seq(String) /\ Len(strings') >= Len(strings)
        /\ \A s \in 1 .. Len(strings) : Live(strings[s]) => Live(strings'[s])
    <3>1. strings \in Seq(String) /\ NewString(t) \in String
      BY DEF IInv, Shapes, NewString, String
    <3>2. Len(strings) \in Nat
      BY <3>1
    <3> QED BY <1>2, <3>1, <3>2, AppendProperties
  <2>4. AddEntry(h, f, v)
    BY <1>2, <2>1
  <2> QED BY <1>1, <1>2, <2>2, <2>3, <2>4, AddEntryKeeps
<1>3. CASE HostGives(h, Value("prototype", Dyn)) /\ UNCHANGED <<heap, status>>
  <2>1. PICK v : v = Value("prototype", Dyn)
    OBVIOUS
  <2>2. v \in Val /\ v.type = "prototype"
    BY <2>1, ValueParts DEF Kinds, Dyn
  <2>3. Leads(v, strings, objects, arrays)
    BY <2>2 DEF Leads, Overlaid
  <2> QED BY <1>1, <1>3, <2>1, <2>2, <2>3, HostValueKeeps
<1>4. CASE HostFails(Fault(host[h]))
  BY <1>1, <1>4, Faults, HostFailsKeeps
<1> QED BY <1>2, <1>3, <1>4 DEF setText

(* The value that is released has nothing of it any more, and who still    *)
(* has the string is on record.                                            *)
InUse ==
  /\ \A h \in Hosts : host[h] \in Reachable
  /\ \A o \in DOMAIN objects : \A i \in DOMAIN objects[o] : objects[o][i].value \in Reachable
  /\ \A a \in DOMAIN arrays : \A i \in DOMAIN arrays[a] : arrays[a][i] \in Reachable
  /\ \A i \in DOMAIN stack : stack[i].is = "variant" => stack[i].value \in Reachable

LEMMA ReachedValues == InUse
<1>1. ASSUME NEW o \in DOMAIN objects, NEW i \in DOMAIN objects[o]
      PROVE  objects[o][i].value \in Reachable
  <2>1. objects[o] \in Range(objects) /\ objects[o][i] \in Range(objects[o])
    BY DEF Range
  <2>2. objects[o][i] \in UNION {Range(x) : x \in Range(objects)}
    BY <2>1
  <2> QED BY <2>2 DEF Reachable
<1>2. ASSUME NEW a \in DOMAIN arrays, NEW i \in DOMAIN arrays[a]
      PROVE  arrays[a][i] \in Reachable
  <2>1. arrays[a] \in Range(arrays) /\ arrays[a][i] \in Range(arrays[a])
    BY DEF Range
  <2>2. arrays[a][i] \in UNION {Range(x) : x \in Range(arrays)}
    BY <2>1
  <2> QED BY <2>2 DEF Reachable
<1> QED BY <1>1, <1>2 DEF InUse, Reachable

LEMMA releaseKeeps ==
  ASSUME IInv, NEW h \in Hosts, release(h)
  PROVE  IInv'
<1> DEFINE u == Value("undefined", host[h].data)
<1>1. AtRest
  BY DEF release
<1>2. host[h] \in Val /\ Leads(host[h], strings, objects, arrays) /\ host \in [Hosts -> Val]
  BY DEF IInv, Shapes, HostLeads
<1>3. u \in Val /\ u.type = "undefined" /\ u.data = host[h].data
  BY <1>2, ValueParts DEF Val, Kinds
<1>4. \A ss, os, as : Leads(u, ss, os, as)
  BY <1>3 DEF Leads, Overlaid
<1> HIDE DEF u
<1>5. CASE HostGives(h, u) /\ UNCHANGED <<heap, status>>
  BY <1>1, <1>3, <1>4, <1>5, HostValueKeeps
<1>6. CASE HostFails(Fault(host[h]))
  BY <1>1, <1>6, Faults, HostFailsKeeps
<1>7. ASSUME host[h].type = "string", ~Dangling(host[h]), HostGives(h, u),
             UNCHANGED <<objects, arrays, status>>,
             strings' = [strings EXCEPT ![host[h].data].ref = @ - 1,
                                        ![host[h].data].fate =
                                          IF host[h] \in Reachable' THEN "shared" ELSE "alone"]
      PROVE  IInv'
  <2>1. PICK d : d = host[h].data
    OBVIOUS
  <2>2. PICK fate \in {"shared", "alone"} :
          fate = IF host[h] \in Reachable' THEN "shared" ELSE "alone"
    OBVIOUS
  <2>3. Lengths /\ strings \in Seq(String)
    BY LengthsKnown DEF IInv, Shapes
  <2>4. d \in 1 .. Len(strings) /\ strings[d] \in String
    BY <1>2, <1>7, <2>1, <2>3, StringAtHand
  <2> DEFINE c == [strings[d] EXCEPT !.ref = @ - 1, !.fate = fate]
  <2>5. strings' = [strings EXCEPT ![d] = c]
    <3>1. strings' = [strings EXCEPT ![d].ref = @ - 1, ![d].fate = fate]
      BY <1>7, <2>1, <2>2
    <3> QED BY <2>3, <2>4, <3>1
  <2>6. c \in String /\ (host[h] \in Reachable' => Live(c))
    <3>1. PICK a : a = strings[d]
      OBVIOUS
    <3>2. PICK b : b = [a EXCEPT !.ref = a.ref - 1]
      OBVIOUS
    <3>3. a \in String /\ a.ref - 1 \in Int
      BY <2>4, <3>1 DEF String
    <3>4. b \in String
      BY <3>2, <3>3 DEF String
    <3>5. c = [b EXCEPT !.fate = fate]
      BY <3>1, <3>2
    <3>6. c \in String /\ c.fate = fate
      BY <3>4, <3>5 DEF String
    <3> QED BY <2>2, <3>6 DEF Live
  <2> HIDE DEF c
  <2>7. /\ strings' \in Seq(String) /\ Len(strings') = Len(strings)
        /\ \A s \in 1 .. Len(strings) : strings'[s] = IF s = d THEN c ELSE strings[s]
    BY <2>3, <2>4, <2>5, <2>6, ExceptSeq
  <2>8. HeapTyped'
    BY <1>7, <2>7 DEF HeapTyped, IInv, Shapes
  <2>9. host' \in [Hosts -> Val] /\ UNCHANGED <<stack, declared, code, lhs>>
    BY <1>2, <1>3, <1>7 DEF HostGives
  <2>10. Shapes' /\ Lengths'
    BY <1>1, <1>7, <2>8, <2>9, HeapShapes
  <2>11. ASSUME NEW v \in Val, v \in Reachable', Leads(v, strings, objects, arrays)
         PROVE  Leads(v, strings', objects', arrays')
    <3>1. CASE v.type = "string" /\ v.data = d
      <4>1. v = host[h]
        BY <1>2, <1>7, <2>1, <3>1 DEF Val
      <4> QED BY <2>3, <2>4, <2>6, <2>7, <2>10, <2>11, <3>1, <4>1 DEF Leads, Overlaid, Lengths
    <3>2. CASE v.type = "string" /\ v.data # d
      BY <2>3, <2>7, <2>10, <2>11, <3>2 DEF Leads, Overlaid, Lengths
    <3>3. CASE v.type # "string"
      BY <1>7, <2>11, <3>3 DEF Leads
    <3> QED BY <3>1, <3>2, <3>3
  <2>12. InUse'
    BY ReachedValues, PTL
  <2>13. HostLeads'
    <3> SUFFICES ASSUME NEW k \in Hosts PROVE Leads(host'[k], strings', objects', arrays')
      BY DEF HostLeads
    <3>1. CASE k = h
      BY <1>2, <1>4, <1>7, <3>1 DEF HostGives
    <3>2. CASE k # h
      <4>1. host'[k] = host[k] /\ host[k] \in Val /\ Leads(host[k], strings, objects, arrays)
        BY <1>2, <1>7, <3>2 DEF HostGives, IInv, HostLeads
      <4> QED BY <2>11, <2>12, <4>1 DEF InUse
    <3> QED BY <3>1, <3>2
  <2>14. ASSUME NEW o \in DOMAIN objects, NEW i \in DOMAIN objects[o]
         PROVE  Leads(objects[o][i].value, strings', objects', arrays')
    <3>1. objects[o][i].value \in Val /\ Leads(objects[o][i].value, strings, objects, arrays)
      BY <2>3 DEF Lengths, Property, IInv, ObjectsLead
    <3>2. objects[o][i].value \in Reachable'
      BY <1>7, <2>12 DEF InUse
    <3> QED BY <2>11, <3>1, <3>2
  <2>15. ASSUME NEW a \in DOMAIN arrays, NEW i \in DOMAIN arrays[a]
         PROVE  Leads(arrays[a][i], strings', objects', arrays')
    <3>1. arrays[a][i] \in Val /\ Leads(arrays[a][i], strings, objects, arrays)
      BY <2>3 DEF Lengths, IInv, ArraysLead
    <3>2. arrays[a][i] \in Reachable'
      BY <1>7, <2>12 DEF InUse
    <3> QED BY <2>11, <3>1, <3>2
  <2>16. ASSUME NEW i \in DOMAIN stack, stack[i].is = "variant"
         PROVE  Leads(stack[i].value, strings', objects', arrays')
    <3>1. stack[i].value \in Val /\ Leads(stack[i].value, strings, objects, arrays)
      BY <2>3, <2>16, VariantCell DEF Lengths, IInv, StackLeads
    <3>2. stack[i].value \in Reachable'
      BY <2>9, <2>12, <2>16 DEF InUse
    <3> QED BY <2>11, <3>1, <3>2
  <2>17. ObjectsLead' /\ ArraysLead' /\ StackLeads'
    BY <1>7, <2>9, <2>14, <2>15, <2>16 DEF ObjectsLead, ArraysLead, StackLeads
  <2>18. RefsLead'
    BY <1>7, <2>9 DEF IInv, RefsLead
  <2>19. Progress'
    BY <1>1, <1>7, <2>9 DEF IInv, Progress, AtRest, Variables
  <2> QED BY <2>10, <2>13, <2>17, <2>18, <2>19 DEF IInv
<1> QED BY <1>5, <1>6, <1>7 DEF release, heap, u

LEMMA HostStepKeeps == ASSUME IInv, HostStep PROVE IInv'
BY AssignIntKeeps, AssignRealKeeps, AssignTextKeeps, AssignKeeps, AssignFunctionKeeps, callKeeps,
   releaseKeeps, makeArrayKeeps, setValueAtKeeps, setValueKeeps, setTextKeeps, setValueFailsKeeps,
   PlusKeeps, PlusFailsKeeps DEF HostStep

-----------------------------------------------------------------------------
(* Lemmas about compiled statements.                                       *)

LEMMA SingleInstruction ==
  ASSUME NEW i \in Instruction
  PROVE  <<i>> \in Seq(Instruction) /\ Len(<<i>>) = 1 /\ <<i>>[1] = i
OBVIOUS

LEMMA PathShape ==
  ASSUME NEW path \in Paths
  PROVE  /\ Len(path) \in 1 .. 3 /\ path[1] \in 1 .. declared
         /\ \A k \in 2 .. Len(path) : path[k] \in Names
<1> DEFINE S == Nat \cup Names
<1>1. PICK x \in 1 .. declared, p \in Properties : path = <<x>> \o p
  BY DEF Paths
<1>2. /\ p \in Seq(Names) /\ Len(p) \in 0 .. 2
      /\ \A k \in 1 .. Len(p) : p[k] \in Names
  <2>1. PICK n \in 0 .. 2 : p \in [1 .. n -> Names]
    BY DEF Properties
  <2> QED BY <2>1
<1>3. x \in Nat
  OBVIOUS
<1>4. <<x>> \in Seq(S) /\ Len(<<x>>) = 1 /\ <<x>>[1] = x
  BY <1>3
<1>5. p \in Seq(S)
  BY <1>2, SeqMonotonic
<1>6. /\ Len(<<x>> \o p) = 1 + Len(p)
      /\ \A i \in 1 .. 1 + Len(p) : (<<x>> \o p)[i] = IF i <= 1 THEN <<x>>[i] ELSE p[i - 1]
  BY <1>4, <1>5, ConcatProperties
<1>7. Len(path) = 1 + Len(p) /\ path[1] = x /\ \A k \in 2 .. 1 + Len(p) : path[k] = p[k - 1]
  BY <1>1, <1>2, <1>4, <1>6
<1>8. \A k \in 2 .. 1 + Len(p) : k - 1 \in 1 .. Len(p)
  BY <1>2
<1> QED BY <1>2, <1>7, <1>8

LEMMA CompiledPath ==
  ASSUME NEW path, Len(path) \in Nat \ {0}, path[1] \in Nat, \A k \in 2 .. Len(path) : path[k] \in Names
  PROVE  /\ loadVarRef(path) \in Seq(Instruction) /\ Len(loadVarRef(path)) = Len(path)
         /\ loadVarRef(path)[1] = <<"VARLOADREF", 1, path[1]>>
         /\ \A k \in 2 .. Len(path) : loadVarRef(path)[k] = <<"VARLOADREF", 0, path[k]>>
<1> DEFINE n == Len(path) - 1
           head == <<"VARLOADREF", 1, path[1]>>
           rest == [k \in 1 .. n |-> <<"VARLOADREF", 0, path[k + 1]>>]
<1>1. head \in Instruction
  BY DEF Instruction
<1>2. n \in Nat /\ \A k \in 1 .. n : k + 1 \in 2 .. Len(path)
  OBVIOUS
<1>3. \A k \in 1 .. n : rest[k] = <<"VARLOADREF", 0, path[k + 1]>> /\ rest[k] \in Instruction
  BY <1>2 DEF Instruction
<1>4. rest \in Seq(Instruction) /\ Len(rest) = n
  BY <1>2, <1>3
<1>5. <<head>> \in Seq(Instruction) /\ Len(<<head>>) = 1 /\ <<head>>[1] = head
  BY <1>1, SingleInstruction
<1>6. loadVarRef(path) = <<head>> \o rest
  BY DEF loadVarRef
<1> HIDE DEF head, rest, n
<1>7. /\ <<head>> \o rest \in Seq(Instruction) /\ Len(<<head>> \o rest) = 1 + n
      /\ \A i \in 1 .. 1 + n : (<<head>> \o rest)[i] = IF i <= 1 THEN <<head>>[i] ELSE rest[i - 1]
  BY <1>4, <1>5, ConcatProperties
<1>8. 1 + n = Len(path)
  BY DEF n
<1>9. \A k \in 2 .. Len(path) : (<<head>> \o rest)[k] = <<"VARLOADREF", 0, path[k]>>
  <2> SUFFICES ASSUME NEW k \in 2 .. Len(path) PROVE (<<head>> \o rest)[k] = <<"VARLOADREF", 0, path[k]>>
    OBVIOUS
  <2>1. (<<head>> \o rest)[k] = rest[k - 1] /\ k - 1 \in 1 .. n /\ k - 1 + 1 = k
    BY <1>2, <1>7, <1>8
  <2> QED BY <1>3, <2>1
<1>10. (<<head>> \o rest)[1] = head
  <2>1. 1 \in 1 .. 1 + n
    BY <1>2
  <2> QED BY <1>5, <1>7, <2>1
<1>11. head = <<"VARLOADREF", 1, path[1]>>
  BY DEF head
<1> QED BY <1>6, <1>7, <1>8, <1>9, <1>10, <1>11

FirstOf(rhs) ==
  IF rhs.is = "int" THEN <<"LOADK", rhs.value>>
  ELSE IF rhs.is = "new" THEN <<"NEW">> ELSE <<"PUSHVAR", rhs.reads>>

Evaluates(e, rhs) ==
  /\ e \in Seq(Instruction) /\ Len(e) = EvalLen(rhs) /\ e[1] = FirstOf(rhs)
  /\ rhs.is = "call" => e[2] = <<"VARCALL">>
  /\ rhs.is \in {"int", "new", "var", "call"}
  /\ rhs.is = "int" => rhs.value \in Ints
  /\ rhs.is \in {"var", "call"} => rhs.reads \in 1 .. declared

LEMMA CompiledExpression ==
  ASSUME declared \in Nat, NEW rhs \in Expressions
  PROVE  Evaluates(emitExpressionEval(rhs), rhs)
<1>1. CASE \E n \in Ints : rhs = [is |-> "int", value |-> n]
  <2>1. PICK n \in Ints : rhs = [is |-> "int", value |-> n]
    BY <1>1
  <2>2. <<"LOADK", n>> \in Instruction
    BY DEF Instruction
  <2>3. emitExpressionEval(rhs) = << <<"LOADK", n>> >>
    BY <2>1 DEF emitExpressionEval
  <2> QED BY <2>1, <2>2, <2>3, SingleInstruction DEF EvalLen, FirstOf, Evaluates
<1>2. CASE rhs = [is |-> "new"]
  <2>1. <<"NEW">> \in Instruction
    BY DEF Instruction
  <2>2. emitExpressionEval(rhs) = << <<"NEW">> >>
    BY <1>2 DEF emitExpressionEval
  <2> QED BY <1>2, <2>1, <2>2, SingleInstruction DEF EvalLen, FirstOf, Evaluates
<1>3. CASE \E x \in 1 .. declared : rhs = [is |-> "var", reads |-> x]
  <2>1. PICK x \in 1 .. declared : rhs = [is |-> "var", reads |-> x]
    BY <1>3
  <2>2. <<"PUSHVAR", x>> \in Instruction
    BY DEF Instruction
  <2>3. emitExpressionEval(rhs) = << <<"PUSHVAR", x>> >>
    BY <2>1 DEF emitExpressionEval
  <2> QED BY <2>1, <2>2, <2>3, SingleInstruction DEF EvalLen, FirstOf, Evaluates
<1>4. CASE \E x \in 1 .. declared : rhs = [is |-> "call", reads |-> x]
  <2>1. PICK x \in 1 .. declared : rhs = [is |-> "call", reads |-> x]
    BY <1>4
  <2>2. <<"PUSHVAR", x>> \in Instruction /\ <<"VARCALL">> \in Instruction
    BY DEF Instruction
  <2>3. emitExpressionEval(rhs) = << <<"PUSHVAR", x>>, <<"VARCALL">> >>
    BY <2>1 DEF emitExpressionEval
  <2> DEFINE i == <<"PUSHVAR", x>>
             k == <<"VARCALL">>
             e == emitExpressionEval(rhs)
  <2>4. i \in Instruction /\ k \in Instruction /\ e = <<i, k>>
    BY <2>2, <2>3
  <2> HIDE DEF i, k, e
  <2>5. e \in Seq(Instruction) /\ Len(e) = 2 /\ e[1] = i /\ e[2] = k
    BY <2>4
  <2>6. rhs.is = "call" /\ rhs.reads = x
    BY <2>1
  <2>7. FirstOf(rhs) = i /\ EvalLen(rhs) = 2
    BY <2>6 DEF FirstOf, EvalLen, i
  <2> QED BY <2>5, <2>6, <2>7 DEF Evaluates, e, k
<1>5. \/ \E n \in Ints : rhs = [is |-> "int", value |-> n]
      \/ rhs = [is |-> "new"]
      \/ \E x \in 1 .. declared : rhs = [is |-> "var", reads |-> x]
      \/ \E x \in 1 .. declared : rhs = [is |-> "call", reads |-> x]
  BY DEF Expressions
<1> QED BY <1>1, <1>2, <1>3, <1>4, <1>5

LEMMA Compiled ==
  ASSUME NEW path, Len(path) \in Nat \ {0}, path[1] \in Nat, \A k \in 2 .. Len(path) : path[k] \in Names,
         declared \in Nat, NEW rhs \in Expressions
  PROVE  LET full == compileVarAssign(path, rhs)
             n == Len(path)
         IN  /\ full \in Seq(Instruction) /\ Len(full) = n + EvalLen(rhs) + 1
             /\ full[1] = <<"VARLOADREF", 1, path[1]>>
             /\ \A k \in 2 .. n : full[k] = <<"VARLOADREF", 0, path[k]>>
             /\ full[n + 1] = FirstOf(rhs)
             /\ rhs.is = "call" => full[n + 2] = <<"VARCALL">>
             /\ full[n + EvalLen(rhs) + 1] = <<"VARSTORE", StoreType(rhs)>>
<1> DEFINE l == loadVarRef(path)
           e == emitExpressionEval(rhs)
           s == <<"VARSTORE", StoreType(rhs)>>
           n == Len(path)
           m == EvalLen(rhs)
<1>1. /\ l \in Seq(Instruction) /\ Len(l) = n
      /\ l[1] = <<"VARLOADREF", 1, path[1]>>
      /\ \A k \in 2 .. n : l[k] = <<"VARLOADREF", 0, path[k]>>
  BY CompiledPath
<1>2. /\ e \in Seq(Instruction) /\ Len(e) = m /\ e[1] = FirstOf(rhs)
      /\ rhs.is = "call" => e[2] = <<"VARCALL">>
  BY CompiledExpression DEF Evaluates
<1>3. m \in {1, 2} /\ (rhs.is = "call" => m = 2) /\ n \in Nat \ {0}
  BY DEF EvalLen
<1>4. s \in Instruction
  BY DEF StoreType, Instruction
<1>5. <<s>> \in Seq(Instruction) /\ Len(<<s>>) = 1 /\ <<s>>[1] = s
  BY <1>4, SingleInstruction
<1>6. compileVarAssign(path, rhs) = (l \o e) \o <<s>>
  BY DEF compileVarAssign
<1> HIDE DEF l, e, s, n, m
<1>7. /\ l \o e \in Seq(Instruction) /\ Len(l \o e) = n + m
      /\ \A i \in 1 .. n + m : (l \o e)[i] = IF i <= n THEN l[i] ELSE e[i - n]
  BY <1>1, <1>2, ConcatProperties
<1> DEFINE le == l \o e
<1> HIDE DEF le
<1>8. le \in Seq(Instruction) /\ Len(le) = n + m
  BY <1>7 DEF le
<1>9. /\ le \o <<s>> \in Seq(Instruction) /\ Len(le \o <<s>>) = n + m + 1
      /\ \A i \in 1 .. n + m + 1 : (le \o <<s>>)[i] = IF i <= n + m THEN le[i] ELSE <<s>>[i - (n + m)]
  BY <1>5, <1>8, ConcatProperties
<1>10. \A i \in 1 .. n : (le \o <<s>>)[i] = l[i]
  BY <1>3, <1>7, <1>9 DEF le
<1>11. \A i \in 1 .. m : (le \o <<s>>)[n + i] = e[i]
  <2> SUFFICES ASSUME NEW i \in 1 .. m PROVE (le \o <<s>>)[n + i] = e[i]
    OBVIOUS
  <2>1. n + i \in 1 .. n + m /\ ~(n + i <= n) /\ (n + i) - n = i /\ n + i \in 1 .. n + m + 1
    BY <1>3
  <2> QED BY <1>7, <1>9, <2>1 DEF le
<1>12. (le \o <<s>>)[n + m + 1] = s
  <2>1. n + m + 1 \in 1 .. n + m + 1 /\ ~(n + m + 1 <= n + m) /\ (n + m + 1) - (n + m) = 1
    BY <1>3
  <2> QED BY <1>5, <1>9, <2>1
<1>13. 1 \in 1 .. m /\ (rhs.is = "call" => 2 \in 1 .. m) /\ 1 \in 1 .. n
       /\ \A k \in 2 .. n : k \in 1 .. n
  BY <1>3
<1>14. compileVarAssign(path, rhs) = le \o <<s>>
  BY <1>6 DEF le
<1> DEFINE full == le \o <<s>>
<1> HIDE DEF full
<1>15. /\ full \in Seq(Instruction) /\ Len(full) = n + m + 1
       /\ full[1] = l[1] /\ (\A k \in 2 .. n : full[k] = l[k])
       /\ full[n + 1] = e[1] /\ (rhs.is = "call" => full[n + 2] = e[2])
       /\ full[n + m + 1] = s
  BY <1>9, <1>10, <1>11, <1>12, <1>13 DEF full
<1>16. compileVarAssign(path, rhs) = full
  BY <1>14 DEF full
<1> QED BY <1>1, <1>2, <1>15, <1>16 DEF n, m, s

-----------------------------------------------------------------------------
(* The steps of the compiler.                                              *)

LEMMA CompiledStatement ==
  ASSUME declared \in Nat, NEW path \in Paths, NEW rhs \in Expressions
  PROVE  LET full == compileVarAssign(path, rhs)
             n == Len(path)
         IN  /\ full \in Seq(Instruction) /\ Len(full) = n + EvalLen(rhs) + 1
             /\ full[1] = <<"VARLOADREF", 1, path[1]>>
             /\ \A k \in 2 .. n : full[k] = <<"VARLOADREF", 0, path[k]>>
             /\ full[n + 1] = FirstOf(rhs)
             /\ rhs.is = "call" => full[n + 2] = <<"VARCALL">>
             /\ full[n + EvalLen(rhs) + 1] = <<"VARSTORE", StoreType(rhs)>>
<1>1. /\ Len(path) \in 1 .. 3 /\ path[1] \in 1 .. declared
      /\ \A k \in 2 .. Len(path) : path[k] \in Names
  BY PathShape
<1>2. Len(path) \in Nat \ {0} /\ path[1] \in Nat
  BY <1>1
<1> QED BY <1>1, <1>2, Compiled

LEMMA DataKept ==
  ASSUME IInv, UNCHANGED <<host, heap, stack>>
  PROVE  HostLeads' /\ ObjectsLead' /\ ArraysLead' /\ StackLeads' /\ RefsLead'
BY DEF IInv, HostLeads, ObjectsLead, ArraysLead, StackLeads, RefsLead, heap

LEMMA RestsWith ==
  ASSUME IInv, AtRest
  PROVE  code = <<>> /\ Len(stack) = declared /\ Variables(declared) /\ declared \in Nat
<1>1. declared \in Nat
  BY LengthsKnown DEF IInv, Lengths
<1> QED BY <1>1 DEF IInv, Progress, AtRest

LEMMA StatementKeeps ==
  ASSUME IInv, NEW path \in Paths, NEW rhs \in Expressions, Statement(path, rhs)
  PROVE  IInv'
<1> DEFINE full == compileVarAssign(path, rhs)
<1>1. /\ AtRest /\ code' = full /\ lhs' = path
      /\ UNCHANGED <<host, heap, stack, declared, status>>
  BY DEF Statement, Run
<1>2. code = <<>> /\ Len(stack) = declared /\ Variables(declared) /\ declared \in Nat
  BY <1>1, RestsWith
<1>3. full \in Seq(Instruction) /\ Len(full) \in Nat
  BY <1>2, CompiledStatement
<1> HIDE DEF full
<1>4. Shapes'
  BY <1>1, <1>3 DEF IInv, Shapes, heap
<1>5. HostLeads' /\ ObjectsLead' /\ ArraysLead' /\ StackLeads' /\ RefsLead'
  BY <1>1, DataKept
<1>6. Assigning(rhs)'
  <2>1. Assignment(rhs)' = full
    BY <1>1 DEF Assignment, full
  <2>2. Done(rhs)' = 0
    BY <1>1, <1>3, <2>1 DEF Done
  <2>3. lhs' \in Paths'
    BY <1>1 DEF Paths
  <2>4. \A i \in DOMAIN code' : code'[i] = full[0 + i]
    BY <1>1, <1>3
  <2>5. Len(path) \in 1 .. 3
    BY PathShape
  <2>6. EvalLen(rhs) \in {1, 2}
    BY DEF EvalLen
  <2>7. Reached(0, rhs)'
    <3>1. Variables(declared)' /\ Len(stack') = declared'
      BY <1>1, <1>2 DEF Variables
    <3>2. Len(lhs') \in 1 .. 3
      BY <1>1, <2>5
    <3> QED BY <3>1, <3>2, SMTT(20) DEF Reached
  <2> QED BY <1>1, <1>3, <2>1, <2>2, <2>3, <2>4, <2>7 DEF Assigning
<1>7. rhs \in Expressions'
  BY <1>1 DEF Expressions
<1>8. code' # <<>>
  BY <1>1, <1>2, CompiledStatement, PathShape DEF full, EvalLen
<1>9. Progress'
  BY <1>6, <1>7, <1>8 DEF Progress
<1> QED BY <1>4, <1>5, <1>9 DEF IInv

LEMMA EndFunctionKeeps ==
  ASSUME IInv, EndFunction
  PROVE  IInv'
<1>1. /\ AtRest /\ code' = [k \in 1 .. declared |-> <<"POPVAR">>] /\ lhs' = <<>> /\ declared' = 0
      /\ UNCHANGED <<host, heap, stack, status>>
  BY DEF EndFunction, Run
<1>2. code = <<>> /\ Len(stack) = declared /\ Variables(declared) /\ declared \in Nat
  BY <1>1, RestsWith
<1>3. code' \in Seq(Instruction) /\ Len(code') = declared /\ \A i \in 1 .. declared : code'[i] = <<"POPVAR">>
  BY <1>1, <1>2 DEF Instruction
<1>4. declared' \in 0 .. MaxLocals
  <2>1. MaxLocals \in Nat
    BY ValuesAssumption
  <2> QED BY <1>1, <2>1
<1>5. Shapes'
  BY <1>1, <1>3, <1>4 DEF IInv, Shapes, heap
<1>6. HostLeads' /\ ObjectsLead' /\ ArraysLead' /\ StackLeads' /\ RefsLead'
  BY <1>1, DataKept
<1>7. Progress'
  <2>1. Popping' /\ Variables(declared)'
    BY <1>1, <1>2, <1>3 DEF Popping, Variables
  <2>2. CASE code' = <<>>
    <3>1. Len(stack') = declared'
      BY <1>1, <1>2, <1>3, <2>2
    <3> QED BY <2>1, <2>2, <3>1 DEF Progress
  <2>3. CASE code' # <<>>
    BY <2>1, <2>3 DEF Progress
  <2> QED BY <2>2, <2>3
<1> QED BY <1>5, <1>6, <1>7 DEF IInv

LEMMA DeclareKeeps ==
  ASSUME IInv, NEW init \in {NoInit} \cup Expressions, Declare(init)
  PROVE  IInv'
<1> DEFINE x == declared + 1
           pushed == <<"PUSHVAR", 1>>
           rest == IF init = NoInit THEN <<>> ELSE compileVarAssign(<<x>>, init)
<1>1. /\ AtRest /\ declared < MaxLocals /\ declared' = x
      /\ code' = <<pushed>> \o rest /\ lhs' = <<x>>
      /\ UNCHANGED <<host, heap, stack, status>>
  BY DEF Declare, Run, compileVariantStackAlloc
<1>2. code = <<>> /\ Len(stack) = declared /\ Variables(declared) /\ declared \in Nat
  BY <1>1, RestsWith
<1>3. pushed \in Instruction
  BY DEF Instruction
<1>4. <<pushed>> \in Seq(Instruction) /\ Len(<<pushed>>) = 1 /\ <<pushed>>[1] = pushed
  BY <1>3, SingleInstruction
<1>5. rest \in Seq(Instruction)
  <2>1. CASE init = NoInit
    BY <2>1
  <2>2. CASE init # NoInit
    <3>1. init \in Expressions
      BY <2>2
    <3>2. Len(<<x>>) \in Nat \ {0} /\ <<x>>[1] \in Nat /\ \A k \in 2 .. Len(<<x>>) : <<x>>[k] \in Names
      BY <1>2
    <3>3. compileVarAssign(<<x>>, init) \in Seq(Instruction)
      BY <1>2, <3>1, <3>2, Compiled
    <3> QED BY <2>2, <3>3
  <2> QED BY <2>1, <2>2
<1> HIDE DEF pushed, rest
<1>6. /\ code' \in Seq(Instruction) /\ Len(code') = 1 + Len(rest) /\ code' # <<>>
      /\ Head(code') = pushed /\ Tail(code') = rest
  <2>1. /\ code' \in Seq(Instruction) /\ Len(code') = 1 + Len(rest) /\ Len(rest) \in Nat
        /\ \A i \in 1 .. 1 + Len(rest) : code'[i] = IF i <= 1 THEN <<pushed>>[i] ELSE rest[i - 1]
    BY <1>1, <1>4, <1>5, ConcatProperties, LenProperties
  <2>2. code' # <<>>
    BY <2>1
  <2>3. /\ Tail(code') \in Seq(Instruction) /\ Len(Tail(code')) = Len(code') - 1
        /\ \A i \in 1 .. Len(Tail(code')) : Tail(code')[i] = code'[i + 1]
    BY <2>1, <2>2, HeadTailProperties
  <2>4. Len(Tail(code')) = Len(rest)
    BY <2>1, <2>3
  <2>5. \A i \in 1 .. Len(rest) : i + 1 \in 1 .. 1 + Len(rest) /\ ~(i + 1 <= 1) /\ (i + 1) - 1 = i
    BY <2>1
  <2>6. \A i \in 1 .. Len(rest) : Tail(code')[i] = rest[i]
    BY <2>1, <2>3, <2>4, <2>5
  <2>7. Tail(code') = rest
    BY <1>5, <2>3, <2>4, <2>6, SeqEqual
  <2>8. Head(code') = code'[1] /\ 1 \in 1 .. 1 + Len(rest)
    BY <2>1, <2>2
  <2> QED BY <1>4, <2>1, <2>2, <2>7, <2>8
<1>7. declared' \in 0 .. MaxLocals
  <2>1. MaxLocals \in Nat
    BY ValuesAssumption
  <2> QED BY <1>1, <1>2, <2>1
<1>8. Shapes'
  BY <1>1, <1>6, <1>7 DEF IInv, Shapes, heap
<1>9. HostLeads' /\ ObjectsLead' /\ ArraysLead' /\ StackLeads' /\ RefsLead'
  BY <1>1, DataKept
<1>10. Declaring'
  <2>1. declared' > 0 /\ lhs' = <<declared'>> /\ Len(stack') = declared' - 1
    BY <1>1, <1>2
  <2>2. Variables(declared - 1)'
    BY <1>1, <1>2 DEF Variables
  <2>3. Head(code') = <<"PUSHVAR", 1>>
    BY <1>6 DEF pushed
  <2>4. CASE init = NoInit
    <3>1. Tail(code') = <<>>
      BY <1>6, <2>4 DEF rest
    <3>2. Len(code') = 1
      BY <1>6, <2>4 DEF rest
    <3> QED BY <2>1, <2>2, <2>3, <3>2 DEF Declaring
  <2>5. CASE init # NoInit
    <3>1. init \in Expressions'
      <4>1. init \in Expressions /\ 1 .. declared \subseteq 1 .. declared'
        BY <1>1, <1>2, <2>5
      <4> QED BY <4>1 DEF Expressions
    <3>2. Tail(code') = Assignment(init)'
      BY <1>1, <1>6, <2>5 DEF rest, Assignment
    <3> QED BY <2>1, <2>2, <2>3, <3>1, <3>2 DEF Declaring
  <2> QED BY <2>4, <2>5
<1>11. Progress'
  BY <1>6, <1>10 DEF Progress
<1> QED BY <1>8, <1>9, <1>11 DEF IInv

-----------------------------------------------------------------------------
(* The virtual machine runs a statement through.                           *)

InStatement(rhs) ==
  LET k == Done(rhs)
      n == Len(lhs)
  IN \/ k = 0 /\ Head(code) = <<"VARLOADREF", 1, lhs[1]>>
     \/ k \in 1 .. n - 1 /\ Head(code) = <<"VARLOADREF", 0, lhs[k + 1]>>
     \/ k = n /\ Head(code) = FirstOf(rhs)
     \/ k = n + 1 /\ rhs.is = "call" /\ Head(code) = <<"VARCALL">>
     \/ k = n + EvalLen(rhs) /\ Head(code) = <<"VARSTORE", StoreType(rhs)>>

LEMMA AssigningShape ==
  ASSUME IInv, NEW rhs \in Expressions, Assigning(rhs)
  PROVE  LET n == Len(lhs)
         IN  /\ n \in 1 .. 3 /\ lhs[1] \in 1 .. declared /\ declared \in Nat
             /\ \A k \in 2 .. n : lhs[k] \in Names
             /\ EvalLen(rhs) \in {1, 2} /\ (EvalLen(rhs) = 2 <=> rhs.is = "call")
             /\ Assignment(rhs) \in Seq(Instruction)
             /\ Len(Assignment(rhs)) = n + EvalLen(rhs) + 1
             /\ Done(rhs) \in 0 .. Len(Assignment(rhs))
             /\ Done(rhs) + Len(code) = Len(Assignment(rhs))
             /\ Len(code) \in Nat
<1>1. declared \in Nat /\ Len(code) \in Nat
  BY LengthsKnown DEF IInv, Lengths
<1>2. lhs \in Paths
  BY DEF Assigning
<1>3. /\ Len(lhs) \in 1 .. 3 /\ lhs[1] \in 1 .. declared
      /\ \A k \in 2 .. Len(lhs) : lhs[k] \in Names
  BY <1>2, PathShape
<1>4. /\ Assignment(rhs) \in Seq(Instruction)
      /\ Len(Assignment(rhs)) = Len(lhs) + EvalLen(rhs) + 1
  BY <1>1, <1>2, CompiledStatement DEF Assignment
<1>5. EvalLen(rhs) \in {1, 2} /\ (EvalLen(rhs) = 2 <=> rhs.is = "call")
  BY DEF EvalLen
<1>6. Done(rhs) \in 0 .. Len(Assignment(rhs))
  BY DEF Assigning
<1>7. Done(rhs) + Len(code) = Len(Assignment(rhs))
  BY <1>1, <1>3, <1>4, <1>5 DEF Done
<1> QED BY <1>1, <1>3, <1>4, <1>5, <1>6, <1>7

LEMMA CodeAtHand ==
  ASSUME IInv, NEW rhs \in Expressions, Assigning(rhs), code # <<>>
  PROVE  /\ InStatement(rhs)
         /\ Head(code) = Assignment(rhs)[Done(rhs) + 1]
         /\ Done(rhs) < Len(Assignment(rhs))
<1> DEFINE n == Len(lhs)
           k == Done(rhs)
           full == Assignment(rhs)
           e == EvalLen(rhs)
<1>1. /\ n \in 1 .. 3 /\ e \in {1, 2} /\ (e = 2 <=> rhs.is = "call")
      /\ full \in Seq(Instruction) /\ Len(full) = n + e + 1
      /\ k \in 0 .. Len(full) /\ k + Len(code) = Len(full) /\ Len(code) \in Nat
      /\ declared \in Nat
  BY AssigningShape
<1>2. code \in Seq(Instruction)
  BY DEF IInv, Shapes
<1>3. Len(code) > 0 /\ Head(code) = code[1] /\ 1 \in DOMAIN code
  BY <1>1, <1>2
<1>4. \A i \in DOMAIN code : code[i] = full[k + i]
  BY DEF Assigning
<1>5. Head(code) = full[k + 1] /\ k < Len(full)
  BY <1>1, <1>3, <1>4
<1>6. /\ full[1] = <<"VARLOADREF", 1, lhs[1]>>
      /\ \A i \in 2 .. n : full[i] = <<"VARLOADREF", 0, lhs[i]>>
      /\ full[n + 1] = FirstOf(rhs)
      /\ rhs.is = "call" => full[n + 2] = <<"VARCALL">>
      /\ full[n + e + 1] = <<"VARSTORE", StoreType(rhs)>>
  BY <1>1, CompiledStatement DEF Assigning, Assignment
<1> HIDE DEF n, k, full, e
<1>7. CASE k = 0
  BY <1>5, <1>6, <1>7 DEF InStatement, k, full
<1>8. CASE k \in 1 .. n - 1
  <2>1. k + 1 \in 2 .. n
    BY <1>1, <1>8
  <2>2. Head(code) = <<"VARLOADREF", 0, lhs[k + 1]>>
    BY <1>5, <1>6, <2>1
  <2> QED BY <1>5, <1>8, <2>2 DEF InStatement, k, n, full
<1>9. CASE k = n
  BY <1>5, <1>6, <1>9 DEF InStatement, k, n, full
<1>10. CASE k = n + 1 /\ rhs.is = "call"
  <2>1. k + 1 = n + 2
    BY <1>1, <1>10
  <2>2. Head(code) = <<"VARCALL">>
    BY <1>5, <1>6, <1>10, <2>1
  <2> QED BY <1>5, <1>10, <2>2 DEF InStatement, k, n, full
<1>11. CASE k = n + e
  BY <1>5, <1>6, <1>11 DEF InStatement, k, n, full, e
<1>12. k = 0 \/ k \in 1 .. n - 1 \/ k = n \/ (k = n + 1 /\ rhs.is = "call") \/ k = n + e
  BY <1>1, <1>5
<1>13. InStatement(rhs)
  BY <1>5, <1>6, <1>7, <1>8, <1>9, <1>10, <1>11, <1>12
<1> QED BY <1>5, <1>13 DEF k, full

(* Where the machine is when it runs an instruction.                       *)
LEMMA WhereNow ==
  ASSUME IInv, NEW op, Now(op)
  PROVE  \/ Popping /\ op = "POPVAR"
         \/ Declaring /\ op = "PUSHVAR" /\ Arg = 1
         \/ \E rhs \in Expressions : Assigning(rhs) /\ InStatement(rhs)
<1>1. status = "running" /\ code # <<>> /\ Head(code)[1] = op
  BY DEF Now
<1>2. Popping \/ Declaring \/ \E rhs \in Expressions : Assigning(rhs)
  BY <1>1 DEF IInv, Progress
<1>3. CASE Popping
  <2>1. code \in Seq(Instruction)
    BY DEF IInv, Shapes
  <2>2. Head(code) = code[1] /\ 1 \in DOMAIN code
    BY <1>1, <2>1
  <2>3. Head(code) = <<"POPVAR">>
    BY <1>3, <2>2 DEF Popping
  <2>4. op = "POPVAR"
    BY <1>1, <2>3
  <2> QED BY <1>3, <2>4
<1>4. CASE Declaring
  <2>1. Head(code) = <<"PUSHVAR", 1>>
    BY <1>4 DEF Declaring
  <2>2. op = "PUSHVAR" /\ Arg = 1
    BY <1>1, <2>1 DEF Arg
  <2> QED BY <1>4, <2>2
<1>5. CASE \E rhs \in Expressions : Assigning(rhs)
  BY <1>1, <1>5, CodeAtHand
<1> QED BY <1>2, <1>3, <1>4, <1>5

(* An instruction of a statement that leaves the stack as the next one     *)
(* expects it.                                                             *)
LEMMA StepKeeps ==
  ASSUME IInv, NEW rhs \in Expressions, Assigning(rhs), code # <<>>, Step, status' = status,
         stack' \in Seq(Cell), HeapTyped',
         HostLeads', ObjectsLead', ArraysLead', StackLeads', RefsLead',
         NEW k \in Nat, k = Done(rhs), Reached(k + 1, rhs)'
  PROVE  IInv'
<1> DEFINE full == Assignment(rhs)
<1>1. code' = Tail(code) /\ UNCHANGED <<host, declared, lhs>>
  BY DEF Step
<1>2. code \in Seq(Instruction)
  BY DEF IInv, Shapes
<1>3. /\ code' \in Seq(Instruction) /\ Len(code') = Len(code) - 1
      /\ \A i \in 1 .. Len(code') : code'[i] = code[i + 1]
  BY <1>1, <1>2, HeadTailProperties
<1>4. /\ full \in Seq(Instruction) /\ k \in 0 .. Len(full) /\ k + Len(code) = Len(full)
      /\ Len(code) \in Nat /\ Len(full) = Len(lhs) + EvalLen(rhs) + 1
      /\ Len(lhs) \in 1 .. 3 /\ EvalLen(rhs) \in {1, 2}
  BY AssigningShape
<1>5. \A i \in DOMAIN code : code[i] = full[k + i]
  BY DEF Assigning
<1>6. Shapes'
  BY <1>1, <1>3 DEF IInv, Shapes, HeapTyped
<1>7. full' = full
  BY <1>1 DEF Assignment
<1> HIDE DEF full
<1>8. Done(rhs)' = k + 1
  <2>1. Done(rhs)' = Len(full') - Len(code')
    BY DEF Done, full
  <2> QED BY <1>3, <1>4, <1>7, <2>1
<1>9. code' # <<>> => Progress'
  <2> SUFFICES ASSUME code' # <<>> PROVE Progress'
    OBVIOUS
  <2>1. lhs' \in Paths'
    BY <1>1 DEF Assigning, Paths
  <2>2. k + 1 \in 0 .. Len(full)
    BY <1>3, <1>4
  <2>3. \A i \in DOMAIN code' : code'[i] = full[(k + 1) + i]
    <3> SUFFICES ASSUME NEW i \in DOMAIN code' PROVE code'[i] = full[(k + 1) + i]
      OBVIOUS
    <3>1. i \in 1 .. Len(code') /\ i + 1 \in DOMAIN code
      BY <1>2, <1>3, <1>4, SMTT(20)
    <3>2. code'[i] = full[k + (i + 1)]
      BY <1>3, <1>5, <3>1
    <3>3. k + (i + 1) = (k + 1) + i
      BY <1>4, <3>1
    <3> QED BY <3>2, <3>3
  <2>4. Assigning(rhs)'
    BY <1>7, <1>8, <2>1, <2>2, <2>3 DEF Assigning, full
  <2>5. rhs \in Expressions'
    BY <1>1 DEF Expressions
  <2> QED BY <2>4, <2>5 DEF Progress
<1>10. code' = <<>> => Progress'
  <2> SUFFICES ASSUME code' = <<>> PROVE Progress'
    OBVIOUS
  <2>1. Len(code') = 0
    BY <1>3
  <2>2. Len(code) = 1
    BY <1>3, <1>4, <2>1
  <2>3. k + 1 = Len(lhs') + EvalLen(rhs) + 1
    BY <1>1, <1>4, <2>2
  <2>4. Len(stack') = declared' /\ Variables(declared)'
    BY <2>3 DEF Reached
  <2> QED BY <2>4 DEF Progress
<1> QED BY <1>6, <1>9, <1>10 DEF IInv

(* What Now(op) says of the statement it is in.                            *)
AtOp(op, rhs) ==
  LET k == Done(rhs)
      n == Len(lhs)
  IN /\ op = "LOADK" => k = n /\ rhs.is = "int" /\ Arg = rhs.value
     /\ op = "NEW" => k = n /\ rhs.is = "new"
     /\ op = "PUSHVAR" => k = n /\ rhs.is \in {"var", "call"} /\ Arg = rhs.reads
     /\ op = "VARCALL" => k = n + 1 /\ rhs.is = "call"
     /\ op = "VARSTORE" => k = n + EvalLen(rhs) /\ Arg = StoreType(rhs)
     /\ op = "VARLOADREF" =>
          \/ k = 0 /\ Arg = 1 /\ Head(code)[3] = lhs[1]
          \/ k \in 1 .. n - 1 /\ Arg = 0 /\ Head(code)[3] = lhs[k + 1]
     /\ op # "POPVAR"

LEMMA OpAt ==
  ASSUME IInv, NEW rhs \in Expressions, Assigning(rhs), InStatement(rhs), NEW op, Now(op)
  PROVE  AtOp(op, rhs)
<1>1. Head(code)[1] = op /\ Arg = Head(code)[2]
  BY DEF Now, Arg
<1>2. rhs.is \in {"int", "new", "var", "call"}
  BY AssigningShape, CompiledExpression DEF Evaluates
<1>3. CASE Done(rhs) = 0 /\ Head(code) = <<"VARLOADREF", 1, lhs[1]>>
  BY <1>1, <1>3 DEF AtOp
<1>4. CASE /\ Done(rhs) \in 1 .. Len(lhs) - 1
           /\ Head(code) = <<"VARLOADREF", 0, lhs[Done(rhs) + 1]>>
  BY <1>1, <1>4 DEF AtOp
<1>5. CASE Done(rhs) = Len(lhs) /\ Head(code) = FirstOf(rhs)
  BY <1>1, <1>2, <1>5 DEF AtOp, FirstOf
<1>6. CASE Done(rhs) = Len(lhs) + 1 /\ rhs.is = "call" /\ Head(code) = <<"VARCALL">>
  BY <1>1, <1>6 DEF AtOp
<1>7. CASE Done(rhs) = Len(lhs) + EvalLen(rhs) /\ Head(code) = <<"VARSTORE", StoreType(rhs)>>
  BY <1>1, <1>7 DEF AtOp
<1> QED BY <1>3, <1>4, <1>5, <1>6, <1>7 DEF InStatement

StatementAt(op) == \E rhs \in Expressions : Assigning(rhs) /\ AtOp(op, rhs)

LEMMA StatementNow ==
  ASSUME IInv, NEW op, Now(op), op # "POPVAR", op # "PUSHVAR"
  PROVE  StatementAt(op)
<1>1. PICK rhs \in Expressions : Assigning(rhs) /\ InStatement(rhs)
  BY WhereNow
<1> QED BY <1>1, OpAt DEF StatementAt

-----------------------------------------------------------------------------
(* What the machine does to the stack.                                     *)

Sound(c, i) ==
  /\ c.is = "variant" => Leads(c.value, strings, objects, arrays)
  /\ c.is = "ref" /\ c.type # "REF_UNDEFINED" => Exists(c.place, i, objects)
StackSound ==
  \A i \in 1 .. Len(stack') :
    (i <= Len(stack) /\ stack'[i] = stack[i]) \/ Sound(stack[i], i)'

LEMMA StackWritten ==
  ASSUME Lengths, Lengths', HeapGrows, StackLeads, RefsLead, StackSound
  PROVE  StackLeads' /\ RefsLead'
<1>1. /\ DOMAIN stack' = 1 .. Len(stack') /\ DOMAIN stack = 1 .. Len(stack)
      /\ Len(stack) \in Nat /\ Len(stack') \in Nat
  BY DEF Lengths
<1>2. ASSUME NEW i \in 1 .. Len(stack'), i <= Len(stack), stack'[i] = stack[i]
      PROVE  Sound(stack[i], i)'
  <2>1. i \in DOMAIN stack /\ stack[i] \in Cell
    BY <1>1, <1>2 DEF Lengths
  <2>2. ASSUME stack[i].is = "variant" PROVE Leads(stack[i].value, strings', objects', arrays')
    BY <2>1, <2>2, VariantCell, ValuesKept DEF StackLeads
  <2>3. ASSUME stack[i].is = "ref", stack[i].type # "REF_UNDEFINED"
        PROVE  Exists(stack[i].place, i, objects')
    BY <2>1, <2>3, PlacesKept DEF RefsLead
  <2> QED BY <1>2, <2>2, <2>3 DEF Sound
<1>3. \A i \in 1 .. Len(stack') : Sound(stack[i], i)'
  BY <1>2 DEF StackSound
<1> QED BY <1>1, <1>3 DEF Sound, StackLeads, RefsLead

LEMMA StepShapes ==
  ASSUME IInv, code # <<>>, Step, stack' \in Seq(Cell), HeapTyped',
         status' \in Statuses
  PROVE  Shapes' /\ Lengths /\ Lengths'
<1>1. code' = Tail(code) /\ UNCHANGED <<host, declared, lhs>>
  BY DEF Step
<1>2. code \in Seq(Instruction)
  BY DEF IInv, Shapes
<1>3. code' \in Seq(Instruction)
  BY <1>1, <1>2, HeadTailProperties
<1>4. Shapes'
  BY <1>1, <1>3 DEF IInv, Shapes, HeapTyped
<1> QED BY <1>4, KeptLengths

LEMMA MachineKeeps ==
  ASSUME IInv, NEW rhs \in Expressions, Assigning(rhs), code # <<>>, Step, status' = status,
         stack' \in Seq(Cell), HeapTyped', HeapGrows, Lengths' => ObjectsLead' /\ ArraysLead',
         StackSound, NEW k \in Nat, k = Done(rhs), Reached(k + 1, rhs)'
  PROVE  IInv'
<1>1. status' \in Statuses
  BY DEF IInv, Shapes
<1>2. Lengths /\ Lengths'
  BY <1>1, StepShapes
<1>3. StackLeads' /\ RefsLead'
  BY <1>2, StackWritten DEF IInv
<1>4. HostLeads'
  BY <1>2, HostKept DEF IInv, Step
<1> QED BY <1>2, <1>3, <1>4, StepKeeps

LEMMA HaltKeeps ==
  ASSUME IInv, code # <<>>, Step, NEW why, Halt(why),
         why \in {"null pointer", "raw memory", "freed memory", "other memory", "print"}
  PROVE  IInv'
<1>1. status' = why /\ UNCHANGED <<heap, stack, host>>
  BY DEF Halt, Step
<1>2. stack' \in Seq(Cell) /\ HeapTyped'
  BY <1>1 DEF IInv, Shapes, HeapTyped, heap
<1>3. Shapes'
  <2>1. status' \in Statuses
    BY <1>1 DEF Statuses
  <2> QED BY <1>2, <2>1, StepShapes
<1>4. HostLeads' /\ ObjectsLead' /\ ArraysLead' /\ StackLeads' /\ RefsLead'
  BY <1>1, DataKept
<1>5. Progress'
  BY <1>1 DEF Progress
<1> QED BY <1>3, <1>4, <1>5 DEF IInv

LEMMA PoppedProperties ==
  ASSUME IInv, NEW k \in Nat, k <= Len(stack)
  PROVE  /\ Popped(k) \in Seq(Cell) /\ Len(Popped(k)) = Len(stack) - k
         /\ \A i \in 1 .. Len(stack) - k : Popped(k)[i] = stack[i]
<1>1. stack \in Seq(Cell) /\ Len(stack) \in Nat
  BY LengthsKnown DEF IInv, Shapes, Lengths
<1> DEFINE n == Len(stack) - k
<1>2. n \in Nat /\ n <= Len(stack)
  BY <1>1
<1>3. \A i \in 1 .. n : stack[i] \in Cell
  BY <1>1, <1>2, ElementOfSeq
<1>4. Popped(k) = SubSeq(stack, 1, n)
  BY DEF Popped
<1> HIDE DEF n
<1>5. /\ SubSeq(stack, 1, n) \in Seq(Cell)
      /\ Len(SubSeq(stack, 1, n)) = IF 1 <= n THEN n - 1 + 1 ELSE 0
      /\ \A i \in 1 .. n - 1 + 1 : SubSeq(stack, 1, n)[i] = stack[1 + i - 1]
  BY <1>2, <1>3, SubSeqProperties
<1>6. Len(Popped(k)) = n
  BY <1>2, <1>4, <1>5
<1>7. \A i \in 1 .. n : Popped(k)[i] = stack[i]
  BY <1>2, <1>4, <1>5
<1> QED BY <1>4, <1>5, <1>6, <1>7 DEF n

(* Some operands are taken from the stack, and one is put there.           *)
LEMMA Pushed ==
  ASSUME IInv, NEW k \in Nat, k <= Len(stack), NEW c \in Cell, stack' = Append(Popped(k), c)
  PROVE  /\ stack' \in Seq(Cell) /\ Len(stack') = Len(stack) - k + 1
         /\ stack'[Len(stack) - k + 1] = c
         /\ \A i \in 1 .. Len(stack) - k : stack'[i] = stack[i]
<1>1. /\ Popped(k) \in Seq(Cell) /\ Len(Popped(k)) = Len(stack) - k
      /\ \A i \in 1 .. Len(stack) - k : Popped(k)[i] = stack[i]
  BY PoppedProperties
<1> QED BY <1>1, AppendProperties

LEMMA PushedOn ==
  ASSUME IInv, NEW c \in Cell, stack' = Append(stack, c)
  PROVE  /\ stack' \in Seq(Cell) /\ Len(stack') = Len(stack) + 1 /\ Len(stack) \in Nat
         /\ stack'[Len(stack) + 1] = c
         /\ \A i \in 1 .. Len(stack) : stack'[i] = stack[i]
<1>1. stack \in Seq(Cell) /\ Len(stack) \in Nat
  BY LengthsKnown DEF IInv, Shapes, Lengths
<1> QED BY <1>1, AppendProperties

LEMMA HeapAlone ==
  ASSUME IInv, UNCHANGED heap
  PROVE  HeapTyped' /\ HeapGrows /\ (Lengths' => ObjectsLead' /\ ArraysLead')
<1>1. ObjectsLead' /\ ArraysLead'
  BY DEF IInv, ObjectsLead, ArraysLead, heap
<1> QED BY <1>1, HeapUnchanged

LEMMA PushOperandKeeps ==
  ASSUME IInv, PushOperand
  PROVE  IInv'
<1>1. PICK op \in {"LOADK", "NEW"} :
        Now(op) /\ stack' = Append(stack, Slot(IF op = "LOADK" THEN Arg ELSE 0))
  BY DEF PushOperand
<1>2. code # <<>> /\ Step /\ UNCHANGED <<heap, status>> /\ declared' = declared /\ lhs' = lhs
  BY <1>1 DEF PushOperand, Now, Step
<1>3. PICK rhs \in Expressions : Assigning(rhs) /\ AtOp(op, rhs)
  BY <1>1, StatementNow DEF StatementAt
<1> DEFINE n == Len(lhs)
           c == Slot(IF op = "LOADK" THEN Arg ELSE 0)
<1>4. /\ n \in 1 .. 3 /\ declared \in Nat /\ Done(rhs) \in Nat
      /\ EvalLen(rhs) \in {1, 2} /\ (EvalLen(rhs) = 2 <=> rhs.is = "call")
  BY <1>3, AssigningShape
<1>5. PICK k \in Nat : k = Done(rhs)
  BY <1>4
<1>6. k = n /\ rhs.is \in {"int", "new"} /\ (op = "LOADK" => Arg \in Ints)
  BY <1>3, <1>4, <1>5, CompiledExpression DEF AtOp, Evaluates
<1>7. Reached(k, rhs)
  BY <1>3, <1>5 DEF Assigning
<1> HIDE DEF n
<1>8. Variables(declared) /\ Located
  BY <1>6, <1>7 DEF Reached, n
<1>9. c \in Cell /\ c.is = "slot"
  <2>1. (IF op = "LOADK" THEN Arg ELSE 0) \in Int
    <3>1. Ints \subseteq Int
      BY ValuesAssumption
    <3>2. CASE op = "LOADK"
      BY <1>6, <3>1, <3>2
    <3>3. CASE op # "LOADK"
      BY <3>3
    <3> QED BY <3>2, <3>3
  <2> QED BY <2>1 DEF Slot, Cell
<1> HIDE DEF c
<1>10. /\ stack' \in Seq(Cell) /\ Len(stack') = Len(stack) + 1 /\ Len(stack) \in Nat
      /\ stack'[Len(stack) + 1] = c
      /\ \A i \in 1 .. Len(stack) : stack'[i] = stack[i]
  BY <1>1, <1>9, PushedOn DEF c
<1>11. StackSound
  BY <1>9, <1>10 DEF StackSound, Sound
<1>12. Variables(declared)'
  BY <1>2, <1>4, <1>8, <1>10 DEF Variables
<1>13. Evaluated(rhs)'
  BY <1>2, <1>4, <1>6, <1>8, <1>9, <1>10 DEF Located, Evaluated, IsOperand
<1>14. Reached(k + 1, rhs)'
  BY <1>2, <1>4, <1>6, <1>12, <1>13 DEF Reached, n
<1> QED BY <1>2, <1>3, <1>4, <1>10, <1>11, <1>14, <1>5, HeapAlone, MachineKeeps

LEMMA PushVarKeeps ==
  ASSUME IInv, PushVar
  PROVE  IInv'
<1> DEFINE v == IF Arg > Len(stack) THEN Undefined ELSE Assigned(Undefined, stack[Arg].value)
           c == Variant(v)
<1>1. /\ Now("PUSHVAR") /\ code # <<>> /\ Step /\ UNCHANGED <<heap, status>>
      /\ declared' = declared /\ lhs' = lhs /\ code' = Tail(code) /\ host' = host
      /\ stack' = Append(stack, c)
  BY DEF PushVar, Now, Step
<1>2. Lengths
  BY LengthsKnown DEF IInv
<1>3. ASSUME Arg \in 1 .. declared, Variables(declared) \/ (Len(stack) < Arg)
      PROVE  v \in Val /\ Leads(v, strings, objects, arrays)
  <2>1. CASE Arg > Len(stack)
    BY <2>1, UndefinedIsVal
  <2>2. CASE ~(Arg > Len(stack))
    <3>1. Len(stack) \in Nat /\ declared \in Nat /\ DOMAIN stack = 1 .. Len(stack)
      BY <1>2 DEF Lengths
    <3>2. Arg \in DOMAIN stack /\ stack[Arg].is = "variant"
      BY <1>3, <2>2, <3>1 DEF Variables
    <3>3. stack[Arg].value \in Val /\ Leads(stack[Arg].value, strings, objects, arrays)
      BY <1>2, <3>1, <3>2, VariantCell DEF IInv, StackLeads, Lengths
    <3> QED BY <2>2, <3>3, UndefinedIsVal, AssignedLeads
  <2> QED BY <2>1, <2>2
<1> HIDE DEF v
<1>4. ASSUME v \in Val /\ Leads(v, strings, objects, arrays)
      PROVE  /\ stack' \in Seq(Cell) /\ Len(stack') = Len(stack) + 1 /\ Len(stack) \in Nat
             /\ stack'[Len(stack) + 1].is = "variant"
             /\ \A i \in 1 .. Len(stack) : stack'[i] = stack[i]
             /\ StackSound
  <2>1. c \in Cell /\ c.is = "variant" /\ c.value = v
    BY <1>4 DEF Variant, Cell
  <2> HIDE DEF c
  <2>2. /\ stack' \in Seq(Cell) /\ Len(stack') = Len(stack) + 1 /\ Len(stack) \in Nat
        /\ stack'[Len(stack) + 1] = c
        /\ \A i \in 1 .. Len(stack) : stack'[i] = stack[i]
    BY <1>1, <2>1, PushedOn
  <2>3. Leads(v, strings', objects', arrays')
    BY <1>1, <1>4 DEF heap
  <2>4. StackSound
    BY <2>1, <2>2, <2>3 DEF StackSound, Sound
  <2> QED BY <2>1, <2>2, <2>4
<1> HIDE DEF c
<1>5. HeapTyped' /\ HeapGrows /\ (Lengths' => ObjectsLead' /\ ArraysLead')
  BY <1>1, HeapAlone
<1>6. CASE Declaring /\ Arg = 1
  <2>1. /\ declared > 0 /\ lhs = <<declared>> /\ Len(stack) = declared - 1 /\ declared \in Nat
        /\ Variables(declared - 1)
    BY <1>2, <1>6 DEF Declaring, Lengths
  <2>2. v \in Val /\ Leads(v, strings, objects, arrays)
    <3>1. CASE declared = 1
      BY <1>3, <1>6, <2>1, <3>1
    <3>2. CASE declared > 1
      <4>1. 1 \in DOMAIN stack /\ stack[1].is = "variant" /\ ~(Arg > Len(stack)) /\ Arg = 1
        BY <1>2, <1>6, <2>1, <3>2 DEF Variables, Lengths
      <4>2. stack[1].value \in Val /\ Leads(stack[1].value, strings, objects, arrays)
        BY <1>2, <4>1, VariantCell DEF IInv, StackLeads, Lengths
      <4> QED BY <4>1, <4>2, UndefinedIsVal, AssignedLeads DEF v
    <3> QED BY <2>1, <3>1, <3>2
  <2>3. /\ stack' \in Seq(Cell) /\ Len(stack') = Len(stack) + 1 /\ Len(stack) \in Nat
        /\ stack'[Len(stack) + 1].is = "variant"
        /\ \A i \in 1 .. Len(stack) : stack'[i] = stack[i]
        /\ StackSound
    BY <1>4, <2>2
  <2>4. status' \in Statuses
    BY <1>1 DEF IInv, Shapes
  <2>5. Shapes' /\ Lengths'
    BY <1>1, <1>5, <2>3, <2>4, StepShapes
  <2>6. StackLeads' /\ RefsLead' /\ HostLeads'
    BY <1>1, <1>2, <1>5, <2>3, <2>5, StackWritten, HostKept DEF IInv
  <2>7. Len(stack') = declared' /\ Variables(declared)'
    BY <1>1, <2>1, <2>3 DEF Variables
  <2>8. CASE code' = <<>>
    <3>1. Progress'
      BY <2>7, <2>8 DEF Progress
    <3> QED BY <1>5, <2>5, <2>6, <3>1 DEF IInv
  <2>9. CASE code' # <<>>
    <3>1. code \in Seq(Instruction)
      BY DEF IInv, Shapes
    <3>2. Len(code) # 1
      BY <1>1, <2>9, <3>1
    <3>3. PICK rhs \in Expressions : code' = Assignment(rhs)
      BY <1>1, <1>6, <3>2 DEF Declaring
    <3>4. Assignment(rhs)' = Assignment(rhs) /\ rhs \in Expressions' /\ Paths' = Paths
      BY <1>1 DEF Assignment, Expressions, Paths
    <3>5. Done(rhs)' = 0
      <4>1. Len(code') \in Nat
        BY <2>5 DEF Lengths
      <4> QED BY <3>3, <3>4, <4>1 DEF Done
    <3>6. lhs \in Paths
      <4>1. <<>> \in Properties
        <5>1. <<>> \in [1 .. 0 -> Names] /\ 0 \in 0 .. 2
          OBVIOUS
        <5> QED BY <5>1 DEF Properties
      <4>2. declared \in 1 .. declared /\ <<declared>> \in Seq(Nat)
        BY <2>1
      <4>3. <<declared>> \o <<>> = <<declared>>
        BY <4>2, ConcatEmptySeq
      <4>4. <<declared>> \o <<>> \in Paths
        BY <4>1, <4>2 DEF Paths
      <4> QED BY <2>1, <4>3, <4>4
    <3>7. Len(lhs') = 1
      BY <1>1, <2>1
    <3>8. Reached(0, rhs)'
      BY <2>7, <3>7 DEF Reached
    <3>9. Len(code') \in Nat /\ \A i \in DOMAIN code' : code'[i] = Assignment(rhs)[0 + i]
      BY <2>5, <3>3 DEF Lengths
    <3>10. Assigning(rhs)'
      BY <1>1, <3>3, <3>4, <3>5, <3>6, <3>8, <3>9 DEF Assigning
    <3>11. Progress'
      BY <2>9, <3>4, <3>10 DEF Progress
    <3> QED BY <1>5, <2>5, <2>6, <3>11 DEF IInv
  <2> QED BY <2>8, <2>9
<1>7. CASE \E rhs \in Expressions : Assigning(rhs) /\ InStatement(rhs)
  <2>1. PICK rhs \in Expressions : Assigning(rhs) /\ AtOp("PUSHVAR", rhs)
    BY <1>1, <1>7, OpAt
  <2> DEFINE n == Len(lhs)
  <2>2. /\ n \in 1 .. 3 /\ declared \in Nat /\ Done(rhs) \in Nat
        /\ EvalLen(rhs) \in {1, 2} /\ (EvalLen(rhs) = 2 <=> rhs.is = "call")
    BY <2>1, AssigningShape
  <2>3. PICK k \in Nat : k = Done(rhs)
    BY <2>2
  <2>4. k = n /\ rhs.is \in {"var", "call"} /\ Arg \in 1 .. declared
    BY <2>1, <2>2, <2>3, CompiledExpression DEF AtOp, Evaluates
  <2>5. Reached(k, rhs)
    BY <2>1, <2>3 DEF Assigning
  <2> HIDE DEF n
  <2>6. Variables(declared) /\ Located
    BY <2>4, <2>5 DEF Reached, n
  <2>7. /\ stack' \in Seq(Cell) /\ Len(stack') = Len(stack) + 1 /\ Len(stack) \in Nat
        /\ stack'[Len(stack) + 1].is = "variant"
        /\ \A i \in 1 .. Len(stack) : stack'[i] = stack[i]
        /\ StackSound
    BY <1>3, <1>4, <2>4, <2>6
  <2>8. Variables(declared)'
    BY <1>1, <2>2, <2>6, <2>7 DEF Variables
  <2>9. Evaluated(rhs)'
    BY <1>1, <2>2, <2>4, <2>6, <2>7 DEF Located, Evaluated, IsOperand
  <2>10. Reached(k + 1, rhs)'
    BY <1>1, <2>2, <2>4, <2>8, <2>9 DEF Reached, n
  <2> QED BY <1>1, <1>5, <2>1, <2>2, <2>7, <2>10, <2>3, MachineKeeps
<1> QED BY <1>1, <1>6, <1>7, WhereNow

LEMMA PopVarKeeps ==
  ASSUME IInv, PopVar
  PROVE  IInv'
<1>1. /\ Now("POPVAR") /\ code # <<>> /\ Step /\ UNCHANGED <<heap, status>> /\ status = "running"
      /\ declared' = declared /\ code' = Tail(code) /\ host' = host
      /\ stack' = Popped(1)
  BY DEF PopVar, Now, Step, Destroyed, heap
<1>2. Popping
  <2>1. ~(\E rhs \in Expressions : Assigning(rhs) /\ InStatement(rhs))
    BY <1>1, OpAt DEF AtOp
  <2> QED BY <1>1, <2>1, WhereNow
<1>3. Lengths
  BY LengthsKnown DEF IInv
<1>4. code \in Seq(Instruction)
  BY DEF IInv, Shapes
<1>5. /\ Len(code') = Len(code) - 1 /\ \A i \in 1 .. Len(code') : code'[i] = code[i + 1]
      /\ Len(code) \in Nat /\ Len(code) > 0 /\ code' \in Seq(Instruction)
  BY <1>1, <1>3, <1>4, HeadTailProperties DEF Lengths
<1>6. Len(stack) = Len(code) /\ Variables(Len(stack)) /\ declared = 0
  BY <1>2 DEF Popping
<1>7. /\ stack' \in Seq(Cell) /\ Len(stack') = Len(stack) - 1
      /\ \A i \in 1 .. Len(stack) - 1 : stack'[i] = stack[i]
  <2>1. 1 <= Len(stack) /\ 1 \in Nat
    BY <1>5, <1>6
  <2> QED BY <1>1, <2>1, PoppedProperties
<1>8. HeapTyped' /\ HeapGrows /\ (Lengths' => ObjectsLead' /\ ArraysLead')
  BY <1>1, HeapAlone
<1>9. StackSound
  BY <1>5, <1>6, <1>7 DEF StackSound
<1>10. status' \in Statuses
  BY <1>1 DEF IInv, Shapes
<1>11. Shapes' /\ Lengths'
  BY <1>1, <1>7, <1>8, <1>10, StepShapes
<1>12. StackLeads' /\ RefsLead' /\ HostLeads'
  BY <1>1, <1>3, <1>8, <1>9, <1>11, StackWritten, HostKept, SMTT(20) DEF IInv
<1>13. Popping' /\ Variables(declared)'
  <2>1. \A i \in DOMAIN code' : code'[i] = <<"POPVAR">>
    <3>1. \A i \in DOMAIN code' : i \in 1 .. Len(code') /\ i + 1 \in DOMAIN code
      BY <1>4, <1>5
    <3>2. \A i \in DOMAIN code : code[i] = <<"POPVAR">>
      BY <1>2 DEF Popping
    <3> QED BY <1>5, <3>1, <3>2
  <2>2. Variables(Len(stack))'
    BY <1>5, <1>6, <1>7 DEF Variables
  <2>3. Variables(declared)'
    BY <1>1, <1>5, <1>6, <1>7 DEF Variables
  <2> QED BY <1>1, <1>5, <1>6, <1>7, <2>1, <2>2, <2>3 DEF Popping
<1>14. Progress'
  <2>1. CASE code' = <<>>
    <3>1. Len(code') = 0
      BY <1>5, <2>1
    <3>2. Len(stack') = declared'
      BY <1>1, <1>5, <1>6, <1>7, <3>1
    <3> QED BY <1>13, <2>1, <3>2 DEF Progress
  <2>2. CASE code' # <<>>
    BY <1>13, <2>2 DEF Progress
  <2> QED BY <2>1, <2>2
<1> QED BY <1>8, <1>11, <1>12, <1>14 DEF IInv

(* What is on the stack beside the variables where a statement stands.     *)
LEMMA AtPoint ==
  ASSUME IInv, NEW rhs \in Expressions, Assigning(rhs)
  PROVE  /\ Len(lhs) \in 1 .. 3 /\ lhs[1] \in 1 .. declared
         /\ \A k \in 2 .. Len(lhs) : lhs[k] \in Names
         /\ declared \in Nat /\ Len(stack) \in Nat /\ Done(rhs) \in Nat
         /\ EvalLen(rhs) \in {1, 2} /\ (EvalLen(rhs) = 2 <=> rhs.is = "call")
         /\ Reached(Done(rhs), rhs) /\ Variables(declared)
         /\ rhs.is \in {"int", "new", "var", "call"}
         /\ stack \in Seq(Cell) /\ \A i \in 1 .. Len(stack) : stack[i] \in Cell
<1>1. Len(stack) \in Nat /\ \A i \in 1 .. Len(stack) : stack[i] \in Cell
  BY LengthsKnown DEF IInv, Lengths
<1>2. stack \in Seq(Cell)
  BY DEF IInv, Shapes
<1>3. /\ Len(lhs) \in 1 .. 3 /\ lhs[1] \in 1 .. declared
      /\ \A k \in 2 .. Len(lhs) : lhs[k] \in Names
      /\ declared \in Nat /\ Done(rhs) \in Nat
      /\ EvalLen(rhs) \in {1, 2} /\ (EvalLen(rhs) = 2 <=> rhs.is = "call")
  BY AssigningShape
<1>4. rhs.is \in {"int", "new", "var", "call"}
  BY <1>3, CompiledExpression DEF Evaluates
<1>5. Reached(Done(rhs), rhs) /\ Variables(declared)
  BY DEF Assigning, Reached
<1> QED BY <1>1, <1>2, <1>3, <1>4, <1>5

LEMMA ExecVariantCallKeeps ==
  ASSUME IInv, ExecVariantCall
  PROVE  IInv'
<1>1. /\ Now("VARCALL") /\ code # <<>> /\ Step /\ UNCHANGED <<objects, arrays, status>>
      /\ declared' = declared /\ lhs' = lhs
  BY DEF ExecVariantCall, Now, Step
<1>2. PICK rhs \in Expressions : Assigning(rhs) /\ AtOp("VARCALL", rhs)
  BY <1>1, StatementNow DEF StatementAt
<1> DEFINE n == Len(lhs)
<1>3. /\ n \in 1 .. 3 /\ declared \in Nat /\ Len(stack) \in Nat
      /\ Reached(Done(rhs), rhs) /\ Variables(declared)
      /\ EvalLen(rhs) \in {1, 2} /\ (EvalLen(rhs) = 2 <=> rhs.is = "call")
      /\ Done(rhs) \in Nat
  BY <1>2, AtPoint
<1>4. PICK k \in Nat : k = Done(rhs)
  BY <1>3
<1>5. k = n + 1 /\ rhs.is = "call" /\ EvalLen(rhs) = 2
  BY <1>2, <1>3, <1>4 DEF AtOp
<1>6. Evaluated(rhs)
  BY <1>3, <1>4, <1>5 DEF Reached
<1> HIDE DEF n
<1>7. /\ Len(stack) \in {declared + 1, declared + 2} /\ stack[Len(stack)].is = "variant"
      /\ Len(stack) = declared + 2 => stack[declared + 1].is = "ref"
  BY <1>5, <1>6 DEF Evaluated, IsOperand
<1>8. declared <= Len(stack) - 1 /\ \A i \in 1 .. declared : i \in 1 .. Len(stack) - 1
  BY <1>3, <1>7
<1>9. CASE Top(1).value.type = "object"
  <2>1. PICK t \in Texts :
          /\ strings' = Append(strings, NewString(t))
          /\ stack' = Append(Popped(1), Variant(Value("string", Len(strings) + 1)))
    BY <1>9 DEF ExecVariantCall, Destroyed
  <2> DEFINE v == Value("string", Len(strings) + 1)
             c == Variant(v)
  <2>2. strings \in Seq(String) /\ strings' \in Seq(String) /\ Len(strings) \in Nat
        /\ Len(strings') = Len(strings) + 1 /\ HeapTyped' /\ HeapGrows
    <3>1. HeapTyped' /\ HeapGrows
      BY <1>1, <2>1, StringWritten
    <3>2. strings \in Seq(String) /\ strings' \in Seq(String)
      BY <3>1 DEF IInv, Shapes, HeapTyped
    <3> QED BY <2>1, <3>1, <3>2
  <2>3. v \in Val /\ Leads(v, strings', objects', arrays')
    BY <2>1, NewStringLeads
  <2> HIDE DEF v
  <2>4. c \in Cell /\ c.is = "variant" /\ c.value = v
    BY <2>3 DEF Variant, Cell
  <2> HIDE DEF c
  <2>5. stack' = Append(Popped(1), c)
    BY <2>1 DEF c, v
  <2>6. /\ stack' \in Seq(Cell) /\ Len(stack') = Len(stack) /\ stack'[Len(stack)] = c
        /\ \A i \in 1 .. Len(stack) - 1 : stack'[i] = stack[i]
    BY <1>3, <1>7, <2>4, <2>5, Pushed
  <2>7. StackSound
    BY <1>3, <1>7, <2>3, <2>4, <2>6 DEF StackSound, Sound
  <2>8. Lengths' => ObjectsLead' /\ ArraysLead'
    BY <1>1, <2>2, LengthsKnown, ObjectsKept, ArraysKept DEF IInv
  <2>9. Variables(declared)'
    BY <1>1, <1>3, <1>8, <2>6 DEF Variables
  <2>10. Evaluated(rhs)'
    BY <1>1, <1>3, <1>5, <1>7, <2>4, <2>6 DEF Evaluated, IsOperand
  <2>11. Reached(k + 1, rhs)'
    BY <1>1, <1>3, <1>5, <2>9, <2>10 DEF Reached, n
  <2> QED BY <1>1, <1>2, <1>4, <2>2, <2>6, <2>7, <2>8, <2>11, MachineKeeps
<1>10. CASE Top(1).value.type # "object"
  <2>1. stack' = Popped(1) /\ UNCHANGED heap
    BY <1>1, <1>10 DEF ExecVariantCall, heap
  <2>2. /\ stack' \in Seq(Cell) /\ Len(stack') = Len(stack) - 1
        /\ \A i \in 1 .. Len(stack) - 1 : stack'[i] = stack[i]
    <3>1. 1 \in Nat /\ 1 <= Len(stack)
      BY <1>3, <1>7
    <3>2. /\ Popped(1) \in Seq(Cell) /\ Len(Popped(1)) = Len(stack) - 1
          /\ \A i \in 1 .. Len(stack) - 1 : Popped(1)[i] = stack[i]
      BY <3>1, PoppedProperties
    <3> QED BY <2>1, <3>2, Zenon
  <2>3. StackSound
    BY <1>3, <1>7, <2>2 DEF StackSound
  <2>4. Variables(declared)'
    BY <1>1, <1>3, <1>8, <2>2 DEF Variables
  <2>5. Located'
    BY <1>1, <1>3, <1>7, <2>2 DEF Located
  <2>6. Reached(k + 1, rhs)'
    BY <1>1, <1>3, <1>5, <2>4, <2>5 DEF Reached, n
  <2> QED BY <1>1, <1>2, <1>4, <2>1, <2>2, <2>3, <2>6, HeapAlone, MachineKeeps
<1> QED BY <1>9, <1>10

-----------------------------------------------------------------------------
(* References into objects.                                                *)

LEMMA LeastOf ==
  ASSUME NEW S, S \subseteq Nat, S # {}
  PROVE  Min(S) \in S /\ \A y \in S : Min(S) <= y
<1>1. PICK i \in S : \A j \in S : <<j, i>> \notin OpToRel(<, Nat)
  BY NatLessThanWellFounded, WFMin, Zenon
<1>2. \A j \in S : ~ (j < i)
  BY <1>1 DEF OpToRel
<1>3. \A j \in S : i =< j
  BY <1>2
<1>4. \E x \in S : \A y \in S : x =< y
  BY <1>3
<1> QED BY <1>4 DEF Min

(* A lookup ends at the first entry of the name.                           *)
LEMMA FirstEntry ==
  ASSUME NEW props \in Seq(Property), NEW f, NEW i \in 1 .. Len(props), props[i].name = f
  PROVE  /\ getValueRef(props, f) \in 1 .. Len(props)
         /\ props[getValueRef(props, f)].name = f
         /\ \A j \in 1 .. Len(props) : props[j].name = f => getValueRef(props, f) <= j
<1> DEFINE I == {j \in 1 .. Len(props) : props[j].name = f}
<1>1. getValueRef(props, f) = IF I # {} THEN Min(I) ELSE 0
  BY DEF getValueRef, SelectInSeq
<1>2. i \in I /\ I \subseteq Nat
  OBVIOUS
<1>3. Min(I) \in I /\ \A y \in I : Min(I) <= y
  <2> HIDE DEF I
  <2> QED BY <1>2, LeastOf
<1>4. getValueRef(props, f) = Min(I)
  BY <1>1, <1>2
<1> QED BY <1>3, <1>4

LEMMA PlacedValue ==
  ASSUME IInv, NEW i \in 1 .. Len(stack), stack[i].is = "ref", stack[i].type # "REF_UNDEFINED",
         i = declared + 1, Variables(declared)
  PROVE  LET p == stack[i].place
         IN  /\ p[1] \in {"stack", "object"}
             /\ p[1] = "stack" => p[2] \in 1 .. declared
             /\ p[1] = "object" => /\ p[2] \in 1 .. Len(objects)
                                   /\ p[3] \in 1 .. Len(objects[p[2]])
             /\ ValueAt(p) \in Val /\ Leads(ValueAt(p), strings, objects, arrays)
<1> DEFINE p == stack[i].place
<1>1. Lengths
  BY LengthsKnown DEF IInv
<1>2. stack[i] \in Cell /\ i \in DOMAIN stack
  BY <1>1 DEF Lengths
<1>3. p \in Place
  BY <1>2 DEF Cell
<1>4. p[1] \in {"stack", "object"}
  BY <1>3 DEF Place
<1>5. Exists(p, i, objects)
  BY <1>2 DEF IInv, RefsLead
<1> HIDE DEF p
<1>6. CASE p[1] = "stack"
  <2>1. p[2] \in 1 .. declared
    BY <1>1, <1>5, <1>6 DEF Exists, Lengths
  <2>2. stack[p[2]].is = "variant" /\ p[2] \in DOMAIN stack /\ stack[p[2]] \in Cell
    BY <1>1, <2>1, SMTT(20) DEF Variables, Lengths
  <2>3. stack[p[2]].value \in Val /\ Leads(stack[p[2]].value, strings, objects, arrays)
    BY <2>2, VariantCell DEF IInv, StackLeads
  <2> QED BY <1>4, <1>6, <2>1, <2>3 DEF ValueAt, p
<1>7. CASE p[1] = "object"
  <2>1. p[2] \in 1 .. Len(objects) /\ p[3] \in 1 .. Len(objects[p[2]])
    BY <1>1, <1>5, <1>7 DEF Exists, Lengths
  <2>2. objects[p[2]][p[3]].value \in Val
    BY <1>1, <2>1 DEF Lengths, Property
  <2>3. Leads(objects[p[2]][p[3]].value, strings, objects, arrays)
    BY <1>1, <2>1 DEF IInv, ObjectsLead, Lengths
  <2> QED BY <1>4, <1>7, <2>1, <2>2, <2>3 DEF ValueAt, p
<1> QED BY <1>4, <1>6, <1>7

(* A reference takes the place of another, which is on top.                *)
LEMMA RefReplaced ==
  ASSUME IInv, NEW rhs \in Expressions, Assigning(rhs), code # <<>>, Step, status' = status,
         Len(stack) = declared + 1, NEW r \in Cell, r.is = "ref", stack' = Append(Popped(1), r),
         r.type # "REF_UNDEFINED" => Exists(r.place, declared + 1, objects'),
         HeapTyped', HeapGrows, Lengths' => ObjectsLead' /\ ArraysLead',
         NEW k \in Nat, k = Done(rhs), k \in 1 .. Len(lhs) - 1
  PROVE  IInv'
<1>1. /\ Len(lhs) \in 1 .. 3 /\ declared \in Nat /\ Len(stack) \in Nat
      /\ Variables(declared) /\ EvalLen(rhs) \in {1, 2}
  BY AtPoint
<1>2. declared' = declared /\ lhs' = lhs
  BY DEF Step
<1>3. /\ stack' \in Seq(Cell) /\ Len(stack') = Len(stack) /\ stack'[Len(stack)] = r
      /\ \A i \in 1 .. Len(stack) - 1 : stack'[i] = stack[i]
  BY <1>1, Pushed, SMTT(20)
<1>4. StackSound
  <2> SUFFICES ASSUME NEW i \in 1 .. Len(stack')
               PROVE  (i <= Len(stack) /\ stack'[i] = stack[i]) \/ Sound(stack[i], i)'
    BY DEF StackSound
  <2>1. CASE i <= Len(stack) - 1
    BY <1>1, <1>3, <2>1
  <2>2. CASE i = declared + 1
    <3>1. stack'[i] = r
      BY <1>3, <2>2
    <3> QED BY <2>2, <3>1 DEF Sound
  <2> QED BY <1>1, <1>3, <2>1, <2>2
<1>5. Variables(declared)'
  BY <1>1, <1>2, <1>3 DEF Variables
<1>6. Len(stack') = declared' + 1 /\ stack'[declared' + 1].is = "ref"
  BY <1>2, <1>3
<1>7. Located'
  BY <1>6 DEF Located
<1>8. Reached(k + 1, rhs)'
  BY <1>1, <1>2, <1>5, <1>6, <1>7, SMTT(20) DEF Reached
<1> QED BY <1>3, <1>4, <1>8, MachineKeeps

LEMMA makeRefForChildKeeps ==
  ASSUME IInv, NEW rhs \in Expressions, Assigning(rhs), code # <<>>, Step,
         Len(stack) = declared + 1, stack[declared + 1].is = "ref", stack[declared + 1].type = "REF_VALUE",
         NEW f \in Names, makeRefForChild(stack[declared + 1].place, f),
         NEW k \in Nat, k = Done(rhs), k \in 1 .. Len(lhs) - 1
  PROVE  IInv'
<1> DEFINE p == stack[declared + 1].place
           v == ValueAt(p)
           props == objects[v.data]
           ints == {i \in DOMAIN props : props[i].name = f /\ props[i].value.type = "int"}
           grown == Append(props, Entry(f, Undefined))
           ref == Ref("REF_VALUE", <<"object", v.data, getValueRef(grown, f)>>)
           raw == Ref("REF_RAW", <<"object", v.data, Min(ints)>>)
           none == Ref("REF_UNDEFINED", <<>>)
<1>1. Lengths /\ Variables(declared)
  BY LengthsKnown, AtPoint DEF IInv
<1>2. declared + 1 \in 1 .. Len(stack)
  BY <1>1 DEF Lengths
<1>3. v \in Val /\ Leads(v, strings, objects, arrays)
  BY <1>1, <1>2, PlacedValue
<1>4. makeRefForChild(p, f)
  BY ZenonT(40)
<1> HIDE DEF p
<1>5. \/ v.type # "object" /\ stack' = Append(Popped(1), none) /\ UNCHANGED <<heap, status>>
      \/ v.type = "object" /\ ints # {} /\ stack' = Append(Popped(1), raw) /\ UNCHANGED <<heap, status>>
      \/ /\ v.type = "object"
         /\ objects' = [objects EXCEPT ![v.data] = grown]
         /\ stack' = Append(Popped(1), ref)
         /\ UNCHANGED <<strings, arrays, status>>
      \/ Halt("freed memory")
  BY <1>4 DEF makeRefForChild
<1> HIDE DEF v
<1>6. CASE v.type # "object" /\ stack' = Append(Popped(1), none) /\ UNCHANGED <<heap, status>>
  <2>1. none \in Cell /\ none.is = "ref" /\ none.type = "REF_UNDEFINED"
    BY DEF Ref, Cell
  <2> HIDE DEF none
  <2> QED BY <1>6, <2>1, HeapAlone, RefReplaced
<1>7. ASSUME v.type = "object"
      PROVE  /\ v.data \in 1 .. Len(objects) /\ props \in Seq(Property) /\ Len(props) \in Nat
             /\ DOMAIN props = 1 .. Len(props)
  <2>1. v.data \in 1 .. Len(objects)
    BY <1>1, <1>3, <1>7 DEF Leads, Lengths
  <2> QED BY <1>1, <2>1 DEF Lengths
<1>8. CASE v.type = "object" /\ ints # {} /\ stack' = Append(Popped(1), raw) /\ UNCHANGED <<heap, status>>
  <2>1. v.data \in 1 .. Len(objects) /\ Len(props) \in Nat /\ DOMAIN props = 1 .. Len(props)
    BY <1>7, <1>8
  <2>2. ints \subseteq Nat
    BY <2>1
  <2>3. PICK m \in ints : raw = Ref("REF_RAW", <<"object", v.data, m>>)
    <3> HIDE DEF ints
    <3> QED BY <1>8, <2>2, LeastOf
  <2>4. m \in 1 .. Len(props) /\ m \in Nat /\ v.data \in Nat
    BY <2>1, <2>3
  <2>5. raw \in Cell /\ raw.is = "ref" /\ raw.type = "REF_RAW" /\ raw.place = <<"object", v.data, m>>
    <3> HIDE DEF raw
    <3> QED BY <2>3, <2>4 DEF Ref, Cell, Place
  <2> HIDE DEF raw
  <2>6. Exists(raw.place, declared + 1, objects')
    <3> HIDE DEF ints
    <3>1. objects' = objects /\ DOMAIN objects = 1 .. Len(objects)
      BY <1>1, <1>8 DEF Lengths, heap
    <3> QED BY <2>1, <2>4, <2>5, <3>1 DEF Exists
  <2> QED BY <1>8, <2>5, <2>6, HeapAlone, RefReplaced
<1>9. CASE /\ v.type = "object"
           /\ objects' = [objects EXCEPT ![v.data] = grown]
           /\ stack' = Append(Popped(1), ref)
           /\ UNCHANGED <<strings, arrays, status>>
  <2>1. /\ v.data \in 1 .. Len(objects) /\ props \in Seq(Property) /\ Len(props) \in Nat
    BY <1>7, <1>9
  <2>2. /\ grown \in Seq(Property) /\ Len(grown) = Len(props) + 1 /\ grown[Len(props) + 1].name = f
    BY <2>1, UndefinedIsVal, AppendedEntry DEF Entry
  <2>3. strings \in Seq(String) /\ objects \in Seq(Seq(Property)) /\ Len(strings) \in Nat
    BY <1>1 DEF IInv, Shapes, Lengths
  <2>4. Written(objects', Undefined)
    BY <1>1, <1>9, <2>1, <2>3, UndefinedIsVal, EntryAppended
  <2> HIDE DEF props, grown
  <2>5. getValueRef(grown, f) \in 1 .. Len(grown)
    BY <2>1, <2>2, FirstEntry
  <2>6. getValueRef(grown, f) \in Nat /\ v.data \in Nat
    BY <2>1, <2>2, <2>5
  <2>7. ref \in Cell /\ ref.is = "ref" /\ ref.place = <<"object", v.data, getValueRef(grown, f)>>
    BY <2>6 DEF Ref, Cell, Place
  <2> HIDE DEF ref
  <2>8. Exists(ref.place, declared + 1, objects')
    <3>1. objects'[v.data] = grown /\ v.data \in DOMAIN objects'
      BY <1>1, <1>9, <2>1 DEF Lengths
    <3>2. DOMAIN grown = 1 .. Len(grown)
      BY <2>2
    <3> QED BY <2>5, <2>7, <3>1, <3>2 DEF Exists
  <2>9. /\ strings' \in Seq(String) /\ Len(strings') >= Len(strings) /\ arrays' = arrays /\ status' = status
        /\ \A s \in 1 .. Len(strings) : Live(strings[s]) => Live(strings'[s])
    BY <1>9, <2>3
  <2>10. HeapTyped' /\ HeapGrows /\ (Lengths' => ObjectsLead' /\ ArraysLead')
    BY <2>4, <2>9, UndefinedIsVal, ObjectWritten
  <2> QED BY <1>9, <2>7, <2>8, <2>10, RefReplaced
<1>10. CASE Halt("freed memory")
  BY <1>10, HaltKeeps
<1> QED BY <1>5, <1>6, <1>8, <1>9, <1>10

LEMMA DoVarLoadRefKeeps ==
  ASSUME IInv, DoVarLoadRef
  PROVE  IInv'
<1> DEFINE x == Head(code)[3]
           n == Len(lhs)
           first == Ref("REF_VALUE", <<"stack", x>>)
<1>1. /\ Now("VARLOADREF") /\ code # <<>> /\ Step
      /\ \/ Arg = 1 /\ stack' = Append(stack, first) /\ UNCHANGED <<heap, status>>
         \/ Arg = 0 /\ Top(1).type = "REF_VALUE" /\ makeRefForChild(Top(1).place, x)
         \/ Arg = 0 /\ Top(1).type # "REF_VALUE" /\ stack' = Popped(1) /\ UNCHANGED <<heap, status>>
  BY DEF DoVarLoadRef, Now
<1>2. PICK rhs \in Expressions : Assigning(rhs) /\ AtOp("VARLOADREF", rhs)
  BY <1>1, StatementNow DEF StatementAt
<1>3. /\ n \in 1 .. 3 /\ lhs[1] \in 1 .. declared
      /\ \A i \in 2 .. n : lhs[i] \in Names
      /\ declared \in Nat /\ Len(stack) \in Nat /\ Done(rhs) \in Nat
      /\ EvalLen(rhs) \in {1, 2}
      /\ Reached(Done(rhs), rhs) /\ Variables(declared)
  BY <1>2, AtPoint
<1>4. PICK k \in Nat : k = Done(rhs)
  BY <1>3
<1>5. declared' = declared /\ lhs' = lhs
  BY <1>1 DEF Step
<1> HIDE DEF x
<1>6. \/ k = 0 /\ Arg = 1 /\ x = lhs[1]
      \/ k \in 1 .. n - 1 /\ Arg = 0 /\ x = lhs[k + 1]
  BY <1>2, <1>4 DEF AtOp, x
<1>7. CASE k = 0 /\ Arg = 1 /\ x = lhs[1]
  <2>1. stack' = Append(stack, first) /\ UNCHANGED <<heap, status>> /\ Len(stack) = declared
    BY <1>1, <1>3, <1>4, <1>7 DEF Reached
  <2>2. x \in 1 .. declared /\ x \in Nat
    BY <1>3, <1>7
  <2>3. first \in Cell /\ first.is = "ref" /\ first.type = "REF_VALUE" /\ first.place = <<"stack", x>>
    BY <2>2 DEF Ref, Cell, Place
  <2> HIDE DEF first
  <2>4. /\ stack' \in Seq(Cell) /\ Len(stack') = Len(stack) + 1
        /\ stack'[Len(stack) + 1] = first
        /\ \A i \in 1 .. Len(stack) : stack'[i] = stack[i]
    BY <2>1, <2>3, PushedOn
  <2>5. Exists(first.place, declared + 1, objects')
    BY <1>3, <2>2, <2>3 DEF Exists
  <2>6. StackSound
    <3> SUFFICES ASSUME NEW i \in 1 .. Len(stack')
                 PROVE  (i <= Len(stack) /\ stack'[i] = stack[i]) \/ Sound(stack[i], i)'
      BY DEF StackSound
    <3>1. CASE i <= Len(stack)
      BY <1>3, <2>4, <3>1
    <3>2. CASE i = declared + 1
      <4>1. stack'[i] = first
        BY <2>1, <2>4, <3>2
      <4> QED BY <2>3, <2>5, <3>2, <4>1 DEF Sound
    <3> QED BY <1>3, <2>1, <2>4, <3>1, <3>2
  <2>7. Variables(declared)'
    BY <1>3, <1>5, <2>1, <2>4 DEF Variables
  <2>8. Len(stack') = declared' + 1 /\ stack'[declared' + 1].is = "ref"
        /\ stack'[declared' + 1].type = "REF_VALUE"
    BY <1>5, <2>1, <2>3, <2>4
  <2>9. Located'
    BY <2>8 DEF Located
  <2>10. Reached(k + 1, rhs)'
    BY <1>3, <1>5, <1>7, <2>7, <2>8, <2>9 DEF Reached
  <2> QED BY <1>1, <1>2, <1>4, <2>1, <2>4, <2>6, <2>10, HeapAlone, MachineKeeps
<1>8. CASE k \in 1 .. n - 1 /\ Arg = 0 /\ x = lhs[k + 1]
  <2>1. Len(stack) = declared + 1 /\ stack[declared + 1].is = "ref" /\ Top(1) = stack[declared + 1]
    BY <1>3, <1>4, <1>8 DEF Reached, Top
  <2>2. k = 1 => stack[declared + 1].type = "REF_VALUE"
    BY <1>3, <1>4 DEF Reached
  <2>3. x \in Names
    <3>1. k + 1 \in 2 .. n
      BY <1>3, <1>8
    <3> QED BY <1>3, <1>8, <3>1
  <2>4. CASE Top(1).type = "REF_VALUE" /\ makeRefForChild(Top(1).place, x)
    BY <1>1, <1>2, <1>4, <1>8, <2>1, <2>3, <2>4, makeRefForChildKeeps
  <2>5. CASE Top(1).type # "REF_VALUE" /\ stack' = Popped(1) /\ UNCHANGED <<heap, status>>
    <3>1. k = 2 /\ n = 3
      <4>1. k # 1
        BY <2>1, <2>2, <2>5
      <4>2. k \in 1 .. n - 1 /\ n \in 1 .. 3
        BY <1>3, <1>8
      <4> HIDE DEF n
      <4> QED BY <4>1, <4>2
    <3>2. /\ stack' \in Seq(Cell) /\ Len(stack') = Len(stack) - 1
          /\ \A i \in 1 .. Len(stack) - 1 : stack'[i] = stack[i]
      <4>1. 1 \in Nat /\ 1 <= Len(stack)
        BY <1>3, <2>1
      <4> QED BY <2>5, <4>1, PoppedProperties
    <3>3. StackSound
      BY <1>3, <3>2 DEF StackSound
    <3>4. Variables(declared)'
      BY <1>3, <1>5, <2>1, <3>2 DEF Variables
    <3>5. Len(stack') = declared'
      BY <1>3, <1>5, <2>1, <3>2
    <3>6. Located'
      BY <3>5 DEF Located
    <3>7. Reached(k + 1, rhs)'
      BY <1>3, <1>5, <3>1, <3>4, <3>5, <3>6 DEF Reached
    <3> QED BY <1>1, <1>2, <1>4, <2>5, <3>2, <3>3, <3>7, HeapAlone, MachineKeeps
  <2> QED BY <1>1, <1>8, <2>4, <2>5
<1> QED BY <1>6, <1>7, <1>8

(* The store finds its operand and its reference right above the           *)
(* variables, or it finds neither.                                         *)
LEMMA PreparedShape ==
  ASSUME IInv, NEW rhs \in Expressions, Assigning(rhs), AtOp("VARSTORE", rhs), Prepared
  PROVE  /\ Len(stack) = declared + 2 /\ declared \in Nat /\ Variables(declared)
         /\ Top(2) = stack[declared + 1] /\ Top(2).is = "ref" /\ Top(2) \in Cell
         /\ Top(1) \in Cell /\ Top(1).is = IF Arg = "VAR" THEN "variant" ELSE "slot"
         /\ Top(1) = stack[declared + 2]
<1>1. /\ Len(lhs) \in 1 .. 3 /\ declared \in Nat /\ Len(stack) \in Nat /\ Done(rhs) \in Nat
      /\ EvalLen(rhs) \in {1, 2} /\ (EvalLen(rhs) = 2 <=> rhs.is = "call")
      /\ Reached(Done(rhs), rhs) /\ Variables(declared)
      /\ rhs.is \in {"int", "new", "var", "call"}
      /\ \A i \in 1 .. Len(stack) : stack[i] \in Cell
  BY AtPoint
<1>2. Done(rhs) = Len(lhs) + EvalLen(rhs) /\ Arg = StoreType(rhs)
  BY DEF AtOp
<1>3. Arg = "VAR" <=> rhs.is \in {"var", "call"}
  BY <1>1, <1>2 DEF StoreType
<1>4. /\ Len(stack) >= 2 /\ stack[Len(stack)].is = IF Arg = "VAR" THEN "variant" ELSE "slot"
      /\ stack[Len(stack) - 1].is = "ref"
      /\ Top(1) = stack[Len(stack)] /\ Top(2) = stack[Len(stack) - 1]
  BY <1>1 DEF Prepared, Holds, Top
<1>5. \A i \in 1 .. declared : stack[i].is = "variant"
  BY <1>1 DEF Variables
<1>6. Evaluated(rhs) \/ (rhs.is = "call" /\ Located)
  BY <1>1, <1>2 DEF Reached
<1>7. Len(stack) \in {declared, declared + 1, declared + 2}
  BY <1>6 DEF Evaluated, Located
<1>8. Len(stack) # declared
  <2> SUFFICES ASSUME Len(stack) = declared PROVE FALSE
    OBVIOUS
  <2>1. Len(stack) - 1 \in 1 .. declared
    BY <1>1, <1>4
  <2> QED BY <1>4, <1>5, <2>1
<1>9. Len(stack) # declared + 1
  <2> SUFFICES ASSUME Len(stack) = declared + 1 PROVE FALSE
    OBVIOUS
  <2>1. Len(stack) - 1 \in 1 .. declared
    BY <1>1, <1>4
  <2> QED BY <1>4, <1>5, <2>1
<1>10. Len(stack) = declared + 2
  BY <1>7, <1>8, <1>9
<1> QED BY <1>1, <1>4, <1>10

(* A value is written where the reference leads, and both are popped.      *)
LEMMA MadeObjects ==
  ASSUME NEW made \in {<<>>, << <<>> >>}
  PROVE  made \in Seq(Seq(Property)) /\ Len(made) \in Nat /\ \A k \in 1 .. Len(made) : Len(made[k]) = 0
<1>1. <<>> \in Seq(Property) /\ Len(<<>>) = 0
  BY EmptySeq
<1>2. CASE made = <<>>
  BY <1>2, EmptySeq
<1>3. CASE made = << <<>> >>
  BY <1>1, <1>3
<1> QED BY <1>2, <1>3

LEMMA ObjectsExtended ==
  ASSUME Lengths, objects \in Seq(Seq(Property)), NEW os, NEW v, Written(os, v),
         NEW made \in Seq(Seq(Property)), \A k \in 1 .. Len(made) : Len(made[k]) = 0
  PROVE  Written(os \o made, v) /\ Len(os \o made) = Len(os) + Len(made)
<1>1. os \in Seq(Seq(Property)) /\ Len(os) \in Nat /\ Len(os) >= Len(objects) /\ Len(made) \in Nat
  BY DEF Written
<1>2. Len(objects) \in Nat
  BY DEF Lengths
<1> DEFINE all == os \o made
<1>3. /\ all \in Seq(Seq(Property)) /\ Len(all) = Len(os) + Len(made)
      /\ \A o \in 1 .. Len(os) + Len(made) : all[o] = IF o <= Len(os) THEN os[o] ELSE made[o - Len(os)]
  BY <1>1, ConcatProperties
<1> HIDE DEF all
<1>4. \A o \in 1 .. Len(objects) : o \in 1 .. Len(os) /\ all[o] = os[o]
  <2> SUFFICES ASSUME NEW o \in 1 .. Len(objects) PROVE o \in 1 .. Len(os) /\ all[o] = os[o]
    OBVIOUS
  <2>1. o \in 1 .. Len(os) /\ o <= Len(os) /\ o \in 1 .. Len(os) + Len(made)
    BY <1>1, <1>2
  <2> QED BY <1>3, <2>1
<1>5. \A o \in 1 .. Len(objects) : Len(all[o]) >= Len(objects[o])
  BY <1>4 DEF Written
<1>6. ASSUME NEW o \in 1 .. Len(all), NEW i \in 1 .. Len(all[o])
      PROVE  \/ all[o][i].value = v
             \/ /\ o \in 1 .. Len(objects) /\ i \in 1 .. Len(objects[o])
                /\ all[o][i].value = objects[o][i].value
  <2>1. CASE o <= Len(os)
    <3>1. o \in 1 .. Len(os) /\ all[o] = os[o]
      BY <1>1, <1>3, <2>1
    <3> QED BY <3>1 DEF Written
  <2>2. CASE o > Len(os)
    <3>1. o - Len(os) \in 1 .. Len(made) /\ all[o] = made[o - Len(os)]
      BY <1>1, <1>3, <2>2
    <3>2. Len(all[o]) = 0
      BY <3>1
    <3> QED BY <3>2
  <2> QED BY <1>1, <1>3, <2>1, <2>2
<1>7. Written(all, v)
  BY <1>1, <1>2, <1>3, <1>5, <1>6 DEF Written
<1> QED BY <1>3, <1>7 DEF all

LEMMA SameWritten ==
  ASSUME Lengths, objects \in Seq(Seq(Property)), NEW v
  PROVE  Written(objects, v)
BY DEF Lengths, Written

LEMMA EntryReplaced ==
  ASSUME Lengths, objects \in Seq(Seq(Property)), NEW v \in Val,
         NEW d \in 1 .. Len(objects), NEW j \in 1 .. Len(objects[d])
  PROVE  Written([objects EXCEPT ![d][j].value = v], v)
<1> DEFINE e == [objects[d][j] EXCEPT !.value = v]
           b == [objects[d] EXCEPT ![j] = e]
<1>1. objects[d] \in Seq(Property) /\ Len(objects[d]) \in Nat /\ objects[d][j] \in Property
  BY DEF Lengths
<1>2. e \in Property /\ e.value = v
  BY <1>1 DEF Property
<1>3. [objects EXCEPT ![d][j].value = v] = [objects EXCEPT ![d] = b]
  OBVIOUS
<1>4. ASSUME NEW x \in Property, x.value = v
      PROVE  Written([objects EXCEPT ![d] = [objects[d] EXCEPT ![j] = x]], v)
  <2> DEFINE c == [objects[d] EXCEPT ![j] = x]
  <2>1. /\ c \in Seq(Property) /\ Len(c) = Len(objects[d])
        /\ \A i \in 1 .. Len(objects[d]) : c[i] = IF i = j THEN x ELSE objects[d][i]
    BY <1>1, ExceptSeq
  <2> HIDE DEF c
  <2>2. \A i \in 1 .. Len(c) :
          c[i].value = v \/ (i \in 1 .. Len(objects[d]) /\ c[i].value = objects[d][i].value)
    BY <1>4, <2>1
  <2>3. Written([objects EXCEPT ![d] = c], v)
    BY <1>1, <2>1, <2>2, ReplacedWritten, SMTT(20)
  <2> QED BY <2>3 DEF c
<1>5. Written([objects EXCEPT ![d] = b], v)
  <2> HIDE DEF e
  <2> QED BY <1>2, <1>4
<1> QED BY <1>3, <1>5

LEMMA HeapShape ==
  ASSUME IInv
  PROVE  /\ objects \in Seq(Seq(Property)) /\ strings \in Seq(String) /\ Len(strings) \in Nat
         /\ status \in Statuses
<1>1. Shapes
  BY DEF IInv
<1>2. objects \in Seq(Seq(Property)) /\ strings \in Seq(String)
  BY <1>1 DEF Shapes
<1>3. status \in Statuses
  BY <1>1 DEF Shapes
<1>4. Len(strings) \in Nat
  BY <1>2
<1> QED BY <1>2, <1>3, <1>4

LEMMA StoreKeeps ==
  ASSUME IInv, NEW rhs \in Expressions, Assigning(rhs), AtOp("VARSTORE", rhs), Prepared, code # <<>>,
         Step, UNCHANGED <<strings, arrays, status>>,
         NEW r, r = Top(2), r.type # "REF_UNDEFINED",
         NEW made \in Seq(Seq(Property)), \A k \in 1 .. Len(made) : Len(made[k]) = 0,
         NEW v \in Val, Leads(v, strings, objects, arrays) \/ Leads(v, strings', objects', arrays'),
         Write(r.place, v, made)
  PROVE  IInv'
<1> DEFINE n == declared
           p == r.place
<1>1. /\ Len(stack) = n + 2 /\ n \in Nat /\ Variables(n) /\ r = stack[n + 1] /\ r.is = "ref"
  BY PreparedShape
<1>2. Lengths
  BY LengthsKnown DEF IInv
<1>3. n + 1 \in 1 .. Len(stack)
  BY <1>1
<1>4. /\ p[1] \in {"stack", "object"}
      /\ p[1] = "stack" => p[2] \in 1 .. n
      /\ p[1] = "object" => p[2] \in 1 .. Len(objects) /\ p[3] \in 1 .. Len(objects[p[2]])
  BY <1>1, <1>3, PlacedValue
<1>5. Write(p, v, made)
  OBVIOUS
<1> HIDE DEF p
<1>6. /\ Popped(2) \in Seq(Cell) /\ Len(Popped(2)) = n
      /\ \A i \in 1 .. n : Popped(2)[i] = stack[i]
  <2>1. 2 \in Nat /\ 2 <= Len(stack) /\ Len(stack) - 2 = n
    BY <1>1
  <2>2. /\ Popped(2) \in Seq(Cell) /\ Len(Popped(2)) = Len(stack) - 2
        /\ \A i \in 1 .. Len(stack) - 2 : Popped(2)[i] = stack[i]
    BY <2>1, PoppedProperties
  <2> QED BY <2>1, <2>2
<1>7. /\ objects \in Seq(Seq(Property)) /\ strings \in Seq(String) /\ Len(strings) \in Nat
      /\ status \in Statuses
  BY HeapShape
<1>8. Written(objects', v)
  <2>1. CASE p[1] = "stack"
    <3>1. objects' = objects \o made
      BY <1>5, <2>1 DEF Write
    <3> QED BY <1>2, <1>7, <3>1, SameWritten, ObjectsExtended
  <2>2. CASE p[1] = "object"
    <3>1. objects' = [objects EXCEPT ![p[2]][p[3]].value = v] \o made
      BY <1>5, <2>2 DEF Write
    <3>2. PICK os : os = [objects EXCEPT ![p[2]][p[3]].value = v]
      OBVIOUS
    <3>3. Written(os, v)
      BY <1>2, <1>4, <1>7, <2>2, <3>2, EntryReplaced
    <3>4. Written(os \o made, v)
      BY <1>2, <1>7, <3>3, ObjectsExtended
    <3> QED BY <3>1, <3>2, <3>4
  <2> QED BY <1>4, <2>1, <2>2
<1>9. strings' \in Seq(String) /\ Len(strings') >= Len(strings) /\ arrays' = arrays /\ status' = status
  BY <1>7
<1>10. HeapTyped' /\ HeapGrows /\ (Lengths' => ObjectsLead' /\ ArraysLead')
  BY <1>8, <1>9, ObjectWritten
<1>11. /\ stack' \in Seq(Cell) /\ Len(stack') = n
       /\ \A i \in 1 .. n : stack'[i] = stack[i]
                            \/ (i = p[2] /\ stack'[i].is = "variant" /\ stack'[i].value = v)
  <2>1. CASE p[1] = "stack"
    <3> DEFINE c == [stack[p[2]] EXCEPT !.value = v]
    <3>1. p[2] \in 1 .. n /\ p[2] \in 1 .. Len(stack)
      BY <1>1, <1>4, <2>1
    <3>2. stack[p[2]] \in Cell /\ stack[p[2]].is = "variant"
      BY <1>1, <1>2, <3>1 DEF Variables, Lengths
    <3>3. c \in Cell /\ c.is = "variant" /\ c.value = v
      <4>1. stack[p[2]] \in [is : {"variant"}, value : Val]
        BY <3>2 DEF Cell
      <4> QED BY <4>1 DEF Cell
    <3>4. stack' = [Popped(2) EXCEPT ![p[2]] = c]
      BY <1>5, <1>6, <2>1, <3>1 DEF Write
    <3> HIDE DEF c
    <3>5. /\ stack' \in Seq(Cell) /\ Len(stack') = n
          /\ \A i \in 1 .. n : stack'[i] = IF i = p[2] THEN c ELSE Popped(2)[i]
      BY <1>6, <3>1, <3>3, <3>4, ExceptSeq
    <3>6. ASSUME NEW i \in 1 .. n
          PROVE  stack'[i] = stack[i]
                 \/ (i = p[2] /\ stack'[i].is = "variant" /\ stack'[i].value = v)
      <4>1. CASE i = p[2]
        BY <3>3, <3>5, <4>1
      <4>2. CASE i # p[2]
        BY <1>6, <3>5, <4>2
      <4> QED BY <4>1, <4>2
    <3>7. stack' \in Seq(Cell) /\ Len(stack') = n
      BY <3>5
    <3> QED BY <3>6, <3>7
  <2>2. CASE p[1] = "object"
    <3>1. stack' = Popped(2)
      BY <1>5, <2>2 DEF Write
    <3> QED BY <1>6, <3>1
  <2> QED BY <1>4, <2>1, <2>2
<1>12. StackSound
  <2> SUFFICES ASSUME NEW i \in 1 .. Len(stack')
               PROVE  (i <= Len(stack) /\ stack'[i] = stack[i]) \/ Sound(stack[i], i)'
    BY DEF StackSound
  <2>1. i \in 1 .. n /\ i <= Len(stack)
    BY <1>1, <1>11
  <2>2. CASE stack'[i].is = "variant" /\ stack'[i].value = v
    <3>1. Leads(v, strings', objects', arrays')
      <4>1. Shapes' /\ Lengths'
        <5>1. status' \in Statuses
          BY <1>7, <1>9
        <5> QED BY <1>10, <1>11, <5>1, StepShapes
      <4> QED BY <1>2, <1>10, <4>1, ValuesKept
    <3> QED BY <2>2, <3>1 DEF Sound
  <2> QED BY <1>11, <2>1, <2>2
<1>13. declared' = declared /\ lhs' = lhs
  BY DEF Step
<1>14. Variables(declared)'
  BY <1>1, <1>11, <1>13 DEF Variables
<1>15. PICK k \in Nat : k = Done(rhs)
  BY AtPoint
<1>16. /\ Len(lhs) \in 1 .. 3 /\ EvalLen(rhs) \in {1, 2} /\ (EvalLen(rhs) = 2 <=> rhs.is = "call")
       /\ k = Len(lhs) + EvalLen(rhs)
  BY <1>15, AtPoint DEF AtOp
<1>17. Len(stack') = declared'
  BY <1>11, <1>13
<1>18. Reached(k + 1, rhs)'
  BY <1>13, <1>14, <1>16, <1>17 DEF Reached
<1> QED BY <1>9, <1>10, <1>11, <1>12, <1>15, <1>18, MachineKeeps

LEMMA DoVarStoreKeeps ==
  ASSUME IInv, DoVarStore
  PROVE  IInv'
<1> DEFINE r == Top(2)
<1>1. Now("VARSTORE") /\ code # <<>> /\ Step
  BY DEF DoVarStore, Now
<1>2. PICK rhs \in Expressions : Assigning(rhs) /\ AtOp("VARSTORE", rhs)
  BY <1>1, StatementNow DEF StatementAt
<1>3. <<>> \in Seq(Seq(Property)) /\ \A k \in 1 .. Len(<<>>) : Len(<<>>[k]) = 0
  BY MadeObjects
<1>4. << <<>> >> \in Seq(Seq(Property)) /\ \A k \in 1 .. Len(<< <<>> >>) : Len(<< <<>> >>[k]) = 0
  BY MadeObjects
<1>5. ASSUME Prepared
      PROVE  /\ Len(stack) = declared + 2 /\ declared \in Nat /\ Variables(declared)
             /\ r = stack[declared + 1] /\ r.is = "ref" /\ Top(1) \in Cell
             /\ Top(1).is = IF Arg = "VAR" THEN "variant" ELSE "slot"
             /\ Top(1) = stack[declared + 2]
  BY <1>2, <1>5, PreparedShape
<1>6. CASE Prepared /\ Arg = "VAR" /\ StoreVar(r, Top(1).value)
  <2> DEFINE v == Top(1).value
             w == Assigned(ValueAt(r.place), v)
  <2>1. v \in Val /\ Leads(v, strings, objects, arrays)
    <3>1. declared + 2 \in DOMAIN stack
      BY <1>5, <1>6, LengthsKnown DEF IInv, Lengths
    <3> QED BY <1>5, <1>6, <3>1, VariantCell DEF IInv, StackLeads
  <2>2. CASE /\ r.type = "REF_VALUE" /\ Write(r.place, w, <<>>)
             /\ strings' = strings /\ UNCHANGED <<arrays, status>>
    <3>1. declared + 1 \in 1 .. Len(stack)
      BY <1>5, <1>6
    <3>2. ValueAt(r.place) \in Val
      BY <1>5, <1>6, <2>2, <3>1, PlacedValue
    <3>3. w \in Val /\ Leads(w, strings, objects, arrays)
      BY <2>1, <3>2, AssignedLeads
    <3> HIDE DEF w, r
    <3>4. r = Top(2)
      BY DEF r
    <3> QED BY <1>1, <1>2, <1>3, <1>6, <2>2, <3>3, <3>4, StoreKeeps
  <2>3. CASE Halt("raw memory") \/ Halt("null pointer")
    BY <1>1, <2>3, HaltKeeps
  <2> QED BY <1>6, <2>2, <2>3 DEF StoreVar, Destroyed
<1>7. CASE Prepared /\ Arg = "INT" /\ StoreInt(r, Top(1).word)
  <2> DEFINE w == Value("int", Top(1).word)
  <2>1. Top(1).word \in Int
    <3>1. Top(1) \in Cell /\ Top(1).is = "slot"
      BY <1>5, <1>7
    <3> QED BY <3>1 DEF Cell
  <2>2. w \in Val /\ Leads(w, strings, objects, arrays)
    BY <2>1, ValueParts DEF Kinds, Leads, Overlaid
  <2>3. r.type # "REF_UNDEFINED" /\ Write(r.place, w, <<>>) /\ UNCHANGED <<strings, arrays, status>>
    BY <1>7 DEF StoreInt
  <2> HIDE DEF w, r
  <2>4. r = Top(2)
    BY DEF r
  <2> QED BY <1>1, <1>2, <1>3, <1>7, <2>2, <2>3, <2>4, StoreKeeps
<1>8. CASE Prepared /\ Arg = "OBJECT" /\ StoreObject(r)
  <2> DEFINE w == Value("object", Len(objects) + 1)
  <2>1. /\ r.type = "REF_VALUE" /\ Write(r.place, w, << <<>> >>) /\ UNCHANGED <<strings, arrays, status>>
    BY <1>8 DEF StoreObject
  <2>2. w \in Val /\ w.type = "object" /\ w.data = Len(objects) + 1
    BY LengthsKnown DEF IInv, Lengths, Value, Val, Kinds
  <2>3. Len(objects') = Len(objects) + 1 /\ objects' \in Seq(Seq(Property))
    <3>1. declared + 1 \in 1 .. Len(stack)
      BY <1>5, <1>8
    <3> DEFINE p == r.place
    <3>2. p[1] = "object" => p[2] \in 1 .. Len(objects) /\ p[3] \in 1 .. Len(objects[p[2]])
      BY <1>5, <1>8, <2>1, <3>1, PlacedValue
    <3>3. Lengths /\ objects \in Seq(Seq(Property))
      BY LengthsKnown, HeapShape DEF IInv
    <3>4. PICK os : Len(os) = Len(objects) /\ os \in Seq(Seq(Property)) /\ objects' = os \o << <<>> >>
      <4>1. CASE p[1] = "stack"
        BY <2>1, <3>3, <4>1 DEF Write
      <4>2. CASE p[1] # "stack"
        <5>1. p[1] = "object"
          BY <1>5, <1>8, <2>1, <3>1, <4>2, PlacedValue
        <5>2. Written([objects EXCEPT ![p[2]][p[3]].value = w], w)
          BY <2>2, <3>2, <3>3, <5>1, EntryReplaced
        <5>3. Len([objects EXCEPT ![p[2]][p[3]].value = w]) = Len(objects)
          BY <3>3
        <5>4. objects' = [objects EXCEPT ![p[2]][p[3]].value = w] \o << <<>> >>
          BY <2>1, <4>2 DEF Write
        <5> QED BY <5>2, <5>3, <5>4 DEF Written
      <4> QED BY <4>1, <4>2
    <3>5. << <<>> >> \in Seq(Seq(Property)) /\ Len(<< <<>> >>) = 1
      BY <1>4
    <3> QED BY <3>4, <3>5, ConcatProperties
  <2>4. Leads(w, strings', objects', arrays')
    <3>1. Len(objects) \in Nat
      BY LengthsKnown DEF IInv, Lengths
    <3>2. w.data \in DOMAIN objects'
      BY <2>2, <2>3, <3>1
    <3> QED BY <2>2, <3>2 DEF Leads, Overlaid
  <2> HIDE DEF w, r
  <2>5. r = Top(2)
    BY DEF r
  <2> QED BY <1>1, <1>2, <1>4, <1>8, <2>1, <2>2, <2>4, <2>5, StoreKeeps
<1>9. CASE Prepared /\ stack' = Popped(2) /\ UNCHANGED <<heap, status>>
  <2>1. /\ stack' \in Seq(Cell) /\ Len(stack') = declared
        /\ \A i \in 1 .. declared : stack'[i] = stack[i]
    <3>1. 2 <= Len(stack) /\ 2 \in Nat /\ Len(stack) - 2 = declared
      BY <1>5, <1>9
    <3> QED BY <1>9, <3>1, PoppedProperties
  <2>2. StackSound
    BY <1>5, <1>9, <2>1 DEF StackSound
  <2>3. declared' = declared /\ lhs' = lhs
    BY <1>1 DEF Step
  <2>4. Variables(declared)'
    BY <1>5, <1>9, <2>1, <2>3 DEF Variables
  <2>5. PICK k \in Nat : k = Done(rhs)
    BY <1>2, AtPoint
  <2>6. /\ Len(lhs) \in 1 .. 3 /\ EvalLen(rhs) \in {1, 2} /\ (EvalLen(rhs) = 2 <=> rhs.is = "call")
        /\ k = Len(lhs) + EvalLen(rhs)
    BY <1>2, <2>5, AtPoint DEF AtOp
  <2>7. Reached(k + 1, rhs)'
    BY <2>1, <2>3, <2>4, <2>6 DEF Reached
  <2> QED BY <1>1, <1>2, <1>9, <2>1, <2>2, <2>5, <2>7, HeapAlone, MachineKeeps
<1>10. CASE Halt("other memory")
  BY <1>1, <1>10, HaltKeeps
<1> QED BY <1>6, <1>7, <1>8, <1>9, <1>10 DEF DoVarStore

LEMMA ScriptStepKeeps == ASSUME IInv, ScriptStep PROVE IInv'
BY PushOperandKeeps, PushVarKeeps, PopVarKeeps, DoVarLoadRefKeeps, DoVarStoreKeeps,
   ExecVariantCallKeeps DEF ScriptStep

-----------------------------------------------------------------------------
(* The invariant, and what follows from it.                                *)

LEMMA Starts == Init => IInv
<1> SUFFICES ASSUME Init PROVE IInv
  OBVIOUS
<1>1. MaxLocals \in Nat
  BY ValuesAssumption
<1>2. declared \in 0 .. MaxLocals
  BY <1>1 DEF Init
<1>3. /\ strings \in Seq(String) /\ objects \in Seq(Seq(Property)) /\ arrays \in Seq(Seq(Val))
      /\ stack \in Seq(Cell) /\ code \in Seq(Instruction) /\ status \in Statuses
  BY EmptySeq DEF Init, Statuses
<1>4. host \in [Hosts -> Val] /\ HostLeads
  BY UndefinedIsVal DEF Init, HostLeads
<1>5. DOMAIN objects = {} /\ DOMAIN arrays = {} /\ DOMAIN stack = {} /\ Len(stack) = 0
  BY DEF Init
<1>6. ObjectsLead /\ ArraysLead /\ StackLeads /\ RefsLead
  BY <1>5 DEF ObjectsLead, ArraysLead, StackLeads, RefsLead
<1>7. Progress
  BY <1>5 DEF Init, Progress, Variables
<1> QED BY <1>2, <1>3, <1>4, <1>6, <1>7 DEF IInv, Shapes

LEMMA Proceeds == IInv /\ [Next]_vars => IInv'
<1> SUFFICES ASSUME IInv, [Next]_vars PROVE IInv'
  OBVIOUS
<1>1. CASE HostStep
  BY <1>1, HostStepKeeps
<1>2. CASE \E init \in {NoInit} \cup Expressions : Declare(init)
  BY <1>2, DeclareKeeps
<1>3. CASE \E path \in Paths, rhs \in Expressions : Statement(path, rhs)
  BY <1>3, StatementKeeps
<1>4. CASE EndFunction
  BY <1>4, EndFunctionKeeps
<1>5. CASE ScriptStep
  BY <1>5, ScriptStepKeeps
<1>6. CASE UNCHANGED vars
  <2>1. UNCHANGED <<host, heap, stack, declared, code, lhs, status>>
    BY <1>6 DEF vars, heap
  <2>2. Shapes'
    BY <2>1 DEF IInv, Shapes, heap
  <2>3. HostLeads' /\ ObjectsLead' /\ ArraysLead' /\ StackLeads' /\ RefsLead'
    BY <2>1, DataKept
  <2>4. Progress'
    <3>1. \A rhs : Assigning(rhs)' = Assigning(rhs)
      BY <2>1 DEF Assigning, Assignment, Done, Reached, Located, Evaluated, IsOperand, Variables, Paths
    <3>2. Popping' = Popping /\ Declaring' = Declaring /\ Expressions' = Expressions
      BY <2>1 DEF Popping, Declaring, Variables, Assignment, Expressions
    <3>3. Progress' = Progress
      BY <2>1, <3>1, <3>2 DEF Progress, Variables
    <3> QED BY <3>3 DEF IInv
  <2> QED BY <2>2, <2>3, <2>4 DEF IInv
<1> QED BY <1>1, <1>2, <1>3, <1>4, <1>5, <1>6 DEF Next

(* Between any two steps of the host and the script, every value has the   *)
(* payload of its kind and leads to a cell that is there; every reference  *)
(* on the stack leads to a variable below it or to an entry; and a         *)
(* statement that is under way has on the stack what it has put there so   *)
(* far: its variables, then at most a reference and an operand.            *)
THEOREM Invariance == Spec => []IInv
BY Starts, Proceeds, PTL DEF Spec

LEMMA ReachableLeads ==
  ASSUME IInv, NEW v \in Reachable
  PROVE  v \in Val /\ Leads(v, strings, objects, arrays)
<1> DEFINE Hosted == {host[h] : h \in Hosts}
           Items == UNION {Range(a) : a \in Range(arrays)}
           Entries == {e.value : e \in UNION {Range(o) : o \in Range(objects)}}
           Locals == {stack[i].value : i \in {k \in DOMAIN stack : stack[k].is = "variant"}}
<1>1. Lengths
  BY LengthsKnown DEF IInv
<1>2. CASE v \in Hosted
  BY <1>2 DEF IInv, Shapes, HostLeads
<1>3. CASE v \in Items
  <2>1. PICK a \in 1 .. Len(arrays) : \E i \in DOMAIN arrays[a] : v = arrays[a][i]
    BY <1>1, <1>3 DEF Range, Lengths
  <2>2. PICK i \in DOMAIN arrays[a] : v = arrays[a][i]
    BY <2>1
  <2>3. arrays[a][i] \in Val /\ a \in DOMAIN arrays
    BY <1>1, <2>1, <2>2 DEF Lengths
  <2>4. Leads(arrays[a][i], strings, objects, arrays)
    BY <2>2, <2>3 DEF IInv, ArraysLead
  <2> QED BY <2>2, <2>3, <2>4
<1>4. CASE v \in Entries
  <2>1. PICK o \in 1 .. Len(objects) : \E i \in DOMAIN objects[o] : v = objects[o][i].value
    BY <1>1, <1>4 DEF Range, Lengths
  <2>2. PICK i \in DOMAIN objects[o] : v = objects[o][i].value
    BY <2>1
  <2>3. objects[o][i].value \in Val
    BY <1>1, <2>1, <2>2 DEF Lengths, Property
  <2>4. o \in DOMAIN objects
    BY <1>1, <2>1 DEF Lengths
  <2>5. Leads(objects[o][i].value, strings, objects, arrays)
    BY <2>2, <2>4 DEF IInv, ObjectsLead
  <2> QED BY <2>2, <2>3, <2>5
<1>5. CASE v \in Locals
  <2>1. PICK i \in DOMAIN stack : stack[i].is = "variant" /\ v = stack[i].value
    BY <1>5
  <2>2. stack[i] \in Cell
    BY <1>1, <2>1 DEF Lengths
  <2> QED BY <2>1, <2>2, VariantCell DEF IInv, StackLeads
<1>6. v \in Hosted \cup Items \cup Entries \cup Locals
  <2>1. Reachable = Hosted \cup Items \cup Entries \cup Locals
    BY Zenon DEF Reachable
  <2> HIDE DEF Hosted, Items, Entries, Locals
  <2> QED BY <2>1
<1> HIDE DEF Hosted, Items, Entries, Locals
<1> QED BY <1>2, <1>3, <1>4, <1>5, <1>6

LEMMA LeadsAreTyped == IInv => TypeOK
<1> SUFFICES ASSUME IInv PROVE TypeOK
  OBVIOUS
<1>1. \A v \in Reachable : WellTyped(v)
  <2> SUFFICES ASSUME NEW v \in Reachable PROVE WellTyped(v)
    OBVIOUS
  <2>1. Lengths /\ v \in Val /\ Leads(v, strings, objects, arrays)
    BY ReachableLeads, LengthsKnown DEF IInv
  <2>2. v.type \in Kinds /\ v.data \in Int
    BY <2>1 DEF Val
  <2>3. CASE v.type \in Overlaid
    <3>1. v.data = Bits
      BY <2>1, <2>3 DEF Leads
    <3>2. CASE v.type = "realstring"
      BY <3>1, <3>2 DEF WellTyped, Overlaid
    <3>3. CASE v.type = "realobject"
      BY <3>1, <3>3 DEF WellTyped, Overlaid
    <3>4. CASE v.type = "realarray"
      BY <3>1, <3>4 DEF WellTyped, Overlaid
    <3> QED BY <2>3, <3>2, <3>3, <3>4 DEF Overlaid
  <2>4. CASE v.type = "string"
    <3>1. v.data \in 0 .. Len(strings)
      BY <2>1, <2>4 DEF Leads, Lengths
    <3> QED BY <2>4, <3>1 DEF WellTyped, Overlaid
  <2>5. CASE v.type = "object"
    <3>1. v.data \in DOMAIN objects
      BY <2>1, <2>5 DEF Leads
    <3> QED BY <2>5, <3>1 DEF WellTyped, Overlaid
  <2>6. CASE v.type = "array"
    <3>1. v.data \in DOMAIN arrays
      BY <2>1, <2>6 DEF Leads
    <3> QED BY <2>6, <3>1 DEF WellTyped, Overlaid
  <2>7. CASE v.type \in {"undefined", "int", "prototype", "function"}
    BY <2>2, <2>7 DEF WellTyped, Overlaid
  <2> QED BY <2>2, <2>3, <2>4, <2>5, <2>6, <2>7 DEF Kinds
<1>2. \A i \in DOMAIN stack : stack[i].is = "ref" /\ stack[i].type # "REF_UNDEFINED" =>
        LET p == stack[i].place
        IN IF p[1] = "stack" THEN p[2] \in 1 .. i - 1 ELSE p[3] \in DOMAIN objects[p[2]]
  BY DEF IInv, RefsLead, Exists
<1>3. declared \in 0 .. MaxLocals
  BY DEF IInv, Shapes
<1>4. status \in {"running", "null pointer", "raw memory", "freed memory", "other memory", "print"}
  BY DEF IInv, Shapes, Statuses
<1> QED BY <1>1, <1>2, <1>3, <1>4 DEF TypeOK

(* Type correctness: wherever a value was copied to, its payload is of its *)
(* kind and its string, object or array is there, save where a real was    *)
(* assigned over a pointer.                                                *)
THEOREM TypeCorrect == Spec => []TypeOK
BY Invariance, LeadsAreTyped, PTL

LEMMA StringsAlive == IInv => StringsLive
<1> SUFFICES ASSUME IInv, NEW v \in Reachable, v.type = "string", v.data # 0
             PROVE  Live(strings[v.data])
  BY DEF StringsLive, Live
<1>1. v \in Val /\ Leads(v, strings, objects, arrays)
  BY ReachableLeads
<1> QED BY <1>1 DEF Leads

(* A value leads to a deleted string only if a host released the string    *)
(* while some other value had it: nothing else deletes, and the payload    *)
(* that is left in a released value is never taken for a string.           *)
THEOREM StringsStayLive == Spec => []StringsLive
BY Invariance, StringsAlive, PTL

LEMMA RestIsBalanced == IInv => StackBalanced
<1> SUFFICES ASSUME IInv, AtRest
             PROVE  Len(stack) = declared /\ \A i \in DOMAIN stack : stack[i].is = "variant"
  BY DEF StackBalanced
<1>1. Len(stack) = declared /\ Variables(declared)
  BY RestsWith
<1>2. DOMAIN stack = 1 .. Len(stack)
  BY LengthsKnown DEF IInv, Lengths
<1> QED BY <1>1, <1>2 DEF Variables

(* Whatever is declared and assigned, to a variable or through one or two  *)
(* properties, the stack holds the variables and nothing else when the     *)
(* statement is through.                                                   *)
THEOREM StatementsBalance == Spec => []StackBalanced
BY Invariance, RestIsBalanced, PTL

-----------------------------------------------------------------------------
(* What a program reads of a stack st and of objects os.                   *)

Known(v) == IF v.type = "undefined" THEN Undefined ELSE v
Prop(props, f) == IF getValueRef(props, f) # 0 THEN props[getValueRef(props, f)].value ELSE Undefined
ReadIn(p, st, os) ==
  IF p[1] = "stack" THEN IF p[2] \in DOMAIN st THEN Known(st[p[2]].value) ELSE Undefined
  ELSE Known(Prop(os[p[2]], p[3]))
ReadableIn(n, os) ==
  {<<"stack", x>> : x \in 1 .. n} \cup {<<"object", o, f>> : o \in DOMAIN os, f \in Names}

LEMMA ReadsNow ==
  ASSUME NEW p
  PROVE  /\ Reads(p) = ReadIn(p, stack, objects)
         /\ Reads(p)' = ReadIn(p, stack', objects')
BY DEF Reads, ReadIn, Known, Prop, property, Value, Undefined

(* A lookup finds the first entry of the name, or none.                    *)
LEMMA Lookup ==
  ASSUME NEW props \in Seq(Property), NEW f
  PROVE  /\ getValueRef(props, f) \in 0 .. Len(props)
         /\ getValueRef(props, f) = 0 => \A i \in 1 .. Len(props) : props[i].name # f
         /\ getValueRef(props, f) # 0 =>
              /\ props[getValueRef(props, f)].name = f
              /\ \A j \in 1 .. Len(props) : props[j].name = f => getValueRef(props, f) <= j
<1>1. CASE \E i \in 1 .. Len(props) : props[i].name = f
  BY <1>1, FirstEntry
<1>2. CASE ~\E i \in 1 .. Len(props) : props[i].name = f
  <2> DEFINE I == {j \in 1 .. Len(props) : props[j].name = f}
  <2>1. I = {}
    BY <1>2
  <2>2. getValueRef(props, f) = IF I # {} THEN Min(I) ELSE 0
    BY DEF getValueRef, SelectInSeq
  <2>3. Len(props) \in Nat
    OBVIOUS
  <2> QED BY <1>2, <2>1, <2>2, <2>3
<1> QED BY <1>1, <1>2

LEMMA LookupIs ==
  ASSUME NEW props \in Seq(Property), NEW i \in 1 .. Len(props),
         \A j \in 1 .. i - 1 : props[j].name # props[i].name
  PROVE  getValueRef(props, props[i].name) = i
<1> DEFINE m == getValueRef(props, props[i].name)
<1>1. m \in 1 .. Len(props) /\ props[m].name = props[i].name /\ m <= i
  BY FirstEntry
<1> HIDE DEF m
<1>2. m \notin 1 .. i - 1
  BY <1>1
<1>3. m = i
  BY <1>1, <1>2
<1> QED BY <1>3 DEF m

(* An undefined entry at the end reads as if it were not there.            *)
LEMMA AppendReads ==
  ASSUME NEW props \in Seq(Property), NEW f \in Names, NEW g,
         NEW more, more = Append(props, Entry(f, Undefined))
  PROVE  /\ Known(Prop(more, g)) = Known(Prop(props, g))
         /\ getValueRef(props, g) # 0 => getValueRef(more, g) = getValueRef(props, g)
<1>1. /\ more \in Seq(Property) /\ Len(more) = Len(props) + 1
      /\ more[Len(props) + 1] = Entry(f, Undefined)
      /\ \A i \in 1 .. Len(props) : more[i] = props[i]
  BY AppendedEntry, UndefinedIsVal
<1>2. PICK m, n : m = getValueRef(props, g) /\ n = getValueRef(more, g)
  OBVIOUS
<1>3. Len(props) \in Nat
  OBVIOUS
<1>4. /\ m \in 0 .. Len(props)
      /\ m = 0 => \A i \in 1 .. Len(props) : props[i].name # g
      /\ m # 0 => /\ props[m].name = g
                  /\ \A j \in 1 .. Len(props) : props[j].name = g => m <= j
  BY <1>2, Lookup
<1>5. /\ n \in 0 .. Len(more)
      /\ n = 0 => \A i \in 1 .. Len(more) : more[i].name # g
      /\ n # 0 => /\ more[n].name = g
                  /\ \A j \in 1 .. Len(more) : more[j].name = g => n <= j
  <2>1. more \in Seq(Property)
    BY <1>1
  <2> QED BY <1>2, <2>1, Lookup, ZenonT(40)
<1>6. CASE m # 0
  <2>1. m \in 1 .. Len(props) /\ m \in 1 .. Len(more) /\ more[m].name = g /\ more[m] = props[m]
    BY <1>1, <1>3, <1>4, <1>6
  <2>2. n # 0 /\ n <= m
    BY <1>5, <2>1
  <2>3. n \in 1 .. Len(props) /\ props[n].name = g
    BY <1>1, <1>3, <1>5, <2>1, <2>2
  <2>4. n = m
    BY <1>3, <1>4, <1>6, <2>1, <2>2, <2>3
  <2>5. more[n].value = props[m].value
    BY <2>1, <2>4
  <2> QED BY <1>2, <1>6, <2>4, <2>5 DEF Prop
<1>7. CASE m = 0
  <2>1. n = 0 \/ n = Len(props) + 1
    <3>1. n \notin 1 .. Len(props)
      BY <1>1, <1>4, <1>5, <1>7
    <3> QED BY <1>1, <1>3, <1>5, <3>1
  <2>2. Prop(more, g) = Undefined
    BY <1>1, <1>2, <2>1 DEF Prop, Entry
  <2>3. Prop(props, g) = Undefined
    BY <1>2, <1>7 DEF Prop
  <2> QED BY <1>2, <1>7, <2>2, <2>3
<1> QED BY <1>6, <1>7

LEMMA AppendSame ==
  ASSUME NEW props \in Seq(Property), NEW f \in Names
  PROVE  \A g : Known(Prop(Append(props, Entry(f, Undefined)), g)) = Known(Prop(props, g))
<1> SUFFICES ASSUME NEW g
             PROVE  Known(Prop(Append(props, Entry(f, Undefined)), g)) = Known(Prop(props, g))
  OBVIOUS
<1>1. PICK more : more = Append(props, Entry(f, Undefined))
  OBVIOUS
<1>2. Known(Prop(more, g)) = Known(Prop(props, g))
  BY <1>1, AppendReads
<1> QED BY <1>1, <1>2

(* A value written to the first entry of a name is what the name reads.    *)
LEMMA WriteReads ==
  ASSUME NEW props \in Seq(Property), NEW i \in 1 .. Len(props), NEW v \in Val, NEW g,
         getValueRef(props, props[i].name) = i
  PROVE  Prop([props EXCEPT ![i].value = v], g) = IF g = props[i].name THEN v ELSE Prop(props, g)
<1>1. PICK e : e = [props[i] EXCEPT !.value = v]
  OBVIOUS
<1>2. props[i] \in Property
  OBVIOUS
<1>3. e \in Property /\ e.value = v /\ e.name = props[i].name
  BY <1>1, <1>2 DEF Property
<1>4. PICK after : after = [props EXCEPT ![i] = e]
  OBVIOUS
<1>5. [props EXCEPT ![i].value = v] = after
  BY <1>1, <1>4
<1>6. /\ after \in Seq(Property) /\ Len(after) = Len(props)
      /\ \A j \in 1 .. Len(props) : after[j] = IF j = i THEN e ELSE props[j]
  BY <1>3, <1>4, ExceptSeq
<1>7. \A j \in 1 .. Len(props) : after[j].name = props[j].name
  BY <1>3, <1>6
<1>8. PICK m, n : m = getValueRef(props, g) /\ n = getValueRef(after, g)
  OBVIOUS
<1>9. Len(props) \in Nat
  OBVIOUS
<1>10. /\ m \in 0 .. Len(props)
       /\ m = 0 => \A j \in 1 .. Len(props) : props[j].name # g
       /\ m # 0 => /\ props[m].name = g
                   /\ \A j \in 1 .. Len(props) : props[j].name = g => m <= j
  BY <1>8, Lookup
<1>11. /\ n \in 0 .. Len(props)
       /\ n = 0 => \A j \in 1 .. Len(props) : after[j].name # g
       /\ n # 0 => /\ after[n].name = g
                   /\ \A j \in 1 .. Len(props) : after[j].name = g => n <= j
  BY <1>6, <1>8, Lookup
<1>12. m = n
  <2>1. CASE m = 0
    BY <1>7, <1>9, <1>10, <1>11, <2>1
  <2>2. CASE n = 0
    BY <1>7, <1>9, <1>10, <1>11, <2>2
  <2>3. CASE m # 0 /\ n # 0
    <3>1. m \in 1 .. Len(props) /\ n \in 1 .. Len(props)
      BY <1>9, <1>10, <1>11, <2>3
    <3>2. m <= n /\ n <= m
      BY <1>7, <1>10, <1>11, <2>3, <3>1
    <3> QED BY <3>1, <3>2
  <2> QED BY <2>1, <2>2, <2>3
<1>13. CASE g = props[i].name
  <2>1. m = i
    BY <1>8, <1>13
  <2>2. Prop(after, g) = v
    BY <1>3, <1>6, <1>8, <1>12, <2>1 DEF Prop
  <2> QED BY <1>5, <1>13, <2>2
<1>14. CASE g # props[i].name
  <2>1. m # i
    BY <1>10, <1>14
  <2>2. m # 0 => after[m] = props[m]
    BY <1>6, <1>9, <1>10, <2>1
  <2>3. Prop(after, g) = Prop(props, g)
    BY <1>8, <1>12, <2>2 DEF Prop
  <2> QED BY <1>5, <1>14, <2>3
<1> QED BY <1>13, <1>14

-----------------------------------------------------------------------------
(* What the first k names of a left side name.                             *)

NamedIn(base, f, st, os) ==
  IF base # {} /\ \A p \in base : ReadIn(p, st, os).type = "object"
  THEN {<<"object", ReadIn(p, st, os).data, f>> : p \in base} ELSE {}
Aim(path, k, st, os) ==
  LET x == {<<"stack", path[1]>>}
  IN CASE k = 1 -> x
       [] k = 2 -> NamedIn(x, path[2], st, os)
       [] k = 3 -> NamedIn(NamedIn(x, path[2], st, os), path[3], st, os)

Closed(n, st, os) ==
  \A p \in ReadableIn(n, os) :
    ReadIn(p, st, os).type = "object" => ReadIn(p, st, os).data \in DOMAIN os
SameReads(n, os, st, st2, os2) ==
  \A p \in ReadableIn(n, os) : ReadIn(p, st2, os2) = ReadIn(p, st, os)
Path(path, n) ==
  Len(path) \in 1 .. 3 /\ path[1] \in 1 .. n /\ \A k \in 2 .. Len(path) : path[k] \in Names

LEMMA NamedKept ==
  ASSUME NEW n, NEW st, NEW os, NEW st2, NEW os2, Closed(n, st, os),
         SameReads(n, os, st, st2, os2),
         NEW base, base \subseteq ReadableIn(n, os), NEW f \in Names
  PROVE  /\ NamedIn(base, f, st, os) \subseteq ReadableIn(n, os)
         /\ NamedIn(base, f, st2, os2) = NamedIn(base, f, st, os)
<1>1. \A p \in base : ReadIn(p, st2, os2) = ReadIn(p, st, os)
  BY DEF SameReads
<1>2. NamedIn(base, f, st2, os2) = NamedIn(base, f, st, os)
  BY <1>1 DEF NamedIn
<1>3. ASSUME NEW q \in NamedIn(base, f, st, os)
      PROVE  q \in ReadableIn(n, os)
  <2>1. PICK p \in base : q = <<"object", ReadIn(p, st, os).data, f>> /\ ReadIn(p, st, os).type = "object"
    BY <1>3 DEF NamedIn
  <2>2. ReadIn(p, st, os).data \in DOMAIN os
    BY <2>1 DEF Closed
  <2> QED BY <2>1, <2>2 DEF ReadableIn
<1> QED BY <1>2, <1>3

LEMMA AimKept ==
  ASSUME NEW n, NEW st, NEW os, NEW st2, NEW os2, Closed(n, st, os),
         SameReads(n, os, st, st2, os2),
         NEW path, Path(path, n), NEW k \in 1 .. Len(path)
  PROVE  /\ Aim(path, k, st, os) \subseteq ReadableIn(n, os)
         /\ Aim(path, k, st2, os2) = Aim(path, k, st, os)
<1>1. k \in 1 .. 3
  BY DEF Path
<1>2. PICK x : x = {<<"stack", path[1]>>}
  OBVIOUS
<1>3. x \subseteq ReadableIn(n, os)
  BY <1>2 DEF Path, ReadableIn
<1>4. CASE k = 1
  BY <1>2, <1>3, <1>4 DEF Aim
<1>5. CASE k = 2
  <2>1. path[2] \in Names
    BY <1>5 DEF Path
  <2> QED BY <1>2, <1>3, <1>5, <2>1, NamedKept DEF Aim
<1>6. CASE k = 3
  <2>1. path[2] \in Names /\ path[3] \in Names
    BY <1>6 DEF Path
  <2>2. PICK y : y = NamedIn(x, path[2], st, os)
    OBVIOUS
  <2>3. y \subseteq ReadableIn(n, os) /\ NamedIn(x, path[2], st2, os2) = y
    BY <1>3, <2>1, <2>2, NamedKept
  <2>4. /\ NamedIn(y, path[3], st, os) \subseteq ReadableIn(n, os)
        /\ NamedIn(y, path[3], st2, os2) = NamedIn(y, path[3], st, os)
    BY <2>1, <2>3, NamedKept
  <2>5. Aim(path, k, st, os) = NamedIn(y, path[3], st, os)
    BY <1>2, <1>6, <2>2 DEF Aim
  <2>6. Aim(path, k, st2, os2) = NamedIn(y, path[3], st2, os2)
    BY <1>2, <1>6, <2>3 DEF Aim
  <2> QED BY <2>4, <2>5, <2>6
<1> QED BY <1>1, <1>4, <1>5, <1>6

LEMMA AimNext ==
  ASSUME NEW st, NEW os, NEW path, NEW k \in 1 .. 2
  PROVE  Aim(path, k + 1, st, os) = NamedIn(Aim(path, k, st, os), path[k + 1], st, os)
BY DEF Aim

-----------------------------------------------------------------------------
(* How much of the left side has been read can be told from the code.      *)

Through(k) == \A i \in DOMAIN code : code[i][1] = "VARLOADREF" <=> i <= Len(lhs) - k

LEMMA Ahead ==
  ASSUME IInv, NEW rhs \in Expressions, Assigning(rhs), NEW i \in 1 .. Len(code)
  PROVE  code[i][1] = "VARLOADREF" <=> Done(rhs) + i <= Len(lhs)
<1> DEFINE n == Len(lhs)
           k == Done(rhs)
           full == Assignment(rhs)
           e == EvalLen(rhs)
<1>1. /\ n \in 1 .. 3 /\ e \in {1, 2} /\ (e = 2 <=> rhs.is = "call")
      /\ Len(full) = n + e + 1 /\ k \in 0 .. Len(full) /\ k + Len(code) = Len(full) /\ Len(code) \in Nat
      /\ declared \in Nat
  BY AssigningShape
<1>2. /\ full[1] = <<"VARLOADREF", 1, lhs[1]>>
      /\ \A j \in 2 .. n : full[j] = <<"VARLOADREF", 0, lhs[j]>>
      /\ full[n + 1] = FirstOf(rhs)
      /\ rhs.is = "call" => full[n + 2] = <<"VARCALL">>
      /\ full[n + e + 1] = <<"VARSTORE", StoreType(rhs)>>
  BY <1>1, CompiledStatement DEF Assigning, Assignment
<1>3. code[i] = full[k + i]
  <2>1. i \in DOMAIN code
    BY LengthsKnown DEF IInv, Lengths
  <2> QED BY <2>1 DEF Assigning
<1> HIDE DEF n, k, full, e
<1>4. PICK j : j = k + i
  OBVIOUS
<1>5. j \in 1 .. n + e + 1
  BY <1>1, <1>4
<1>6. j = 1 \/ j \in 2 .. n \/ j = n + 1 \/ (j = n + 2 /\ rhs.is = "call") \/ j = n + e + 1
  BY <1>1, <1>5
<1>7. FirstOf(rhs)[1] # "VARLOADREF"
  BY DEF FirstOf
<1>8. CASE j = 1 \/ j \in 2 .. n
  <2>1. full[j][1] = "VARLOADREF" /\ j <= n
    BY <1>1, <1>2, <1>8
  <2> QED BY <1>3, <1>4, <2>1 DEF k, n
<1>9. CASE j = n + 1 \/ (j = n + 2 /\ rhs.is = "call") \/ j = n + e + 1
  <2>1. full[j][1] # "VARLOADREF" /\ ~(j <= n)
    BY <1>1, <1>2, <1>7, <1>9
  <2> QED BY <1>3, <1>4, <2>1 DEF k, n
<1> QED BY <1>6, <1>8, <1>9

LEMMA ThroughNow ==
  ASSUME IInv, NEW rhs \in Expressions, Assigning(rhs), Done(rhs) >= 1,
         NEW k, k = IF Done(rhs) < Len(lhs) THEN Done(rhs) ELSE Len(lhs)
  PROVE  k \in 1 .. Len(lhs) /\ Through(k)
<1>1. Len(lhs) \in 1 .. 3 /\ Done(rhs) \in Nat /\ DOMAIN code = 1 .. Len(code)
  BY AtPoint, LengthsKnown DEF IInv, Lengths
<1>2. PICK d, n : d = Done(rhs) /\ n = Len(lhs)
  OBVIOUS
<1>3. ASSUME NEW i \in 1 .. Len(code)
      PROVE  code[i][1] = "VARLOADREF" <=> i <= n - k
  <2>1. code[i][1] = "VARLOADREF" <=> d + i <= n
    BY <1>2, Ahead
  <2>2. d + i <= n <=> i <= n - k
    BY <1>1, <1>2
  <2> QED BY <2>1, <2>2
<1> QED BY <1>1, <1>2, <1>3 DEF Through

LEMMA ThroughNext ==
  ASSUME IInv, NEW rhs \in Expressions, Assigning(rhs), code # <<>>, Step, code' # <<>>,
         NEW k \in 1 .. Len(lhs), Through(k)'
  PROVE  k = IF Done(rhs) < Len(lhs) THEN Done(rhs) + 1 ELSE Len(lhs)
<1>1. /\ Len(lhs) \in 1 .. 3 /\ EvalLen(rhs) \in {1, 2} /\ Done(rhs) \in Nat /\ Len(code) \in Nat
      /\ Done(rhs) + Len(code) = Len(lhs) + EvalLen(rhs) + 1
  BY AssigningShape
<1>2. code \in Seq(Instruction)
  BY DEF IInv, Shapes
<1>3. PICK d, n, e : d = Done(rhs) /\ n = Len(lhs) /\ e = EvalLen(rhs)
  OBVIOUS
<1>4. /\ code' \in Seq(Instruction) /\ Len(code') = Len(code) - 1
      /\ \A i \in 1 .. Len(code') : code'[i] = code[i + 1]
  BY <1>2, HeadTailProperties DEF Step
<1>5. Len(code') \in Nat /\ Len(code') # 0 /\ DOMAIN code' = 1 .. Len(code') /\ lhs' = lhs
  BY <1>4 DEF Step
<1>6. PICK m : m = Len(code')
  OBVIOUS
<1>7. m \in Nat \ {0} /\ d + m = n + e
  BY <1>1, <1>3, <1>4, <1>5, <1>6, SMTT(20)
<1>8. ASSUME NEW i \in 1 .. m
      PROVE  i <= n - k <=> (d + 1) + i <= n
  <2>1. code'[i][1] = "VARLOADREF" <=> i <= n - k
    BY <1>3, <1>5, <1>6 DEF Through
  <2>2. i + 1 \in 1 .. Len(code) /\ code'[i] = code[i + 1]
    BY <1>1, <1>4, <1>6
  <2>3. code[i + 1][1] = "VARLOADREF" <=> d + (i + 1) <= n
    BY <1>3, <2>2, Ahead
  <2>4. d + (i + 1) = (d + 1) + i
    BY <1>1, <1>3
  <2> QED BY <2>1, <2>2, <2>3, <2>4
<1>9. n \in 1 .. 3 /\ e \in {1, 2} /\ d \in Nat /\ k \in 1 .. n
  BY <1>1, <1>3
<1>10. CASE d < n
  <2>1. SUFFICES k = d + 1
    BY <1>3, <1>10
  <2>2. ASSUME k < d + 1 PROVE FALSE
    <3>1. n - k \in 1 .. m
      BY <1>7, <1>9, <1>10, <2>2
    <3>2. (d + 1) + (n - k) <= n
      BY <1>8, <1>9, <3>1
    <3> QED BY <1>9, <2>2, <3>2
  <2>3. ASSUME k > d + 1 PROVE FALSE
    <3>1. n - (d + 1) \in 1 .. m
      BY <1>7, <1>9, <1>10, <2>3
    <3>2. (d + 1) + (n - (d + 1)) <= n
      BY <1>9
    <3>3. n - (d + 1) <= n - k
      BY <1>8, <3>1, <3>2
    <3> QED BY <1>9, <2>3, <3>3
  <2> QED BY <1>9, <2>2, <2>3
<1>11. CASE ~(d < n)
  <2>1. SUFFICES k = n
    BY <1>3, <1>11
  <2>2. ASSUME k < n PROVE FALSE
    <3>1. 1 \in 1 .. m /\ 1 <= n - k
      BY <1>7, <1>9, <2>2
    <3>2. (d + 1) + 1 <= n
      BY <1>8, <3>1
    <3> QED BY <1>9, <1>11, <3>2
  <2> QED BY <1>9, <2>2
<1> QED BY <1>10, <1>11

-----------------------------------------------------------------------------
(* The reference of a statement leads where its left side says.            *)

SpotIn(p, os) == IF p[1] = "stack" THEN p ELSE <<"object", p[2], os[p[2]][p[3]].name>>
FirstIn(p, os) == p[1] = "object" => getValueRef(os[p[2]], os[p[2]][p[3]].name) = p[3]
AimsAt(r, aim, os) ==
  IF r.type = "REF_UNDEFINED" THEN aim = {}
  ELSE /\ aim = {SpotIn(r.place, os)} /\ FirstIn(r.place, os)
       /\ r.type = "REF_RAW" => r.place[1] = "object" /\ os[r.place[2]][r.place[3]].value.type = "int"

Aimed ==
  status = "running" /\ code # <<>> /\ declared < Len(stack) /\ stack[declared + 1].is = "ref" =>
    \A k \in 1 .. Len(lhs) :
      Through(k) => AimsAt(stack[declared + 1], Aim(lhs, k, stack, objects), objects)

(* The objects of the script, which no host has: a name that an object of  *)
(* the script has twice has an undefined value the second time.            *)
OfItsOwn(v) == v.type \notin {"object", "function", "prototype"}
InScript(v, S) ==
  /\ v.type \notin {"function", "prototype"}
  /\ v.type = "object" => v.data \in S
CellIn(c, S) ==
  /\ c.is = "variant" => InScript(c.value, S)
  /\ c.is = "ref" /\ c.type # "REF_UNDEFINED" => (c.place[1] = "object" => c.place[2] \in S)
EntryIn(props, i, S) ==
  /\ InScript(props[i].value, S)
  /\ \A j \in 1 .. i - 1 : props[j].name = props[i].name => props[i].value.type = "undefined"
EntriesIn(props, S) == \A i \in 1 .. Len(props) : EntryIn(props, i, S)
OwnedBy(S) ==
  /\ S \subseteq DOMAIN objects
  /\ \A h \in Hosts : host[h].type = "object" => host[h].data \notin S
  /\ \A i \in DOMAIN stack : CellIn(stack[i], S)
  /\ \A o \in S : EntriesIn(objects[o], S)
Apart == \E S : OwnedBy(S)

MInv == IInv /\ Aimed /\ Apart

LEMMA CellGrows ==
  ASSUME NEW c, NEW S, NEW S2, S \subseteq S2, CellIn(c, S)
  PROVE  CellIn(c, S2)
BY DEF CellIn, InScript

LEMMA EntriesGrow ==
  ASSUME NEW props, NEW S, NEW S2, S \subseteq S2, EntriesIn(props, S)
  PROVE  EntriesIn(props, S2)
BY DEF EntriesIn, EntryIn, InScript

(* A step that keeps the objects of the script apart.                      *)
LEMMA OwnedStep ==
  ASSUME Lengths, Lengths', NEW S, OwnedBy(S), NEW S2, S \subseteq S2, S2 \subseteq DOMAIN objects',
         \A h \in Hosts : host'[h].type = "object" => host'[h].data \notin S2,
         \A i \in 1 .. Len(stack') :
           (i \in 1 .. Len(stack) /\ stack'[i] = stack[i]) \/ CellIn(stack'[i], S2),
         \A o \in S2 : (o \in S /\ objects'[o] = objects[o]) \/ EntriesIn(objects'[o], S2)
  PROVE  Apart'
<1>1. DOMAIN stack = 1 .. Len(stack) /\ DOMAIN stack' = 1 .. Len(stack')
  BY DEF Lengths
<1>2. ASSUME NEW i \in DOMAIN stack'
      PROVE  CellIn(stack'[i], S2)
  <2>1. CASE i \in 1 .. Len(stack) /\ stack'[i] = stack[i]
    <3>1. CellIn(stack[i], S)
      BY <1>1, <2>1 DEF OwnedBy
    <3> QED BY <2>1, <3>1, CellGrows
  <2> QED BY <1>1, <2>1
<1>3. ASSUME NEW o \in S2
      PROVE  EntriesIn(objects'[o], S2)
  <2>1. CASE o \in S /\ objects'[o] = objects[o]
    <3>1. EntriesIn(objects[o], S)
      BY <2>1 DEF OwnedBy
    <3> QED BY <2>1, <3>1, EntriesGrow
  <2> QED BY <2>1
<1>4. OwnedBy(S2)'
  BY <1>2, <1>3 DEF OwnedBy
<1> QED BY <1>4 DEF Apart

(* The host gives a value it has, or one that is no object.                *)
LEMMA GivesApart ==
  ASSUME IInv, Apart, NEW h \in Hosts, NEW v, HostGives(h, v), objects' = objects,
         v.type = "object" => \E g \in Hosts : host[g].type = "object" /\ host[g].data = v.data
  PROVE  Apart'
<1>1. PICK S : OwnedBy(S)
  BY DEF Apart
<1>2. stack' = stack /\ host' = [host EXCEPT ![h] = v] /\ host \in [Hosts -> Val]
  BY DEF HostGives, IInv, Shapes
<1>3. ASSUME NEW k \in Hosts, host'[k].type = "object"
      PROVE  host'[k].data \notin S
  <2>1. CASE k = h
    <3>1. host'[k] = v
      BY <1>2, <2>1
    <3>2. PICK g \in Hosts : host[g].type = "object" /\ host[g].data = v.data
      BY <1>3, <3>1
    <3> QED BY <1>1, <3>1, <3>2 DEF OwnedBy
  <2>2. CASE k # h
    <3>1. host'[k] = host[k]
      BY <1>2, <2>2
    <3> QED BY <1>1, <1>3, <3>1 DEF OwnedBy
  <2> QED BY <2>1, <2>2
<1>4. OwnedBy(S)'
  BY <1>1, <1>2, <1>3 DEF OwnedBy
<1> QED BY <1>4 DEF Apart

LEMMA SameApart ==
  ASSUME Apart, UNCHANGED <<host, objects, stack>>
  PROVE  Apart'
BY DEF Apart, OwnedBy

LEMMA AddEntryApart ==
  ASSUME IInv, IInv', Apart, NEW h \in Hosts, NEW f \in Names, NEW v, host[h].type # "realobject",
         AddEntry(h, f, v)
  PROVE  Apart'
<1> DEFINE made == Made(h)
           o == Owner(h)
           was == IF made THEN <<>> ELSE objects[o]
           now == Append(was, Entry(f, v))
<1>1. PICK S : OwnedBy(S)
  BY DEF Apart
<1>2. Lengths /\ Lengths'
  BY LengthsKnown, PTL DEF IInv
<1>3. /\ objects' = IF made THEN Append(objects, now) ELSE [objects EXCEPT ![o] = now]
      /\ HostGives(h, Value("object", o))
  BY DEF AddEntry
<1>0. o = IF made THEN Len(objects) + 1 ELSE host[h].data
  BY DEF Owner
<1> HIDE DEF was, now
<1>4. stack' = stack /\ host' = [host EXCEPT ![h] = Value("object", o)] /\ host \in [Hosts -> Val]
  BY <1>3 DEF HostGives, IInv, Shapes
<1>5. S \subseteq 1 .. Len(objects) /\ o \notin S /\ Len(objects) \in Nat
      /\ objects \in Seq(Seq(Property))
  BY <1>1, <1>2, SMTT(20) DEF OwnedBy, Lengths, IInv, Shapes, Owner, Made
<1>6. ASSUME NEW k \in S
      PROVE  k \in DOMAIN objects' /\ objects'[k] = objects[k]
  <2>1. k \in 1 .. Len(objects) /\ k # o
    BY <1>5
  <2>2. CASE made
    BY <1>0, <1>3, <1>5, <2>1, <2>2
  <2>3. CASE ~made
    BY <1>3, <1>5, <2>1, <2>3
  <2> QED BY <2>2, <2>3
<1>7. ASSUME NEW k \in Hosts, host'[k].type = "object"
      PROVE  host'[k].data \notin S
  <2>1. CASE k = h
    <3>1. host'[k].data = o
      BY <1>4, <2>1 DEF Value
    <3> QED BY <1>5, <3>1
  <2>2. CASE k # h
    <3>1. host'[k] = host[k]
      BY <1>4, <2>2
    <3> QED BY <1>1, <1>7, <3>1 DEF OwnedBy
  <2> QED BY <2>1, <2>2
<1>8. \A i \in 1 .. Len(stack') : i \in 1 .. Len(stack) /\ stack'[i] = stack[i]
  BY <1>4
<1>9. S \subseteq DOMAIN objects'
  BY <1>6
<1> QED BY <1>1, <1>2, <1>6, <1>7, <1>8, <1>9, OwnedStep

LEMMA HostStepApart ==
  ASSUME IInv, IInv', Apart, HostStep
  PROVE  Apart'
<1>1. PICK h \in Hosts, g \in Hosts :
        \/ \E n \in Ints : AssignInt(h, n)
        \/ AssignReal(h)
        \/ \E t \in Texts : AssignText(h, t)
        \/ Assign(h, g)
        \/ AssignFunction(h)
        \/ call(h)
        \/ release(h)
        \/ makeArray(h)
        \/ \E i \in 1 .. MaxItems : setValueAt(h, i, g)
        \/ \E f \in Names : setValue(h, f, g)
        \/ \E f \in Names, t \in Texts : setText(h, f, t)
        \/ setValueFails(h, g)
        \/ \E k \in Hosts : Plus(h, g, k)
        \/ PlusFails(h, g)
  BY DEF HostStep
<1>2. ASSUME NEW n \in Ints, AssignInt(h, n) PROVE Apart'
  <2>1. HostGives(h, Value("int", n)) /\ objects' = objects /\ Value("int", n).type # "object"
    BY <1>2 DEF AssignInt, heap, Value
  <2> QED BY <2>1, GivesApart
<1>3. ASSUME NEW t \in Texts, AssignText(h, t) PROVE Apart'
  <2>1. CASE HostGives(h, Value("string", Len(strings) + 1)) /\ objects' = objects
    <3>1. Value("string", Len(strings) + 1).type # "object"
      BY DEF Value
    <3> QED BY <2>1, <3>1, GivesApart
  <2>2. CASE HostGives(h, host[h]) /\ objects' = objects
    BY <2>2, GivesApart
  <2>3. CASE HostFails(Fault(host[h]))
    BY <2>3, SameApart DEF HostFails, heap
  <2> QED BY <1>3, <2>1, <2>2, <2>3 DEF AssignText
<1>4. ASSUME Assign(h, g) PROVE Apart'
  <2>1. PICK v : v = Assigned(host[h], host[g])
    OBVIOUS
  <2>2. HostGives(h, v) /\ objects' = objects
    BY <1>4, <2>1 DEF Assign, heap
  <2>3. v.type = "object" => host[g].type = "object" /\ host[g].data = v.data
    BY <2>1 DEF Assigned, Copied
  <2> QED BY <2>2, <2>3, GivesApart
<1>5. ASSUME makeArray(h) PROVE Apart'
  <2>1. HostGives(h, Value("array", Len(arrays) + 1)) /\ objects' = objects
    BY <1>5 DEF makeArray
  <2>2. Value("array", Len(arrays) + 1).type # "object"
    BY DEF Value
  <2> QED BY <2>1, <2>2, GivesApart
<1>6. ASSUME NEW i \in 1 .. MaxItems, setValueAt(h, i, g) PROVE Apart'
  BY <1>6, SameApart DEF setValueAt
<1>7. ASSUME NEW k \in Hosts, Plus(h, g, k) PROVE Apart'
  <2>1. PICK w : w = Sum(host[g], host[k])
    OBVIOUS
  <2>2. HostGives(h, Assigned(host[h], w)) /\ objects' = objects
    BY <1>7, <2>1 DEF Plus
  <2>3. w.type # "object"
    BY <2>1 DEF Sum, Value, Undefined, Joined
  <2>4. Assigned(host[h], w).type # "object"
    BY <2>3 DEF Assigned
  <2> QED BY <2>2, <2>4, GivesApart
<1>8. ASSUME NEW f \in Names, setValue(h, f, g) PROVE Apart'
  <2>1. host[h].type # "realobject" /\ AddEntry(h, f, Given(h, g))
    BY <1>8 DEF setValue
  <2> QED BY <2>1, AddEntryApart
<1>9. ASSUME NEW f \in Names, NEW t \in Texts, setText(h, f, t) PROVE Apart'
  <2>1. CASE host[h].type = "object" /\ AddEntry(h, f, Value("string", Len(strings) + 1))
    BY <2>1, AddEntryApart
  <2>2. CASE HostGives(h, Value("prototype", Dyn)) /\ UNCHANGED <<heap, status>>
    <3>1. Value("prototype", Dyn).type # "object" /\ objects' = objects
      BY <2>2 DEF Value, heap
    <3> QED BY <2>2, <3>1, GivesApart
  <2>3. CASE HostFails(Fault(host[h]))
    BY <2>3, SameApart DEF HostFails, heap
  <2> QED BY <1>9, <2>1, <2>2, <2>3 DEF setText
<1>10. ASSUME AssignReal(h) PROVE Apart'
  <2>1. HostGives(h, WithReal(host[h])) /\ objects' = objects
    BY <1>10 DEF AssignReal, heap
  <2>2. WithReal(host[h]).type # "object"
    BY DEF WithReal, Value
  <2> QED BY <2>1, <2>2, GivesApart
<1>11. ASSUME AssignFunction(h) PROVE Apart'
  <2>1. PICK w : w = Assigned(host[h], Value("function", 0))
    OBVIOUS
  <2>2. w.type # "object" /\ HostGives(h, w) /\ objects' = objects
    BY <1>11, <2>1 DEF AssignFunction, Assigned, Value, heap
  <2> QED BY <2>2, GivesApart
<1>12. ASSUME release(h) PROVE Apart'
  <2>1. CASE HostGives(h, Value("undefined", host[h].data)) /\ objects' = objects
    <3>1. Value("undefined", host[h].data).type # "object"
      BY DEF Value
    <3> QED BY <2>1, <3>1, GivesApart
  <2>2. CASE HostFails(Fault(host[h]))
    BY <2>2, SameApart DEF HostFails, heap
  <2> QED BY <1>12, <2>1, <2>2 DEF release
<1>13. ASSUME call(h) \/ setValueFails(h, g) \/ PlusFails(h, g) PROVE Apart'
  <2>1. \E why : HostFails(why)
    BY <1>13 DEF call, setValueFails, PlusFails
  <2> QED BY <2>1, SameApart DEF HostFails, heap
<1> QED BY <1>1, <1>2, <1>3, <1>4, <1>5, <1>6, <1>7, <1>8, <1>9, <1>10, <1>11, <1>12, <1>13

(* What starts a statement leaves values and objects alone, and no         *)
(* reference is on the stack then.                                         *)
LEMMA BeginsAimed ==
  ASSUME MInv, AtRest, UNCHANGED <<host, objects, stack>>,
         declared' \in {0, declared, declared + 1}
  PROVE  Aimed' /\ Apart'
<1>1. Apart'
  BY SameApart DEF MInv
<1>2. Len(stack) = declared /\ Variables(declared)
  BY DEF MInv, IInv, Progress, AtRest
<1>3. declared \in Nat
  BY LengthsKnown DEF MInv, IInv, Lengths
<1>4. ~(declared' < Len(stack') /\ stack'[declared' + 1].is = "ref")
  <2> SUFFICES ASSUME declared' < Len(stack), stack[declared' + 1].is = "ref" PROVE FALSE
    OBVIOUS
  <2>1. PICK d : d = declared'
    OBVIOUS
  <2>2. d \in {0, declared, declared + 1} /\ d < Len(stack)
    BY <2>1
  <2>3. d + 1 \in 1 .. declared
    BY <1>2, <1>3, <2>2
  <2> QED BY <1>2, <2>1, <2>3 DEF Variables
<1> QED BY <1>1, <1>4 DEF Aimed

-----------------------------------------------------------------------------
(* The machine, as long as it changes no object.                           *)

LEMMA VariablesRead ==
  ASSUME NEW n, NEW os, NEW st, NEW st2, NEW os2,
         1 .. n \subseteq DOMAIN st, 1 .. n \subseteq DOMAIN st2, \A x \in 1 .. n : st2[x] = st[x],
         \A o \in DOMAIN os, f \in Names : Known(Prop(os2[o], f)) = Known(Prop(os[o], f))
  PROVE  SameReads(n, os, st, st2, os2)
BY DEF SameReads, ReadIn, ReadableIn

LEMMA ClosedNow ==
  ASSUME IInv, Variables(declared)
  PROVE  Closed(declared, stack, objects)
<1>1. Lengths
  BY LengthsKnown DEF IInv
<1> SUFFICES ASSUME NEW p \in ReadableIn(declared, objects), ReadIn(p, stack, objects).type = "object"
             PROVE  ReadIn(p, stack, objects).data \in DOMAIN objects
  BY DEF Closed
<1>2. CASE \E x \in 1 .. declared : p = <<"stack", x>>
  <2>1. PICK x \in 1 .. declared : p = <<"stack", x>>
    BY <1>2
  <2>2. x \in DOMAIN stack /\ stack[x].is = "variant"
    BY <1>1, <2>1 DEF Variables, Lengths
  <2>3. Leads(stack[x].value, strings, objects, arrays)
    BY <2>2 DEF IInv, StackLeads
  <2>4. ReadIn(p, stack, objects) = Known(stack[x].value)
    BY <2>1, <2>2 DEF ReadIn
  <2>5. PICK v : v = stack[x].value
    OBVIOUS
  <2>6. v.type = "object" /\ v.data = ReadIn(p, stack, objects).data
    BY <2>4, <2>5 DEF Known, Undefined, Value
  <2> QED BY <2>3, <2>5, <2>6 DEF Leads
<1>3. CASE \E o \in DOMAIN objects, f \in Names : p = <<"object", o, f>>
  <2>1. PICK o \in DOMAIN objects, f \in Names : p = <<"object", o, f>>
    BY <1>3
  <2>2. objects[o] \in Seq(Property) /\ DOMAIN objects[o] = 1 .. Len(objects[o])
    BY <1>1, <2>1 DEF Lengths
  <2>3. ReadIn(p, stack, objects) = Known(Prop(objects[o], f))
    BY <2>1 DEF ReadIn
  <2>4. PICK v : v = Prop(objects[o], f)
    OBVIOUS
  <2>5. v.type = "object" /\ v.data = ReadIn(p, stack, objects).data
    BY <2>3, <2>4 DEF Known, Undefined, Value
  <2>6. v # Undefined
    BY <2>5 DEF Undefined, Value
  <2>7. PICK i : i = getValueRef(objects[o], f)
    OBVIOUS
  <2>8. i \in 0 .. Len(objects[o]) /\ Len(objects[o]) \in Nat
    BY <2>2, <2>7, Lookup
  <2>9. i # 0 /\ v = objects[o][i].value
    BY <2>4, <2>6, <2>7 DEF Prop
  <2>10. i \in DOMAIN objects[o]
    BY <2>2, <2>8, <2>9
  <2>11. Leads(v, strings, objects, arrays)
    BY <2>1, <2>9, <2>10 DEF IInv, ObjectsLead
  <2> QED BY <2>5, <2>11 DEF Leads
<1> QED BY <1>2, <1>3 DEF ReadableIn

LEMMA PathNow ==
  ASSUME IInv, NEW rhs \in Expressions, Assigning(rhs)
  PROVE  Path(lhs, declared) /\ 1 .. declared \subseteq DOMAIN stack /\ DOMAIN stack = 1 .. Len(stack)
<1>1. /\ Len(lhs) \in 1 .. 3 /\ lhs[1] \in 1 .. declared /\ \A k \in 2 .. Len(lhs) : lhs[k] \in Names
      /\ declared \in Nat /\ Variables(declared) /\ Len(stack) \in Nat
  BY AtPoint
<1>2. DOMAIN stack = 1 .. Len(stack)
  BY LengthsKnown DEF IInv, Lengths
<1> QED BY <1>1, <1>2 DEF Path, Variables

(* The reference, once it is complete, is left alone by what evaluates.    *)
LEMMA QuietAimed ==
  ASSUME MInv, IInv', code # <<>>, status = "running", Step, objects' = objects,
         NEW rhs \in Expressions, Assigning(rhs), Done(rhs) >= Len(lhs),
         \A i \in 1 .. Len(stack') :
           (i \in 1 .. Len(stack) /\ stack'[i] = stack[i]) \/ stack'[i].is # "ref",
         declared <= Len(stack'), \A i \in 1 .. declared : stack'[i] = stack[i]
  PROVE  Aimed'
<1> SUFFICES ASSUME code' # <<>>, declared < Len(stack'), stack'[declared + 1].is = "ref",
                    NEW k \in 1 .. Len(lhs), Through(k)'
             PROVE  AimsAt(stack'[declared + 1], Aim(lhs, k, stack', objects), objects)
  BY DEF Aimed, Step
<1>1. /\ declared \in Nat /\ Len(stack) \in Nat /\ Variables(declared) /\ Len(lhs) \in 1 .. 3
      /\ Done(rhs) \in Nat
  BY AtPoint DEF MInv
<1>2. Path(lhs, declared) /\ 1 .. declared \subseteq DOMAIN stack
  BY PathNow DEF MInv
<1>3. Lengths'
  BY LengthsKnown, PTL DEF IInv
<1>4. DOMAIN stack' = 1 .. Len(stack') /\ Len(stack') \in Nat
  BY <1>3 DEF Lengths
<1>5. k = Len(lhs)
  BY <1>1, ThroughNext DEF MInv
<1>6. Through(k)
  BY <1>1, <1>5, ThroughNow DEF MInv
<1>7. declared + 1 \in 1 .. Len(stack')
  BY <1>1, <1>4
<1>8. declared < Len(stack) /\ stack'[declared + 1] = stack[declared + 1]
  BY <1>1, <1>7
<1>9. AimsAt(stack[declared + 1], Aim(lhs, k, stack, objects), objects)
  BY <1>6, <1>8 DEF MInv, Aimed
<1>10. 1 .. declared \subseteq DOMAIN stack'
  BY <1>1, <1>4
<1>11. SameReads(declared, objects, stack, stack', objects)
  <2>1. PICK n, st, st2, os : n = declared /\ st = stack /\ st2 = stack' /\ os = objects
    OBVIOUS
  <2>2. 1 .. n \subseteq DOMAIN st /\ 1 .. n \subseteq DOMAIN st2 /\ \A x \in 1 .. n : st2[x] = st[x]
    BY <1>2, <1>10, <2>1
  <2>3. SameReads(n, os, st, st2, os)
    BY <2>2, VariablesRead
  <2> QED BY <2>1, <2>3
<1>12. Closed(declared, stack, objects)
  BY <1>1, ClosedNow DEF MInv
<1>13. Aim(lhs, k, stack', objects) = Aim(lhs, k, stack, objects)
  BY <1>2, <1>11, <1>12, AimKept
<1> QED BY <1>8, <1>9, <1>13

LEMMA QuietApart ==
  ASSUME MInv, IInv', host' = host, objects' = objects,
         \A i \in 1 .. Len(stack') :
           \/ i \in 1 .. Len(stack) /\ stack'[i] = stack[i]
           \/ stack'[i].is = "slot"
           \/ stack'[i].is = "variant" /\ OfItsOwn(stack'[i].value)
           \/ /\ stack'[i].is = "variant"
              /\ \E j \in 1 .. Len(stack) : stack[j].is = "variant" /\ stack[j].value = stack'[i].value
  PROVE  Apart'
<1>1. Lengths /\ Lengths'
  BY LengthsKnown, PTL DEF IInv, MInv
<1>2. PICK S : OwnedBy(S)
  BY DEF MInv, Apart
<1>3. DOMAIN stack = 1 .. Len(stack)
  BY <1>1 DEF Lengths
<1>4. ASSUME NEW i \in 1 .. Len(stack')
      PROVE  (i \in 1 .. Len(stack) /\ stack'[i] = stack[i]) \/ CellIn(stack'[i], S)
  <2>1. CASE i \in 1 .. Len(stack) /\ stack'[i] = stack[i]
    BY <2>1
  <2>2. CASE stack'[i].is = "slot" \/ (stack'[i].is = "variant" /\ OfItsOwn(stack'[i].value))
    BY <2>2 DEF CellIn, InScript, OfItsOwn
  <2>3. CASE /\ stack'[i].is = "variant"
             /\ \E j \in 1 .. Len(stack) : stack[j].is = "variant" /\ stack[j].value = stack'[i].value
    <3>1. PICK j \in 1 .. Len(stack) : stack[j].is = "variant" /\ stack[j].value = stack'[i].value
      BY <2>3
    <3>2. CellIn(stack[j], S)
      BY <1>2, <1>3 DEF OwnedBy
    <3> QED BY <2>3, <3>1, <3>2 DEF CellIn
  <2> QED BY <2>1, <2>2, <2>3
<1>5. S \subseteq DOMAIN objects' /\ \A h \in Hosts : host'[h].type = "object" => host'[h].data \notin S
  BY <1>2 DEF OwnedBy
<1> QED BY <1>1, <1>2, <1>4, <1>5, OwnedStep

LEMMA QuietReads ==
  ASSUME IInv, IInv', NEW rhs \in Expressions, Assigning(rhs), objects' = objects,
         declared <= Len(stack'), \A i \in 1 .. declared : stack'[i] = stack[i]
  PROVE  SameReads(declared, objects, stack, stack', objects')
<1>1. Lengths'
  BY LengthsKnown, PTL DEF IInv
<1>2. declared \in Nat /\ 1 .. declared \subseteq DOMAIN stack
  BY AtPoint, PathNow
<1>3. 1 .. declared \subseteq DOMAIN stack'
  BY <1>1, <1>2 DEF Lengths
<1>4. PICK n, st, st2, os, os2 :
        n = declared /\ st = stack /\ st2 = stack' /\ os = objects /\ os2 = objects'
  OBVIOUS
<1>5. /\ 1 .. n \subseteq DOMAIN st /\ 1 .. n \subseteq DOMAIN st2
      /\ \A x \in 1 .. n : st2[x] = st[x]
      /\ os2 = os
  BY <1>2, <1>3, <1>4
<1>6. SameReads(n, os, st, st2, os2)
  BY <1>5, VariablesRead
<1> QED BY <1>4, <1>6

(* What StoreMeansAssign says of a step.                                   *)
Means ==
  \A p \in Readable :
    \/ Declares(p) \/ (Assigns(p) /\ Overwrites(p))
    \/ Reads(p)' \in IF Assigns(p) THEN Stored ELSE {Reads(p)}

LEMMA QuietMeans ==
  ASSUME SameReads(declared, objects, stack, stack', objects'), \A p \in Readable : ~Assigns(p)
  PROVE  Means
<1> SUFFICES ASSUME NEW p \in Readable PROVE Reads(p)' = Reads(p)
  BY DEF Means
<1>1. p \in ReadableIn(declared, objects)
  BY DEF Readable, ReadableIn
<1>2. ReadIn(p, stack', objects') = ReadIn(p, stack, objects)
  BY <1>1 DEF SameReads
<1> QED BY <1>2, ReadsNow

LEMMA PushOperandMeans ==
  ASSUME MInv, IInv', PushOperand
  PROVE  Aimed' /\ Apart' /\ Means
<1>1. PICK op \in {"LOADK", "NEW"} :
        Now(op) /\ stack' = Append(stack, Slot(IF op = "LOADK" THEN Arg ELSE 0))
  BY DEF PushOperand
<1>2. /\ code # <<>> /\ status = "running" /\ Step /\ objects' = objects /\ host' = host
      /\ Head(code)[1] = op
  BY <1>1 DEF PushOperand, Now, Step, heap
<1>3. PICK rhs \in Expressions : Assigning(rhs) /\ AtOp(op, rhs)
  BY <1>1, StatementNow DEF StatementAt, MInv
<1>4. /\ Len(lhs) \in 1 .. 3 /\ declared \in Nat /\ Len(stack) \in Nat /\ Variables(declared)
      /\ stack \in Seq(Cell)
  BY <1>3, AtPoint DEF MInv
<1>5. PICK c : c = Slot(IF op = "LOADK" THEN Arg ELSE 0)
  OBVIOUS
<1>6. c.is = "slot" /\ stack' = Append(stack, c)
  BY <1>1, <1>5 DEF Slot
<1>7. /\ Len(stack') = Len(stack) + 1 /\ stack'[Len(stack) + 1] = c
      /\ \A i \in 1 .. Len(stack) : stack'[i] = stack[i]
  BY <1>4, <1>6
<1>8. \A i \in 1 .. Len(stack') : (i \in 1 .. Len(stack) /\ stack'[i] = stack[i]) \/ stack'[i].is = "slot"
  BY <1>4, <1>6, <1>7
<1>9. declared <= Len(stack') /\ \A i \in 1 .. declared : stack'[i] = stack[i]
  BY <1>4, <1>7 DEF Variables
<1>10. Done(rhs) >= Len(lhs)
  BY <1>3, <1>4 DEF AtOp
<1>11. Aimed'
  BY <1>2, <1>3, <1>8, <1>9, <1>10, QuietAimed
<1>12. Apart'
  BY <1>2, <1>8, QuietApart
<1>13. SameReads(declared, objects, stack, stack', objects')
  BY <1>2, <1>3, <1>9, QuietReads DEF MInv
<1>14. \A p \in Readable : ~Assigns(p)
  BY <1>2 DEF Assigns, Now
<1>15. Means
  BY <1>13, <1>14, QuietMeans
<1> QED BY <1>11, <1>12, <1>15

LEMMA ExecVariantCallMeans ==
  ASSUME MInv, IInv', ExecVariantCall
  PROVE  Aimed' /\ Apart' /\ Means
<1>1. /\ Now("VARCALL") /\ code # <<>> /\ status = "running" /\ Step /\ objects' = objects
      /\ host' = host /\ Head(code)[1] = "VARCALL"
  BY DEF ExecVariantCall, Now, Step
<1>2. PICK rhs \in Expressions : Assigning(rhs) /\ AtOp("VARCALL", rhs)
  BY <1>1, StatementNow DEF StatementAt, MInv
<1>3. /\ Len(lhs) \in 1 .. 3 /\ declared \in Nat /\ Len(stack) \in Nat /\ Variables(declared)
      /\ stack \in Seq(Cell) /\ EvalLen(rhs) \in {1, 2} /\ Reached(Done(rhs), rhs)
  BY <1>2, AtPoint DEF MInv
<1>4. Done(rhs) = Len(lhs) + 1 /\ rhs.is = "call"
  BY <1>2 DEF AtOp
<1>5. Evaluated(rhs)
  BY <1>3, <1>4 DEF Reached
<1>6. Len(stack) \in {declared + 1, declared + 2}
  BY <1>5 DEF Evaluated
<1>7. /\ Popped(1) \in Seq(Cell) /\ Len(Popped(1)) = Len(stack) - 1
      /\ \A i \in 1 .. Len(stack) - 1 : Popped(1)[i] = stack[i]
  <2>1. 1 \in Nat /\ 1 <= Len(stack)
    BY <1>3, <1>6
  <2> QED BY <2>1, PoppedProperties DEF MInv
<1>8. /\ Len(stack') \in {Len(stack) - 1, Len(stack)}
      /\ \A i \in 1 .. Len(stack) - 1 : stack'[i] = stack[i]
      /\ Len(stack') = Len(stack) =>
           /\ stack'[Len(stack)].is = "variant" /\ OfItsOwn(stack'[Len(stack)].value)
  <2>1. CASE \E t \in Texts : stack' = Append(Popped(1), Variant(Value("string", Len(strings) + 1)))
    <3>1. PICK c : c = Variant(Value("string", Len(strings) + 1))
      OBVIOUS
    <3>2. c.is = "variant" /\ OfItsOwn(c.value) /\ stack' = Append(Popped(1), c)
      BY <2>1, <3>1 DEF Variant, Value, OfItsOwn
    <3> QED BY <1>3, <1>7, <3>2, AppendProperties
  <2>2. CASE stack' = Popped(1)
    BY <1>3, <1>7, <2>2
  <2> QED BY <2>1, <2>2 DEF ExecVariantCall
<1>9. \A i \in 1 .. Len(stack') :
        \/ i \in 1 .. Len(stack) /\ stack'[i] = stack[i]
        \/ stack'[i].is = "variant" /\ OfItsOwn(stack'[i].value)
  BY <1>3, <1>8
<1>10. declared <= Len(stack') /\ \A i \in 1 .. declared : stack'[i] = stack[i]
  BY <1>3, <1>6, <1>8
<1>11. Aimed'
  <2>1. Done(rhs) >= Len(lhs)
    BY <1>3, <1>4
  <2> QED BY <1>1, <1>2, <1>9, <1>10, <2>1, QuietAimed
<1>12. Apart'
  BY <1>1, <1>9, QuietApart
<1>13. SameReads(declared, objects, stack, stack', objects')
  BY <1>1, <1>2, <1>10, QuietReads DEF MInv
<1>14. \A p \in Readable : ~Assigns(p)
  BY <1>1 DEF Assigns, Now
<1>15. Means
  BY <1>13, <1>14, QuietMeans
<1> QED BY <1>11, <1>12, <1>15

LEMMA PopVarMeans ==
  ASSUME MInv, IInv', PopVar
  PROVE  Aimed' /\ Apart' /\ (declared > 0 => Means)
<1>1. /\ Now("POPVAR") /\ code # <<>> /\ Step /\ objects' = objects
      /\ declared' = declared /\ host' = host /\ stack' = Popped(1)
  BY DEF PopVar, Now, Step
<1>2. Popping
  <2>1. ~(\E rhs \in Expressions : Assigning(rhs) /\ InStatement(rhs))
    BY <1>1, OpAt DEF AtOp, MInv
  <2> QED BY <1>1, <2>1, WhereNow DEF MInv
<1>3. Lengths /\ code \in Seq(Instruction)
  BY LengthsKnown DEF MInv, IInv, Shapes
<1>4. Len(stack) = Len(code) /\ Variables(Len(stack)) /\ declared = 0
  BY <1>2 DEF Popping
<1>5. Len(stack) \in Nat /\ 1 <= Len(stack)
  BY <1>1, <1>3, <1>4 DEF Lengths
<1>6. Len(stack') = Len(stack) - 1 /\ \A i \in 1 .. Len(stack) - 1 : stack'[i] = stack[i]
  BY <1>1, <1>5, PoppedProperties DEF MInv
<1>7. Aimed'
  <2> SUFFICES ASSUME declared' < Len(stack') PROVE stack'[declared' + 1].is # "ref"
    BY DEF Aimed
  <2>1. 1 \in 1 .. Len(stack) - 1 /\ declared' + 1 = 1
    BY <1>1, <1>4, <1>5, <1>6
  <2>2. stack[1].is = "variant" /\ stack'[1] = stack[1]
    BY <1>4, <1>5, <1>6, <2>1 DEF Variables
  <2> QED BY <2>1, <2>2
<1>8. \A i \in 1 .. Len(stack') : i \in 1 .. Len(stack) /\ stack'[i] = stack[i]
  BY <1>5, <1>6
<1>9. Apart'
  BY <1>1, <1>8, QuietApart
<1> QED BY <1>4, <1>7, <1>9

LEMMA PushVarMeans ==
  ASSUME MInv, IInv', PushVar
  PROVE  Aimed' /\ Apart' /\ Means
<1> DEFINE v == IF Arg > Len(stack) THEN Undefined ELSE Assigned(Undefined, stack[Arg].value)
<1>1. /\ Now("PUSHVAR") /\ code # <<>> /\ status = "running" /\ Step /\ objects' = objects
      /\ host' = host /\ Head(code)[1] = "PUSHVAR" /\ declared' = declared
      /\ stack' = Append(stack, Variant(v))
  BY DEF PushVar, Now, Step, heap
<1>2. Lengths /\ stack \in Seq(Cell) /\ Len(stack) \in Nat
  BY LengthsKnown DEF MInv, IInv, Shapes, Lengths
<1>3. PICK c : c = Variant(v)
  OBVIOUS
<1>4. c.is = "variant" /\ c.value = v /\ stack' = Append(stack, c)
  BY <1>1, <1>3 DEF Variant
<1>5. /\ Len(stack') = Len(stack) + 1 /\ stack'[Len(stack) + 1] = c
      /\ \A i \in 1 .. Len(stack) : stack'[i] = stack[i]
  BY <1>2, <1>4
<1>6. ASSUME v.type = "object", Arg \in Nat \ {0}, Arg <= Len(stack) => stack[Arg].is = "variant"
      PROVE  \E j \in 1 .. Len(stack) : stack[j].is = "variant" /\ stack[j].value = v
  <2>1. ~(Arg > Len(stack))
    BY <1>6 DEF Undefined, Value
  <2>2. Arg \in 1 .. Len(stack) /\ stack[Arg].is = "variant" /\ stack[Arg] \in Cell
    BY <1>2, <1>6, <2>1 DEF Lengths
  <2>3. stack[Arg].value \in Val
    BY <2>2, VariantCell
  <2>4. v = Assigned(Undefined, stack[Arg].value)
    BY <2>1
  <2> HIDE DEF v
  <2>5. v = stack[Arg].value
    BY <1>6, <2>3, <2>4 DEF Assigned, Copied, Val
  <2> QED BY <2>2, <2>5
<1>6a. ASSUME Arg \in Nat \ {0}, Arg <= Len(stack) => stack[Arg].is = "variant"
      PROVE  v.type \notin {"function", "prototype"}
  <2>1. CASE Arg > Len(stack)
    BY <2>1 DEF Undefined, Value
  <2>2. CASE ~(Arg > Len(stack))
    <3>1. Arg \in 1 .. Len(stack) /\ Arg \in DOMAIN stack /\ stack[Arg].is = "variant"
      BY <1>2, <1>6a, <2>2 DEF Lengths
    <3>2. PICK S : OwnedBy(S)
      BY DEF MInv, Apart
    <3>3. CellIn(stack[Arg], S)
      BY <3>1, <3>2 DEF OwnedBy
    <3>4. stack[Arg].value.type \notin {"function", "prototype"}
      BY <3>1, <3>3 DEF CellIn, InScript
    <3>5. v = Assigned(Undefined, stack[Arg].value)
      BY <2>2
    <3> HIDE DEF v
    <3> QED BY <3>4, <3>5 DEF Assigned
  <2> QED BY <2>1, <2>2
<1> HIDE DEF v
<1>7. ASSUME Arg \in Nat \ {0}, Arg <= Len(stack) => stack[Arg].is = "variant"
      PROVE  Apart'
  <2>1. \/ OfItsOwn(v)
        \/ \E j \in 1 .. Len(stack) : stack[j].is = "variant" /\ stack[j].value = v
    BY <1>6, <1>7, <1>6a DEF OfItsOwn
  <2>2. \A i \in 1 .. Len(stack') : (i \in 1 .. Len(stack) /\ stack'[i] = stack[i]) \/ stack'[i] = c
    BY <1>2, <1>4, <1>5
  <2>3. \A i \in 1 .. Len(stack') :
          \/ i \in 1 .. Len(stack) /\ stack'[i] = stack[i]
          \/ stack'[i].is = "variant" /\ OfItsOwn(stack'[i].value)
          \/ /\ stack'[i].is = "variant"
             /\ \E j \in 1 .. Len(stack) : stack[j].is = "variant" /\ stack[j].value = stack'[i].value
    BY <1>4, <2>1, <2>2
  <2> QED BY <1>1, <2>3, QuietApart
<1>8. CASE Declaring /\ Arg = 1
  <2>1. /\ declared > 0 /\ Len(stack) = declared - 1 /\ declared \in Nat
        /\ Variables(declared - 1)
    BY <1>2, <1>8 DEF Declaring, Lengths
  <2>2. Arg \in Nat \ {0} /\ (Arg <= Len(stack) => stack[Arg].is = "variant")
    BY <1>8, <2>1 DEF Variables
  <2>3. Aimed'
    <3>1. Len(stack') = declared'
      BY <1>1, <1>5, <2>1
    <3> QED BY <2>1, <3>1, <1>1 DEF Aimed
  <2>4. Means
    <3> SUFFICES ASSUME NEW p \in Readable, ~Declares(p)
                 PROVE  ~Assigns(p) /\ Reads(p)' = Reads(p)
      BY DEF Means
    <3>1. ~Assigns(p)
      BY <1>1 DEF Assigns, Now
    <3>2. CASE \E x \in 1 .. declared : p = <<"stack", x>>
      <4>1. PICK x \in 1 .. declared : p = <<"stack", x>>
        BY <3>2
      <4>2. x # declared
        <5>1. Len(stack) + 1 = declared
          BY <2>1
        <5> QED BY <1>1, <4>1, <5>1 DEF Declares
      <4>3. x \in 1 .. Len(stack) /\ x \in 1 .. Len(stack')
        BY <1>5, <2>1, <4>2
      <4>4. x \in DOMAIN stack /\ x \in DOMAIN stack' /\ stack'[x] = stack[x]
        BY <1>2, <1>4, <1>5, <4>3
      <4>5. ReadIn(p, stack', objects') = ReadIn(p, stack, objects)
        BY <4>1, <4>4 DEF ReadIn
      <4> QED BY <3>1, <4>5, ReadsNow
    <3>3. CASE \E o \in DOMAIN objects, f \in Names : p = <<"object", o, f>>
      <4>1. ReadIn(p, stack', objects') = ReadIn(p, stack, objects)
        BY <1>1, <3>3 DEF ReadIn
      <4> QED BY <3>1, <4>1, ReadsNow
    <3> QED BY <3>2, <3>3 DEF Readable
  <2> QED BY <1>7, <2>2, <2>3, <2>4
<1>9. CASE \E rhs \in Expressions : Assigning(rhs) /\ InStatement(rhs)
  <2>1. PICK rhs \in Expressions : Assigning(rhs) /\ AtOp("PUSHVAR", rhs)
    BY <1>1, <1>9, OpAt DEF MInv
  <2>2. Len(lhs) \in 1 .. 3 /\ declared \in Nat /\ Variables(declared)
    BY <2>1, AtPoint DEF MInv
  <2>3. Done(rhs) = Len(lhs) /\ Arg \in 1 .. declared
    BY <2>1, <2>2, CompiledExpression DEF AtOp, Evaluates
  <2>4. Arg \in Nat \ {0} /\ (Arg <= Len(stack) => stack[Arg].is = "variant")
    BY <2>2, <2>3 DEF Variables
  <2>5. declared <= Len(stack') /\ \A i \in 1 .. declared : stack'[i] = stack[i]
    BY <1>2, <1>5, <2>2 DEF Variables
  <2>6. \A i \in 1 .. Len(stack') : (i \in 1 .. Len(stack) /\ stack'[i] = stack[i]) \/ stack'[i].is # "ref"
    BY <1>2, <1>4, <1>5
  <2>7. Done(rhs) >= Len(lhs)
    BY <2>2, <2>3
  <2>8. Aimed'
    BY <1>1, <2>1, <2>5, <2>6, <2>7, QuietAimed
  <2>9. SameReads(declared, objects, stack, stack', objects')
    BY <1>1, <2>1, <2>5, QuietReads DEF MInv
  <2>10. \A p \in Readable : ~Assigns(p)
    BY <1>1 DEF Assigns, Now
  <2>11. Means
    BY <2>9, <2>10, QuietMeans
  <2> QED BY <1>7, <2>4, <2>8, <2>11
<1> QED BY <1>1, <1>8, <1>9, WhereNow DEF MInv

-----------------------------------------------------------------------------
(* The machine, as it follows a left side.                                 *)

(* A reference, where it is.                                               *)
RefAt(r) ==
  /\ Len(stack) >= declared + 1 /\ r = stack[declared + 1] /\ r.is = "ref"
  /\ r.type # "REF_UNDEFINED" /\ Variables(declared)

LEMMA SpotReads ==
  ASSUME IInv, NEW r, RefAt(r), NEW p, p = r.place, FirstIn(p, objects)
  PROVE  /\ ReadIn(SpotIn(p, objects), stack, objects) = Known(ValueAt(p))
         /\ SpotIn(p, objects)[1] = p[1] /\ SpotIn(p, objects)[2] = p[2]
         /\ p[1] = "object" => SpotIn(p, objects) = <<"object", p[2], objects[p[2]][p[3]].name>>
<1>1. Lengths
  BY LengthsKnown DEF IInv
<1>2. declared + 1 \in 1 .. Len(stack)
  BY <1>1 DEF Lengths, RefAt
<1>3. /\ p[1] \in {"stack", "object"}
      /\ p[1] = "stack" => p[2] \in 1 .. declared
      /\ p[1] = "object" => p[2] \in 1 .. Len(objects) /\ p[3] \in 1 .. Len(objects[p[2]])
  BY <1>2, PlacedValue DEF RefAt
<1>4. CASE p[1] = "stack"
  <2>1. p[2] \in DOMAIN stack
    BY <1>1, <1>3, <1>4, SMTT(20) DEF Lengths, RefAt, Variables
  <2> QED BY <1>4, <2>1 DEF SpotIn, ReadIn, ValueAt
<1>5. CASE p[1] = "object"
  <2>1. PICK props, i : props = objects[p[2]] /\ i = p[3]
    OBVIOUS
  <2>2. i \in 1 .. Len(props) /\ Len(props) \in Nat
    BY <1>1, <1>3, <1>5, <2>1 DEF Lengths
  <2>3. getValueRef(props, props[i].name) = i /\ i # 0
    BY <1>5, <2>1, <2>2 DEF FirstIn
  <2>4. Prop(props, props[i].name) = props[i].value
    BY <2>3 DEF Prop
  <2>5. SpotIn(p, objects) = <<"object", p[2], props[i].name>>
    BY <1>5, <2>1 DEF SpotIn
  <2>6. ReadIn(<<"object", p[2], props[i].name>>, stack, objects) = Known(Prop(props, props[i].name))
    BY <2>1 DEF ReadIn
  <2>7. ValueAt(p) = props[i].value
    BY <1>5, <2>1 DEF ValueAt
  <2> QED BY <1>5, <2>1, <2>4, <2>5, <2>6, <2>7
<1> QED BY <1>3, <1>4, <1>5

(* What the place a reference leads to holds belongs to the script.        *)
LEMMA PlaceOwned ==
  ASSUME IInv, NEW r, RefAt(r), NEW S, OwnedBy(S)
  PROVE  /\ InScript(ValueAt(r.place), S)
         /\ r.place[1] = "object" => r.place[2] \in S
<1>1. Lengths
  BY LengthsKnown DEF IInv
<1>2. declared + 1 \in 1 .. Len(stack) /\ declared + 1 \in DOMAIN stack
  BY <1>1 DEF Lengths, RefAt
<1>3. PICK p : p = r.place
  OBVIOUS
<1>4. /\ p[1] \in {"stack", "object"}
      /\ p[1] = "stack" => p[2] \in 1 .. declared
      /\ p[1] = "object" => p[2] \in 1 .. Len(objects) /\ p[3] \in 1 .. Len(objects[p[2]])
  BY <1>2, <1>3, PlacedValue DEF RefAt
<1>5. p[1] = "object" => p[2] \in S
  <2>1. CellIn(stack[declared + 1], S)
    BY <1>2 DEF OwnedBy
  <2> QED BY <1>3, <2>1 DEF CellIn, RefAt
<1>6. CASE p[1] = "stack"
  <2>1. p[2] \in DOMAIN stack /\ stack[p[2]].is = "variant"
    BY <1>1, <1>4, <1>6 DEF Lengths, RefAt, Variables
  <2>2. CellIn(stack[p[2]], S)
    BY <2>1 DEF OwnedBy
  <2> QED BY <1>3, <1>5, <1>6, <2>1, <2>2 DEF CellIn, ValueAt
<1>7. CASE p[1] = "object"
  <2>1. EntriesIn(objects[p[2]], S)
    BY <1>5, <1>7 DEF OwnedBy
  <2>2. InScript(objects[p[2]][p[3]].value, S)
    BY <1>4, <1>7, <2>1 DEF EntriesIn, EntryIn
  <2> QED BY <1>3, <1>5, <1>7, <2>2 DEF ValueAt
<1> QED BY <1>4, <1>6, <1>7

(* What a child of the place a reference leads to names.                   *)
LEMMA ChildAim ==
  ASSUME MInv, code # <<>>, status = "running", NEW rhs \in Expressions, Assigning(rhs),
         NEW k, k = Done(rhs), k \in 1 .. Len(lhs) - 1, NEW r, RefAt(r),
         NEW v, v = ValueAt(r.place)
  PROVE  /\ v.type = "object" => Aim(lhs, k + 1, stack, objects) = {<<"object", v.data, lhs[k + 1]>>}
         /\ v.type # "object" => Aim(lhs, k + 1, stack, objects) = {}
<1>1. Len(lhs) \in 1 .. 3 /\ declared \in Nat
  BY AtPoint DEF MInv
<1>2. k \in 1 .. 2 /\ k \in 1 .. Len(lhs) /\ k >= 1 /\ k < Len(lhs)
  <2>1. PICK n, d : n = Len(lhs) /\ d = k
    OBVIOUS
  <2>2. n \in 1 .. 3 /\ d \in 1 .. n - 1
    BY <1>1, <2>1
  <2>3. d \in 1 .. 2 /\ d \in 1 .. n /\ d >= 1 /\ d < n
    BY <2>2
  <2> QED BY <2>1, <2>3
<1>3. Through(k)
  BY <1>2, ThroughNow DEF MInv
<1>4. Lengths
  BY LengthsKnown DEF MInv, IInv
<1>5. declared < Len(stack) /\ stack[declared + 1] = r /\ r.is = "ref" /\ r.type # "REF_UNDEFINED"
  BY <1>4 DEF RefAt, Lengths
<1>6. AimsAt(r, Aim(lhs, k, stack, objects), objects)
  BY <1>2, <1>3, <1>5 DEF MInv, Aimed
<1>7. PICK p, q : p = r.place /\ q = SpotIn(p, objects)
  OBVIOUS
<1>8. Aim(lhs, k, stack, objects) = {q} /\ FirstIn(p, objects)
  BY <1>5, <1>6, <1>7 DEF AimsAt
<1>9. ReadIn(q, stack, objects) = Known(v)
  BY <1>7, <1>8, SpotReads DEF MInv
<1>10. Aim(lhs, k + 1, stack, objects) = NamedIn({q}, lhs[k + 1], stack, objects)
  <2>1. Aim(lhs, k + 1, stack, objects)
          = NamedIn(Aim(lhs, k, stack, objects), lhs[k + 1], stack, objects)
    BY <1>2, AimNext
  <2> QED BY <1>8, <2>1
<1>11. CASE v.type = "object"
  <2>1. ReadIn(q, stack, objects) = v
    BY <1>9, <1>11 DEF Known
  <2> QED BY <1>10, <1>11, <2>1 DEF NamedIn
<1>12. CASE v.type # "object"
  <2>1. ReadIn(q, stack, objects).type # "object"
    BY <1>9, <1>12 DEF Known, Undefined, Value
  <2> QED BY <1>10, <1>12, <2>1 DEF NamedIn
<1> QED BY <1>11, <1>12

(* The reference that is left names one more of the names.                 *)
LEMMA LoadAimed ==
  ASSUME MInv, IInv', code # <<>>, status = "running", Step, NEW rhs \in Expressions, Assigning(rhs),
         NEW k, k = Done(rhs), k \in 0 .. Len(lhs) - 1,
         SameReads(declared, objects, stack, stack', objects'),
         AimsAt(stack'[declared + 1], Aim(lhs, k + 1, stack, objects), objects')
  PROVE  Aimed'
<1> SUFFICES ASSUME code' # <<>>, NEW j \in 1 .. Len(lhs), Through(j)'
             PROVE  AimsAt(stack'[declared + 1], Aim(lhs, j, stack', objects'), objects')
  BY DEF Aimed, Step
<1>1. Len(lhs) \in 1 .. 3 /\ declared \in Nat /\ Variables(declared)
  BY AtPoint DEF MInv
<1>2. j = k + 1
  <2>1. j = IF Done(rhs) < Len(lhs) THEN Done(rhs) + 1 ELSE Len(lhs)
    BY ThroughNext DEF MInv
  <2>2. PICK n, d : n = Len(lhs) /\ d = k
    OBVIOUS
  <2>3. n \in 1 .. 3 /\ d \in 0 .. n - 1
    BY <1>1, <2>2
  <2>4. d < n
    BY <2>3
  <2> QED BY <2>1, <2>2, <2>4
<1>3. Closed(declared, stack, objects)
  BY <1>1, ClosedNow DEF MInv
<1>4. Path(lhs, declared)
  BY PathNow DEF MInv
<1>5. Aim(lhs, j, stack', objects') = Aim(lhs, j, stack, objects)
  BY <1>3, <1>4, AimKept
<1> QED BY <1>2, <1>5

(* A reference takes the place of another: the variables stay.             *)
LEMMA RefMeans ==
  ASSUME MInv, IInv', Now("VARLOADREF"), Step, NEW rhs \in Expressions, Assigning(rhs),
         Len(stack) = declared + 1, NEW r \in Cell, r.is = "ref", stack' = Append(Popped(1), r),
         \A o \in DOMAIN objects, f \in Names : Known(Prop(objects'[o], f)) = Known(Prop(objects[o], f)),
         NEW k, k = Done(rhs), k \in 1 .. Len(lhs) - 1,
         AimsAt(r, Aim(lhs, k + 1, stack, objects), objects'),
         NEW S, OwnedBy(S), CellIn(r, S), S \subseteq DOMAIN objects',
         \A o \in S : objects'[o] = objects[o] \/ EntriesIn(objects'[o], S)
  PROVE  Aimed' /\ Apart' /\ Means
<1>1. /\ Len(lhs) \in 1 .. 3 /\ declared \in Nat /\ Len(stack) \in Nat /\ Variables(declared)
  BY AtPoint DEF MInv
<1>2. host' = host /\ code # <<>> /\ status = "running"
  BY DEF Step, Now
<1>3. /\ stack' \in Seq(Cell) /\ Len(stack') = Len(stack) /\ stack'[Len(stack)] = r
      /\ \A i \in 1 .. Len(stack) - 1 : stack'[i] = stack[i]
  BY <1>1, Pushed DEF MInv
<1>4. PICK n : n = declared
  OBVIOUS
<1>5. stack'[n + 1] = r /\ \A x \in 1 .. n : stack'[x] = stack[x]
  <2>1. PICK m : m = Len(stack)
    OBVIOUS
  <2>2. m = n + 1 /\ n \in Nat
    BY <1>1, <1>4, <2>1
  <2>3. m - 1 = n
    BY <2>2
  <2>4. stack'[m] = r /\ \A i \in 1 .. m - 1 : stack'[i] = stack[i]
    BY <1>3, <2>1
  <2> QED BY <2>2, <2>3, <2>4
<1>6. Lengths /\ Lengths'
  BY LengthsKnown, PTL DEF MInv, IInv
<1>7. 1 .. n \subseteq DOMAIN stack /\ 1 .. n \subseteq DOMAIN stack'
  <2>1. DOMAIN stack = 1 .. Len(stack) /\ DOMAIN stack' = 1 .. Len(stack')
    BY <1>6 DEF Lengths
  <2> QED BY <1>1, <1>3, <1>4, <2>1
<1>8. SameReads(n, objects, stack, stack', objects')
  <2>1. PICK os, st, os2, st2 : os = objects /\ st = stack /\ os2 = objects' /\ st2 = stack'
    OBVIOUS
  <2>2. \A o \in DOMAIN os, f \in Names : Known(Prop(os2[o], f)) = Known(Prop(os[o], f))
    BY <2>1
  <2>3. 1 .. n \subseteq DOMAIN st /\ 1 .. n \subseteq DOMAIN st2 /\ \A x \in 1 .. n : st2[x] = st[x]
    BY <1>5, <1>7, <2>1
  <2>4. SameReads(n, os, st, st2, os2)
    BY <2>2, <2>3, VariablesRead
  <2> QED BY <2>1, <2>4
<1>9. Aimed'
  <2>1. k \in 0 .. Len(lhs) - 1
    BY <1>1
  <2>2. AimsAt(stack'[declared + 1], Aim(lhs, k + 1, stack, objects), objects')
    BY <1>4, <1>5
  <2> QED BY <1>2, <1>4, <1>8, <2>1, <2>2, LoadAimed
<1>10. Apart'
  <2>1. \A i \in 1 .. Len(stack') :
           (i \in 1 .. Len(stack) /\ stack'[i] = stack[i]) \/ CellIn(stack'[i], S)
    <3> SUFFICES ASSUME NEW i \in 1 .. Len(stack')
                 PROVE  (i \in 1 .. Len(stack) /\ stack'[i] = stack[i]) \/ CellIn(stack'[i], S)
      OBVIOUS
    <3>1. CASE i = Len(stack)
      BY <1>3, <3>1
    <3>2. CASE i # Len(stack)
      <4>1. i \in 1 .. Len(stack) - 1 /\ i \in 1 .. Len(stack)
        BY <1>1, <1>3, <3>2
      <4> QED BY <1>3, <4>1
    <3> QED BY <3>1, <3>2
  <2>2. \A o \in S : (o \in S /\ objects'[o] = objects[o]) \/ EntriesIn(objects'[o], S)
    OBVIOUS
  <2>3. \A h \in Hosts : host'[h].type = "object" => host'[h].data \notin S
    BY <1>2 DEF OwnedBy
  <2> QED BY <1>6, <2>1, <2>2, <2>3, OwnedStep
<1>11. \A p \in Readable : ~Assigns(p)
  BY DEF Assigns, Now
<1> QED BY <1>4, <1>8, <1>9, <1>10, <1>11, QuietMeans

(* The first integer of a name is the first entry of it.                   *)
IntsOf(props, f) == {i \in DOMAIN props : props[i].name = f /\ props[i].value.type = "int"}

LEMMA RawIsFirst ==
  ASSUME NEW props \in Seq(Property), NEW S, EntriesIn(props, S), NEW f, IntsOf(props, f) # {}
  PROVE  LET m == Min(IntsOf(props, f))
         IN  /\ m \in 1 .. Len(props) /\ props[m].name = f
             /\ props[m].value.type = "int" /\ getValueRef(props, f) = m
<1>0. PICK ints : ints = IntsOf(props, f)
  OBVIOUS
<1>1. Len(props) \in Nat /\ DOMAIN props = 1 .. Len(props)
  OBVIOUS
<1>2. ints \subseteq Nat
  BY <1>0, <1>1 DEF IntsOf
<1>3. PICK m : m = Min(ints)
  OBVIOUS
<1>4. m \in ints
  <2>1. Min(ints) \in ints
    BY <1>0, <1>2, LeastOf
  <2> QED BY <1>3, <2>1
<1>5. m \in 1 .. Len(props) /\ props[m].name = f /\ props[m].value.type = "int"
  BY <1>0, <1>1, <1>4 DEF IntsOf
<1>6. \A j \in 1 .. m - 1 : props[j].name # props[m].name
  BY <1>5 DEF EntriesIn, EntryIn
<1>7. getValueRef(props, props[m].name) = m
  BY <1>5, <1>6, LookupIs
<1> QED BY <1>0, <1>3, <1>5, <1>7

LEMMA NoEntryAims ==
  ASSUME NEW r, r = Ref("REF_UNDEFINED", <<>>), NEW os, NEW S
  PROVE  r \in Cell /\ r.is = "ref" /\ AimsAt(r, {}, os) /\ CellIn(r, S)
BY DEF Ref, Cell, AimsAt, CellIn

Found(os, o, i, f, type, S) ==
  /\ o \in Nat /\ i \in Nat /\ os[o][i].name = f /\ getValueRef(os[o], f) = i /\ o \in S
  /\ type \in {"REF_VALUE", "REF_RAW"}
  /\ type = "REF_RAW" => os[o][i].value.type = "int"

LEMMA EntryAims ==
  ASSUME NEW os, NEW o, NEW i, NEW f, NEW type, NEW S, Found(os, o, i, f, type, S)
  PROVE  LET r == Ref(type, <<"object", o, i>>)
         IN  r \in Cell /\ r.is = "ref" /\ AimsAt(r, {<<"object", o, f>>}, os) /\ CellIn(r, S)
<1>10. PICK r : r = Ref(type, <<"object", o, i>>)
  OBVIOUS
<1>11. /\ o \in Nat /\ i \in Nat /\ os[o][i].name = f /\ getValueRef(os[o], f) = i /\ o \in S
       /\ type \in {"REF_VALUE", "REF_RAW"}
       /\ type = "REF_RAW" => os[o][i].value.type = "int"
  BY DEF Found
<1>1. r.is = "ref" /\ r.type = type /\ r.place = <<"object", o, i>>
  BY <1>10 DEF Ref
<1>2. r \in Cell
  <2>1. <<"object", o, i>> \in Place
    BY <1>11 DEF Place
  <2> QED BY <1>10, <1>11, <2>1 DEF Ref, Cell
<1>3. PICK p : p = <<"object", o, i>>
  OBVIOUS
<1>4. r.place = p /\ p[1] = "object" /\ p[2] = o /\ p[3] = i
  BY <1>1, <1>3
<1>5. SpotIn(p, os) = <<"object", o, f>> /\ FirstIn(p, os)
  BY <1>4, <1>11 DEF SpotIn, FirstIn
<1>6. type = "REF_RAW" => os[p[2]][p[3]].value.type = "int"
  BY <1>4, <1>11
<1>7. AimsAt(r, {<<"object", o, f>>}, os)
  BY <1>1, <1>4, <1>5, <1>6, <1>11 DEF AimsAt
<1>8. CellIn(r, S)
  BY <1>1, <1>4, <1>11 DEF CellIn
<1> QED BY <1>10, <1>1, <1>2, <1>7, <1>8

(* An undefined entry is appended, whatever the names before it.           *)
LEMMA GrownEntries ==
  ASSUME NEW props \in Seq(Property), NEW f \in Names, NEW S, EntriesIn(props, S),
         NEW grown, grown = Append(props, Entry(f, Undefined))
  PROVE  /\ EntriesIn(grown, S) /\ getValueRef(grown, f) \in Nat
         /\ grown[getValueRef(grown, f)].name = f
<1>1. /\ grown \in Seq(Property) /\ Len(grown) = Len(props) + 1 /\ Len(props) \in Nat
      /\ grown[Len(props) + 1] = Entry(f, Undefined)
      /\ \A i \in 1 .. Len(props) : grown[i] = props[i]
  BY UndefinedIsVal, AppendedEntry, AppendProperties DEF Entry, Property
<1>2. PICK n, e : n = Len(props) /\ e = Entry(f, Undefined)
  OBVIOUS
<1>3. e.name = f /\ e.value = Undefined
  BY <1>2 DEF Entry
<1>4. ASSUME NEW i \in 1 .. n + 1
      PROVE  EntryIn(grown, i, S)
  <2>1. CASE i \in 1 .. n
    <3>1. EntryIn(props, i, S)
      BY <1>2, <2>1 DEF EntriesIn
    <3>2. grown[i] = props[i] /\ \A j \in 1 .. i - 1 : grown[j] = props[j]
      BY <1>1, <1>2, <2>1
    <3> QED BY <3>1, <3>2 DEF EntryIn
  <2>2. CASE i = n + 1
    <3>1. grown[i].value = Undefined
      BY <1>1, <1>2, <1>3, <2>2
    <3>2. grown[i].value.type = "undefined"
      <4>1. Undefined.type = "undefined"
        BY DEF Undefined, Value
      <4> QED BY <3>1, <4>1
    <3> QED BY <3>2 DEF EntryIn, InScript
  <2> QED BY <1>1, <1>2, <2>1, <2>2
<1>5. EntriesIn(grown, S)
  BY <1>1, <1>2, <1>4 DEF EntriesIn
<1>6. n + 1 \in 1 .. Len(grown) /\ grown[n + 1].name = f
  BY <1>1, <1>2, <1>3
<1>7. getValueRef(grown, f) \in 1 .. Len(grown) /\ grown[getValueRef(grown, f)].name = f
  BY <1>1, <1>6, FirstEntry
<1> QED BY <1>1, <1>5, <1>7

LEMMA makeRefForChildMeans ==
  ASSUME MInv, IInv', Now("VARLOADREF"), Step, NEW rhs \in Expressions, Assigning(rhs),
         Len(stack) = declared + 1, stack[declared + 1].is = "ref", stack[declared + 1].type = "REF_VALUE",
         NEW k, k = Done(rhs), k \in 1 .. Len(lhs) - 1, lhs[k + 1] \in Names,
         makeRefForChild(stack[declared + 1].place, lhs[k + 1])
  PROVE  Aimed' /\ Apart' /\ Means
<1>0. PICK f \in Names : f = lhs[k + 1]
  OBVIOUS
<1>1. PICK r : r = stack[declared + 1]
  OBVIOUS
<1>2. /\ declared \in Nat /\ Len(stack) \in Nat /\ Variables(declared)
      /\ \A i \in 1 .. Len(stack) : stack[i] \in Cell
  BY AtPoint DEF MInv
<1>3. RefAt(r) /\ r.type = "REF_VALUE"
  BY <1>1, <1>2 DEF RefAt
<1>4. PICK p, v : p = r.place /\ v = ValueAt(p)
  OBVIOUS
<1>5. PICK S : OwnedBy(S)
  BY DEF MInv, Apart
<1>6. InScript(v, S)
  BY <1>3, <1>4, <1>5, PlaceOwned DEF MInv
<1>7. PICK aim : aim = Aim(lhs, k + 1, stack, objects)
  OBVIOUS
<1>8. /\ v.type = "object" => aim = {<<"object", v.data, f>>}
      /\ v.type # "object" => aim = {}
  <2>1. code # <<>> /\ status = "running"
    BY DEF Now
  <2> QED BY <1>0, <1>3, <1>4, <1>7, <2>1, ChildAim
<1>9. PICK props, ints, grown :
        /\ props = objects[v.data]
        /\ ints = {i \in DOMAIN props : props[i].name = f /\ props[i].value.type = "int"}
        /\ grown = Append(props, Entry(f, Undefined))
  OBVIOUS
<1>10. \/ v.type # "object" /\ stack' = Append(Popped(1), Ref("REF_UNDEFINED", <<>>)) /\ UNCHANGED heap
       \/ /\ v.type = "object" /\ ints # {} /\ UNCHANGED heap
          /\ stack' = Append(Popped(1), Ref("REF_RAW", <<"object", v.data, Min(ints)>>))
       \/ /\ v.type = "object" /\ objects' = [objects EXCEPT ![v.data] = grown]
          /\ stack' = Append(Popped(1), Ref("REF_VALUE", <<"object", v.data, getValueRef(grown, f)>>))
       \/ Halt("freed memory")
  <2>1. makeRefForChild(p, f)
    BY <1>0, <1>1, <1>4
  <2> QED BY <1>4, <1>9, <2>1 DEF makeRefForChild
<1>11. Lengths
  BY LengthsKnown DEF MInv, IInv
<1>12. ASSUME v.type = "object"
       PROVE  /\ v.data \in S /\ v.data \in 1 .. Len(objects) /\ v.data \in DOMAIN objects /\ v.data \in Nat
              /\ props \in Seq(Property) /\ EntriesIn(props, S)
  <2>1. v.data \in S
    BY <1>6, <1>12 DEF InScript
  <2>2. v.data \in DOMAIN objects /\ EntriesIn(objects[v.data], S)
    BY <1>5, <2>1 DEF OwnedBy
  <2>3. v.data \in 1 .. Len(objects) /\ Len(objects) \in Nat
    BY <1>11, <2>2 DEF Lengths
  <2> QED BY <1>9, <1>11, <2>1, <2>2, <2>3 DEF Lengths
<1>13. ASSUME NEW c, c \in Cell /\ c.is = "ref" /\ AimsAt(c, aim, objects) /\ CellIn(c, S),
              stack' = Append(Popped(1), c), UNCHANGED heap
       PROVE  Aimed' /\ Apart' /\ Means
  <2>1. objects' = objects
    BY <1>13 DEF heap
  <2>2. \A o \in DOMAIN objects, g \in Names : Known(Prop(objects'[o], g)) = Known(Prop(objects[o], g))
    BY <2>1
  <2>3. S \subseteq DOMAIN objects' /\ \A o \in S : objects'[o] = objects[o] \/ EntriesIn(objects'[o], S)
    BY <1>5, <2>1 DEF OwnedBy
  <2>4. AimsAt(c, Aim(lhs, k + 1, stack, objects), objects')
    BY <1>7, <1>13, <2>1
  <2> QED BY <1>5, <1>13, <2>2, <2>3, <2>4, RefMeans
<1>14. CASE v.type # "object" /\ stack' = Append(Popped(1), Ref("REF_UNDEFINED", <<>>)) /\ UNCHANGED heap
  <2>1. PICK c : c = Ref("REF_UNDEFINED", <<>>)
    OBVIOUS
  <2>2. c \in Cell /\ c.is = "ref" /\ AimsAt(c, aim, objects) /\ CellIn(c, S)
    BY <1>8, <1>14, <2>1, NoEntryAims
  <2> QED BY <1>13, <1>14, <2>1, <2>2
<1>15. CASE /\ v.type = "object" /\ ints # {} /\ UNCHANGED heap
            /\ stack' = Append(Popped(1), Ref("REF_RAW", <<"object", v.data, Min(ints)>>))
  <2>1. PICK m, o : m = Min(ints) /\ o = v.data
    OBVIOUS
  <2>2. props \in Seq(Property) /\ EntriesIn(props, S) /\ o \in Nat /\ o \in S
    BY <1>12, <1>15, <2>1
  <2>3. ints = IntsOf(props, f) /\ ints # {}
    BY <1>9, <1>15 DEF IntsOf
  <2>4. /\ m \in 1 .. Len(props) /\ props[m].name = f
        /\ props[m].value.type = "int" /\ getValueRef(props, f) = m
    BY <2>1, <2>2, <2>3, RawIsFirst
  <2>5. m \in Nat
    BY <2>2, <2>4
  <2>6. PICK c : c = Ref("REF_RAW", <<"object", o, m>>)
    OBVIOUS
  <2>7. props = objects[o] /\ aim = {<<"object", o, f>>}
    BY <1>8, <1>9, <1>15, <2>1
  <2>8. c \in Cell /\ c.is = "ref" /\ AimsAt(c, {<<"object", o, f>>}, objects) /\ CellIn(c, S)
    <3>1. Found(objects, o, m, f, "REF_RAW", S)
      BY <2>2, <2>4, <2>5, <2>7 DEF Found
    <3> QED BY <2>6, <3>1, EntryAims
  <2>9. stack' = Append(Popped(1), c) /\ UNCHANGED heap
    BY <1>15, <2>1, <2>6
  <2> QED BY <1>13, <2>7, <2>8, <2>9
<1>16. CASE /\ v.type = "object" /\ objects' = [objects EXCEPT ![v.data] = grown]
            /\ stack' = Append(Popped(1), Ref("REF_VALUE", <<"object", v.data, getValueRef(grown, f)>>))
  <2>1. PICK o, i : o = v.data /\ i = getValueRef(grown, f)
    OBVIOUS
  <2>9. props \in Seq(Property) /\ EntriesIn(props, S) /\ o \in Nat /\ o \in S
    BY <1>12, <1>16, <2>1
  <2>10. grown = Append(props, Entry(f, Undefined))
    BY <1>9
  <2>11. \A g \in Names : Known(Prop(grown, g)) = Known(Prop(props, g))
    <3>1. \A g : Known(Prop(Append(props, Entry(f, Undefined)), g)) = Known(Prop(props, g))
      BY <2>9, AppendSame
    <3> QED BY <2>10, <3>1
  <2>2. EntriesIn(grown, S) /\ i \in Nat /\ grown[i].name = f
    BY <2>1, <2>9, <2>10, GrownEntries, Zenon
  <2>3. DOMAIN objects' = DOMAIN objects /\ objects'[o] = grown
        /\ \A q \in DOMAIN objects : q # o => objects'[q] = objects[q]
    BY <1>12, <1>16, <2>1
  <2>4. PICK c : c = Ref("REF_VALUE", <<"object", o, i>>)
    OBVIOUS
  <2>5. c \in Cell /\ c.is = "ref" /\ AimsAt(c, {<<"object", o, f>>}, objects') /\ CellIn(c, S)
    <3>1. PICK os : os = objects'
      OBVIOUS
    <3>2. grown = os[o] /\ getValueRef(grown, f) = i
      BY <2>1, <2>3, <3>1
    <3>3. Found(os, o, i, f, "REF_VALUE", S)
      BY <2>2, <2>9, <3>2 DEF Found
    <3>4. c \in Cell /\ c.is = "ref" /\ AimsAt(c, {<<"object", o, f>>}, os) /\ CellIn(c, S)
      BY <2>4, <3>3, EntryAims
    <3> QED BY <3>1, <3>4
  <2>6. AimsAt(c, Aim(lhs, k + 1, stack, objects), objects')
    BY <1>7, <1>8, <1>16, <2>1, <2>5
  <2>7. ASSUME NEW q \in DOMAIN objects, NEW g \in Names
        PROVE  Known(Prop(objects'[q], g)) = Known(Prop(objects[q], g))
    <3>1. CASE q = o
      <4>1. Known(Prop(grown, g)) = Known(Prop(props, g))
        BY <2>11
      <4> QED BY <1>9, <2>1, <2>3, <3>1, <4>1
    <3>2. CASE q # o
      BY <2>3, <3>2
    <3> QED BY <3>1, <3>2
  <2>8. S \subseteq DOMAIN objects' /\ \A q \in S : objects'[q] = objects[q] \/ EntriesIn(objects'[q], S)
    <3>1. S \subseteq DOMAIN objects
      BY <1>5 DEF OwnedBy
    <3> QED BY <2>2, <2>3, <3>1
  <2> QED BY <1>5, <1>16, <2>1, <2>4, <2>5, <2>6, <2>7, <2>8, RefMeans
<1>17. CASE Halt("freed memory")
  <2>1. status' # "running" /\ objects' = objects /\ stack' = stack /\ host' = host
    BY <1>17 DEF Halt, heap, Step
  <2>2. Aimed'
    BY <2>1 DEF Aimed
  <2>3. Apart'
    BY <2>1, SameApart DEF MInv
  <2>4. SameReads(declared, objects, stack, stack', objects')
    BY <2>1 DEF SameReads
  <2>5. \A q \in Readable : ~Assigns(q)
    BY DEF Assigns, Now
  <2> QED BY <2>2, <2>3, <2>4, <2>5, QuietMeans
<1> QED BY <1>10, <1>14, <1>15, <1>16, <1>17

LEMMA DoVarLoadRefMeans ==
  ASSUME MInv, IInv', DoVarLoadRef
  PROVE  Aimed' /\ Apart' /\ Means
<1>1. PICK x : x = Head(code)[3]
  OBVIOUS
<1>2. /\ Now("VARLOADREF") /\ code # <<>> /\ status = "running" /\ Step /\ host' = host
      /\ declared' = declared
      /\ \/ Arg = 1 /\ stack' = Append(stack, Ref("REF_VALUE", <<"stack", x>>)) /\ UNCHANGED heap
         \/ Arg = 0 /\ Top(1).type = "REF_VALUE" /\ makeRefForChild(Top(1).place, x)
         \/ Arg = 0 /\ Top(1).type # "REF_VALUE" /\ stack' = Popped(1) /\ UNCHANGED heap
  BY <1>1 DEF DoVarLoadRef, Now, Step
<1>3. PICK rhs \in Expressions : Assigning(rhs) /\ AtOp("VARLOADREF", rhs)
  BY <1>2, StatementNow DEF StatementAt, MInv
<1>4. /\ Len(lhs) \in 1 .. 3 /\ lhs[1] \in 1 .. declared
      /\ \A i \in 2 .. Len(lhs) : lhs[i] \in Names
      /\ declared \in Nat /\ Len(stack) \in Nat /\ Done(rhs) \in Nat
      /\ Reached(Done(rhs), rhs) /\ Variables(declared)
  BY <1>3, AtPoint DEF MInv
<1>5. PICK k : k = Done(rhs)
  OBVIOUS
<1>6. \/ k = 0 /\ Arg = 1 /\ x = lhs[1]
      \/ k \in 1 .. Len(lhs) - 1 /\ Arg = 0 /\ x = lhs[k + 1]
  BY <1>1, <1>3, <1>5 DEF AtOp
<1>7. \A p \in Readable : ~Assigns(p)
  BY <1>2 DEF Assigns, Now
<1>8. CASE k = 0 /\ Arg = 1 /\ x = lhs[1]
  <2>1. stack' = Append(stack, Ref("REF_VALUE", <<"stack", x>>)) /\ objects' = objects
    BY <1>2, <1>8 DEF heap
  <2>2. Len(stack) = declared
    BY <1>4, <1>5, <1>8 DEF Reached
  <2>3. PICK r : r = Ref("REF_VALUE", <<"stack", x>>)
    OBVIOUS
  <2>4. /\ r.is = "ref" /\ r.type = "REF_VALUE" /\ r.place = <<"stack", x>>
        /\ stack' = Append(stack, r)
    BY <2>1, <2>3 DEF Ref
  <2>5. stack \in Seq(Cell)
    BY DEF MInv, IInv, Shapes
  <2>6. /\ Len(stack') = Len(stack) + 1 /\ stack'[Len(stack) + 1] = r
        /\ \A i \in 1 .. Len(stack) : stack'[i] = stack[i]
    BY <2>4, <2>5, AppendProperties
  <2>7. stack'[declared + 1] = r /\ declared <= Len(stack') /\ \A i \in 1 .. declared : stack'[i] = stack[i]
    BY <1>4, <2>2, <2>6
  <2>8. SameReads(declared, objects, stack, stack', objects')
    BY <1>3, <2>1, <2>7, QuietReads DEF MInv
  <2>9. AimsAt(r, Aim(lhs, k + 1, stack, objects), objects')
    <3>1. Aim(lhs, k + 1, stack, objects) = {<<"stack", x>>}
      BY <1>8 DEF Aim
    <3>2. SpotIn(r.place, objects') = <<"stack", x>> /\ FirstIn(r.place, objects')
      BY <2>4 DEF SpotIn, FirstIn
    <3> QED BY <2>4, <3>1, <3>2 DEF AimsAt
  <2>10. Aimed'
    <3>1. k \in 0 .. Len(lhs) - 1
      BY <1>4, <1>8
    <3>2. AimsAt(stack'[declared + 1], Aim(lhs, k + 1, stack, objects), objects')
      BY <2>7, <2>9
    <3> QED BY <1>2, <1>3, <1>5, <2>8, <3>1, <3>2, LoadAimed
  <2>11. Apart'
    <3>1. Lengths /\ Lengths'
      BY LengthsKnown, PTL DEF MInv, IInv
    <3>2. PICK S : OwnedBy(S)
      BY DEF MInv, Apart
    <3>3. CellIn(r, S)
      BY <2>4 DEF CellIn
    <3>4. \A i \in 1 .. Len(stack') :
            (i \in 1 .. Len(stack) /\ stack'[i] = stack[i]) \/ CellIn(stack'[i], S)
      BY <1>4, <2>6, <3>3
    <3>5. /\ S \subseteq DOMAIN objects'
          /\ \A h \in Hosts : host'[h].type = "object" => host'[h].data \notin S
          /\ \A o \in S : (o \in S /\ objects'[o] = objects[o]) \/ EntriesIn(objects'[o], S)
      BY <1>2, <2>1, <3>2 DEF OwnedBy
    <3> QED BY <3>1, <3>2, <3>4, <3>5, OwnedStep
  <2> QED BY <1>7, <2>8, <2>10, <2>11, QuietMeans
<1>9. CASE k \in 1 .. Len(lhs) - 1 /\ Arg = 0 /\ x = lhs[k + 1]
  <2>1. Len(stack) = declared + 1 /\ stack[declared + 1].is = "ref" /\ Top(1) = stack[declared + 1]
    BY <1>4, <1>5, <1>9 DEF Reached, Top
  <2>2. k = 1 => stack[declared + 1].type = "REF_VALUE"
    BY <1>4, <1>5 DEF Reached
  <2>3. lhs[k + 1] \in Names
    <3>1. k + 1 \in 2 .. Len(lhs)
      BY <1>4, <1>9
    <3> QED BY <1>4, <3>1
  <2>4. CASE Top(1).type = "REF_VALUE" /\ makeRefForChild(Top(1).place, x)
    <3>1. stack[declared + 1].type = "REF_VALUE" /\ makeRefForChild(stack[declared + 1].place, lhs[k + 1])
      BY <1>9, <2>1, <2>4
    <3> QED BY <1>2, <1>3, <1>5, <1>9, <2>1, <2>3, <3>1, makeRefForChildMeans
  <2>5. CASE Top(1).type # "REF_VALUE" /\ stack' = Popped(1) /\ UNCHANGED heap
    <3>1. objects' = objects
      BY <2>5 DEF heap
    <3>2. Len(stack') = declared /\ \A i \in 1 .. declared : stack'[i] = stack[i]
      <4>1. /\ Len(Popped(1)) = Len(stack) - 1
            /\ \A i \in 1 .. Len(stack) - 1 : Popped(1)[i] = stack[i]
        <5>1. 1 \in Nat /\ 1 <= Len(stack)
          BY <1>4, <2>1
        <5> QED BY <5>1, PoppedProperties DEF MInv
      <4>2. Len(stack) - 1 = declared
        BY <1>4, <2>1
      <4> QED BY <2>5, <4>1, <4>2
    <3>3. Aimed'
      BY <1>2, <1>4, <3>2 DEF Aimed
    <3>4. \A i \in 1 .. Len(stack') : i \in 1 .. Len(stack) /\ stack'[i] = stack[i]
      BY <1>4, <2>1, <3>2
    <3>5. Apart'
      BY <1>2, <3>1, <3>4, QuietApart
    <3>6. SameReads(declared, objects, stack, stack', objects')
      BY <1>3, <1>4, <3>1, <3>2, QuietReads DEF MInv
    <3> QED BY <1>7, <3>3, <3>5, <3>6, QuietMeans
  <2> QED BY <1>2, <1>9, <2>4, <2>5
<1> QED BY <1>6, <1>8, <1>9

-----------------------------------------------------------------------------
(* The machine, as it stores.                                              *)

LEMMA TargetIs ==
  ASSUME Len(lhs) \in 1 .. 3
  PROVE  Target = Aim(lhs, Len(lhs), stack, objects)
<1>1. \A p : Reads(p) = ReadIn(p, stack, objects)
  BY ReadsNow
<1>2. \A base, f : Named(base, f) = NamedIn(base, f, stack, objects)
  BY <1>1 DEF Named, NamedIn
<1>3. PICK x : x = {<<"stack", lhs[1]>>}
  OBVIOUS
<1>4. CASE Len(lhs) = 1
  BY <1>4 DEF Target, Aim
<1>5. CASE Len(lhs) = 2
  <2>1. Target = Named(x, lhs[2]) /\ Aim(lhs, 2, stack, objects) = NamedIn(x, lhs[2], stack, objects)
    BY <1>3, <1>5 DEF Target, Aim
  <2> QED BY <1>2, <1>5, <2>1
<1>6. CASE Len(lhs) = 3
  <2>1. /\ Target = Named(Named(x, lhs[2]), lhs[3])
        /\ Aim(lhs, 3, stack, objects) = NamedIn(NamedIn(x, lhs[2], stack, objects), lhs[3], stack, objects)
    BY <1>3, <1>6 DEF Target, Aim
  <2> QED BY <1>2, <1>6, <2>1
<1> QED BY <1>4, <1>5, <1>6

(* The place of a reference, and what is in it after a write.              *)
Placed(p) ==
  \/ \E x \in 1 .. declared : p = <<"stack", x>>
  \/ \E o \in DOMAIN objects : \E i \in 1 .. Len(objects[o]) : p = <<"object", o, i>>
WrittenAt(p, v, made) ==
  /\ Len(stack') = declared
  /\ \A i \in 1 .. declared :
       stack'[i] = IF p[1] = "stack" /\ i = p[2] THEN Variant(v) ELSE stack[i]
  /\ Len(objects') = Len(objects) + Len(made)
  /\ \A o \in DOMAIN objects :
       objects'[o] = IF p[1] = "object" /\ o = p[2] THEN [objects[o] EXCEPT ![p[3]].value = v] ELSE objects[o]
  /\ \A o \in Len(objects) + 1 .. Len(objects) + Len(made) : objects'[o] = <<>>

LEMMA PlacedNow ==
  ASSUME IInv, NEW r, RefAt(r)
  PROVE  Placed(r.place)
<1>1. Lengths
  BY LengthsKnown DEF IInv
<1>2. declared + 1 \in 1 .. Len(stack) /\ r \in Cell
  BY <1>1 DEF Lengths, RefAt
<1>3. r.place \in Place
  BY <1>2 DEF Cell, RefAt
<1>4. PICK p : p = r.place
  OBVIOUS
<1>5. /\ p[1] \in {"stack", "object"}
      /\ p[1] = "stack" => p[2] \in 1 .. declared
      /\ p[1] = "object" => p[2] \in 1 .. Len(objects) /\ p[3] \in 1 .. Len(objects[p[2]])
  BY <1>2, <1>4, PlacedValue DEF RefAt
<1>6. CASE p[1] = "stack"
  <2>1. p = <<"stack", p[2]>>
    BY <1>3, <1>4, <1>6 DEF Place
  <2> QED BY <1>4, <1>5, <1>6, <2>1 DEF Placed
<1>7. CASE p[1] = "object"
  <2>1. p = <<"object", p[2], p[3]>>
    BY <1>3, <1>4, <1>7 DEF Place
  <2>2. p[2] \in DOMAIN objects
    BY <1>1, <1>5, <1>7 DEF Lengths
  <2> QED BY <1>4, <1>5, <1>7, <2>1, <2>2 DEF Placed
<1> QED BY <1>5, <1>6, <1>7

LEMMA WriteEffect ==
  ASSUME IInv, Len(stack) = declared + 2, Variables(declared), NEW p, Placed(p),
         NEW v \in Val, NEW made \in {<<>>, << <<>> >>}, Write(p, v, made)
  PROVE  WrittenAt(p, v, made)
<1>1. Lengths /\ objects \in Seq(Seq(Property))
  BY LengthsKnown, HeapShape DEF IInv
<1>2. PICK n : n = declared
  OBVIOUS
<1>3. n \in Nat /\ Len(stack) = n + 2 /\ Len(objects) \in Nat /\ DOMAIN objects = 1 .. Len(objects)
  BY <1>1, <1>2 DEF Lengths
<1>4. PICK pop : pop = Popped(2)
  OBVIOUS
<1>5. pop \in Seq(Cell) /\ Len(pop) = n /\ \A i \in 1 .. n : pop[i] = stack[i]
  <2>1. 2 \in Nat /\ 2 <= Len(stack) /\ Len(stack) - 2 = n
    BY <1>3
  <2> QED BY <1>4, <2>1, PoppedProperties
<1>6. made \in Seq(Seq(Property)) /\ Len(made) \in Nat /\ \A k \in 1 .. Len(made) : made[k] = <<>>
  <2>1. made \in Seq(Seq(Property)) /\ Len(made) \in Nat
    BY MadeObjects
  <2>2. CASE made = <<>>
    BY <2>1, <2>2
  <2>3. CASE made = << <<>> >>
    BY <2>1, <2>3
  <2> QED BY <2>2, <2>3
<1>7. PICK os : os = IF p[1] = "stack" THEN objects ELSE [objects EXCEPT ![p[2]][p[3]].value = v]
  OBVIOUS
<1>8. objects' = os \o made
  BY <1>7 DEF Write
<1>9. /\ os \in Seq(Seq(Property)) /\ Len(os) = Len(objects)
      /\ \A o \in DOMAIN objects :
           os[o] = IF p[1] = "object" /\ o = p[2] THEN [objects[o] EXCEPT ![p[3]].value = v] ELSE objects[o]
  <2>1. CASE \E x \in 1 .. declared : p = <<"stack", x>>
    <3>1. p[1] = "stack"
      BY <2>1
    <3> QED BY <1>1, <1>7, <3>1
  <2>2. CASE \E o \in DOMAIN objects : \E i \in 1 .. Len(objects[o]) : p = <<"object", o, i>>
    <3>1. p[1] = "object" /\ p[2] \in 1 .. Len(objects) /\ p[3] \in 1 .. Len(objects[p[2]])
      BY <1>3, <2>2
    <3>2. PICK d, j : d = p[2] /\ j = p[3]
      OBVIOUS
    <3>3. os = [objects EXCEPT ![d][j].value = v]
      BY <1>7, <3>1, <3>2
    <3>4. os \in Seq(Seq(Property))
      BY <1>1, <3>1, <3>2, <3>3, EntryReplaced DEF Written
    <3>5. Len(os) = Len(objects)
      BY <1>1, <3>3
    <3>6. \A o \in DOMAIN objects : os[o] = IF o = d THEN [objects[o] EXCEPT ![j].value = v] ELSE objects[o]
      BY <3>3
    <3> QED BY <3>1, <3>2, <3>4, <3>5, <3>6
  <2> QED BY <2>1, <2>2 DEF Placed
<1>10. /\ Len(objects') = Len(objects) + Len(made)
       /\ \A o \in 1 .. Len(objects) + Len(made) :
            objects'[o] = IF o <= Len(objects) THEN os[o] ELSE made[o - Len(objects)]
  <2>1. PICK all, m : all = os \o made /\ m = Len(objects)
    OBVIOUS
  <2>2. /\ Len(all) = Len(os) + Len(made)
        /\ \A o \in 1 .. Len(os) + Len(made) : all[o] = IF o <= Len(os) THEN os[o] ELSE made[o - Len(os)]
    <3>1. os \in Seq(Seq(Property)) /\ made \in Seq(Seq(Property))
      BY <1>6, <1>9
    <3>2. /\ Len(os \o made) = Len(os) + Len(made)
          /\ \A o \in 1 .. Len(os) + Len(made) :
               (os \o made)[o] = IF o <= Len(os) THEN os[o] ELSE made[o - Len(os)]
      BY <3>1, ConcatProperties
    <3> QED BY <2>1, <3>2
  <2>3. Len(os) = m /\ objects' = all
    BY <1>8, <1>9, <2>1
  <2>4. /\ Len(all) = m + Len(made)
        /\ \A o \in 1 .. m + Len(made) : all[o] = IF o <= m THEN os[o] ELSE made[o - m]
    BY <2>2, <2>3
  <2> QED BY <2>1, <2>3, <2>4
<1>11. \A o \in DOMAIN objects :
         objects'[o] = IF p[1] = "object" /\ o = p[2] THEN [objects[o] EXCEPT ![p[3]].value = v] ELSE objects[o]
  <2> SUFFICES ASSUME NEW o \in DOMAIN objects PROVE objects'[o] = os[o]
    BY <1>9
  <2>1. o \in 1 .. Len(objects) + Len(made) /\ o <= Len(objects)
    BY <1>3, <1>6
  <2> QED BY <1>10, <2>1
<1>12. \A o \in Len(objects) + 1 .. Len(objects) + Len(made) : objects'[o] = <<>>
  <2> SUFFICES ASSUME NEW o \in Len(objects) + 1 .. Len(objects) + Len(made) PROVE objects'[o] = <<>>
    OBVIOUS
  <2>1. PICK m : m = o - Len(objects)
    OBVIOUS
  <2>2. o \in 1 .. Len(objects) + Len(made) /\ ~(o <= Len(objects)) /\ m \in 1 .. Len(made)
    BY <1>3, <1>6, <2>1
  <2>3. objects'[o] = made[m]
    BY <1>10, <2>1, <2>2
  <2> QED BY <1>6, <2>2, <2>3
<1>13. /\ Len(stack') = n
       /\ \A i \in 1 .. n : stack'[i] = IF p[1] = "stack" /\ i = p[2] THEN Variant(v) ELSE stack[i]
  <2>1. CASE p[1] = "stack"
    <3>1. PICK x \in 1 .. n : p = <<"stack", x>>
      BY <1>2, <2>1 DEF Placed
    <3>2. p[2] = x
      BY <3>1
    <3>3. x \in 1 .. Len(stack) /\ stack[x] \in Cell /\ stack[x].is = "variant"
      BY <1>1, <1>2, <1>3 DEF Lengths, Variables
    <3>4. PICK c : c = [stack[x] EXCEPT !.value = v]
      OBVIOUS
    <3>5. c = Variant(v)
      <4>1. stack[x] = Variant(stack[x].value)
        BY <3>3, VariantCell
      <4> QED BY <3>4, <4>1 DEF Variant
    <3>6. c \in Cell
      BY <3>5 DEF Variant, Cell
    <3>7. stack' = [pop EXCEPT ![x] = c]
      <4>1. stack' = [pop EXCEPT ![x].value = v]
        BY <1>4, <2>1, <3>2 DEF Write
      <4>2. pop[x] = stack[x]
        BY <1>5
      <4> QED BY <3>4, <4>1, <4>2
    <3>8. /\ Len(stack') = n /\ \A i \in 1 .. n : stack'[i] = IF i = x THEN c ELSE pop[i]
      BY <1>5, <3>6, <3>7, ExceptSeq
    <3> QED BY <1>5, <2>1, <3>2, <3>5, <3>8
  <2>2. CASE p[1] # "stack"
    <3>1. stack' = pop
      BY <1>4, <2>2 DEF Write
    <3> QED BY <1>5, <2>2, <3>1
  <2> QED BY <2>1, <2>2
<1> QED BY <1>2, <1>10, <1>11, <1>12, <1>13 DEF WrittenAt

(* What is read afterwards: the value where it was written, and everywhere *)
(* else what was read before.                                              *)
LEMMA WriteRead ==
  ASSUME IInv, IInv', Variables(declared), NEW p, Placed(p), FirstIn(p, objects),
         NEW v \in Val, NEW made, WrittenAt(p, v, made), NEW q \in ReadableIn(declared, objects)
  PROVE  ReadIn(q, stack', objects')
           = IF q = SpotIn(p, objects) THEN Known(v) ELSE ReadIn(q, stack, objects)
<1>1. Lengths /\ Lengths'
  BY LengthsKnown, PTL DEF IInv
<1>2. PICK st, os, st2, os2 : st = stack /\ os = objects /\ st2 = stack' /\ os2 = objects'
  OBVIOUS
<1>3. /\ Len(st2) = declared /\ DOMAIN st2 = 1 .. Len(st2) /\ 1 .. declared \subseteq DOMAIN st
      /\ declared \in Nat
  BY <1>1, <1>2 DEF Lengths, Variables, WrittenAt
<1>4. /\ \A i \in 1 .. declared : st2[i] = IF p[1] = "stack" /\ i = p[2] THEN Variant(v) ELSE st[i]
      /\ \A o \in DOMAIN os :
           os2[o] = IF p[1] = "object" /\ o = p[2] THEN [os[o] EXCEPT ![p[3]].value = v] ELSE os[o]
  BY <1>2 DEF WrittenAt
<1>5. ReadIn(q, st2, os2) = IF q = SpotIn(p, os) THEN Known(v) ELSE ReadIn(q, st, os)
  <2>1. CASE \E x \in 1 .. declared : q = <<"stack", x>>
    <3>1. PICK x \in 1 .. declared : q = <<"stack", x>>
      BY <2>1
    <3>2. ReadIn(q, st2, os2) = Known(st2[x].value) /\ ReadIn(q, st, os) = Known(st[x].value)
      BY <1>3, <3>1 DEF ReadIn
    <3>3. CASE p = q
      <4>1. SpotIn(p, os) = q
        BY <3>1, <3>3 DEF SpotIn
      <4>2. st2[x] = Variant(v)
        BY <1>4, <3>1, <3>3
      <4> QED BY <3>2, <4>1, <4>2 DEF Variant
    <3>4. CASE p # q
      <4>1. ~(p[1] = "stack" /\ x = p[2])
        BY <3>1, <3>4 DEF Placed
      <4>2. SpotIn(p, os) # q
        BY <3>1, <3>4 DEF SpotIn
      <4>3. st2[x] = st[x]
        BY <1>4, <3>1, <4>1
      <4> QED BY <3>2, <4>2, <4>3
    <3> QED BY <3>3, <3>4
  <2>2. CASE \E o \in DOMAIN os, f \in Names : q = <<"object", o, f>>
    <3>1. PICK o \in DOMAIN os, f \in Names : q = <<"object", o, f>>
      BY <2>2
    <3>2. ReadIn(q, st2, os2) = Known(Prop(os2[o], f)) /\ ReadIn(q, st, os) = Known(Prop(os[o], f))
      BY <3>1 DEF ReadIn
    <3>3. CASE p[1] = "object" /\ o = p[2]
      <4>1. PICK i \in 1 .. Len(os[o]) : p[3] = i
        BY <1>2, <3>3 DEF Placed
      <4>2. PICK props : props = os[o]
        OBVIOUS
      <4>3. props \in Seq(Property) /\ i \in 1 .. Len(props)
        BY <1>1, <1>2, <4>1, <4>2 DEF Lengths
      <4>4. getValueRef(props, props[i].name) = i
        BY <1>2, <3>3, <4>1, <4>2 DEF FirstIn
      <4>5. Prop([props EXCEPT ![i].value = v], f) = IF f = props[i].name THEN v ELSE Prop(props, f)
        BY <4>3, <4>4, WriteReads
      <4>6. os2[o] = [props EXCEPT ![i].value = v]
        BY <1>4, <3>3, <4>1, <4>2
      <4>7. SpotIn(p, os) = <<"object", o, props[i].name>>
        BY <3>3, <4>1, <4>2 DEF SpotIn
      <4>8. q = SpotIn(p, os) <=> f = props[i].name
        BY <3>1, <4>7
      <4> QED BY <3>2, <4>2, <4>5, <4>6, <4>8
    <3>4. CASE ~(p[1] = "object" /\ o = p[2])
      <4>1. os2[o] = os[o]
        BY <1>4, <3>4
      <4>2. SpotIn(p, os) # q
        <5>1. CASE p[1] = "stack"
          BY <3>1, <5>1 DEF SpotIn
        <5>2. CASE p[1] # "stack"
          <6>1. p[1] = "object" /\ o # p[2]
            BY <3>4, <5>2 DEF Placed
          <6>2. SpotIn(p, os) = <<"object", p[2], os[p[2]][p[3]].name>>
            BY <5>2 DEF SpotIn
          <6> QED BY <3>1, <6>1, <6>2
        <5> QED BY <5>1, <5>2
      <4> QED BY <3>2, <4>1, <4>2
    <3> QED BY <3>3, <3>4
  <2> QED BY <1>2, <2>1, <2>2 DEF ReadableIn
<1> QED BY <1>2, <1>5

LEMMA EntryWritten ==
  ASSUME NEW props \in Seq(Property), NEW i \in 1 .. Len(props), NEW v, NEW S,
         getValueRef(props, props[i].name) = i, EntriesIn(props, S), InScript(v, S)
  PROVE  EntriesIn([props EXCEPT ![i].value = v], S)
<1>1. PICK e : e = [props[i] EXCEPT !.value = v]
  OBVIOUS
<1>2. props[i] \in Property /\ DOMAIN props = 1 .. Len(props) /\ Len(props) \in Nat
  OBVIOUS
<1>3. e.value = v /\ e.name = props[i].name
  BY <1>1, <1>2 DEF Property
<1>4. PICK after : after = [props EXCEPT ![i] = e]
  OBVIOUS
<1>5. [props EXCEPT ![i].value = v] = after
  BY <1>1, <1>4
<1>6. Len(after) = Len(props) /\ \A j \in 1 .. Len(props) : after[j] = IF j = i THEN e ELSE props[j]
  BY <1>2, <1>4
<1>7. \A j \in 1 .. Len(props) : after[j].name = props[j].name
  BY <1>3, <1>6
<1>8. \A j \in 1 .. Len(props) : props[j].name = props[i].name => i <= j
  <2>1. PICK f : f = props[i].name
    OBVIOUS
  <2>2. getValueRef(props, f) = i /\ i # 0
    BY <2>1
  <2>3. \A j \in 1 .. Len(props) : props[j].name = f => getValueRef(props, f) <= j
    BY <2>2, Lookup
  <2> QED BY <2>1, <2>2, <2>3
<1>9. ASSUME NEW k \in 1 .. Len(props)
      PROVE  EntryIn(after, k, S)
  <2>1. EntryIn(props, k, S)
    BY DEF EntriesIn
  <2>2. \A j \in 1 .. k - 1 : j \in 1 .. Len(props)
    BY <1>2
  <2>3. CASE k = i
    <3>1. after[k].value = v
      BY <1>3, <1>6, <2>3
    <3>2. ASSUME NEW j \in 1 .. k - 1 PROVE after[j].name # after[k].name
      <4>1. j \in 1 .. Len(props) /\ ~(i <= j)
        BY <1>2, <2>3
      <4>2. props[j].name # props[i].name
        BY <1>8, <4>1
      <4> QED BY <1>7, <2>3, <4>1, <4>2
    <3> QED BY <3>1, <3>2 DEF EntryIn
  <2>4. CASE k # i
    <3>1. after[k] = props[k]
      BY <1>6, <2>4
    <3>2. \A j \in 1 .. k - 1 : after[j].name = props[j].name
      BY <1>7, <2>2
    <3> QED BY <2>1, <3>1, <3>2 DEF EntryIn
  <2> QED BY <2>3, <2>4
<1> QED BY <1>5, <1>6, <1>9 DEF EntriesIn

LEMMA WriteApart ==
  ASSUME IInv, IInv', Variables(declared), host' = host, NEW p, Placed(p), FirstIn(p, objects),
         NEW S, OwnedBy(S), p[1] = "object" => p[2] \in S,
         NEW v \in Val, NEW made, Len(made) \in Nat, WrittenAt(p, v, made),
         NEW S2, S2 = S \cup (Len(objects) + 1 .. Len(objects) + Len(made)), InScript(v, S2)
  PROVE  Apart'
<1>1. Lengths /\ Lengths'
  BY LengthsKnown, PTL DEF IInv
<1>2. PICK n, m : n = Len(objects) /\ m = Len(made)
  OBVIOUS
<1>3. n \in Nat /\ m \in Nat /\ Len(objects') = n + m /\ DOMAIN objects = 1 .. n /\ DOMAIN objects' = 1 .. n + m
  BY <1>1, <1>2 DEF Lengths, WrittenAt
<1>4. S \subseteq 1 .. n /\ S2 = S \cup (n + 1 .. n + m)
  BY <1>2, <1>3 DEF OwnedBy
<1>5. S \subseteq S2 /\ S2 \subseteq DOMAIN objects'
  <2>1. 1 .. n \subseteq 1 .. n + m /\ n + 1 .. n + m \subseteq 1 .. n + m
    BY <1>3
  <2> QED BY <1>3, <1>4, <2>1
<1>6. ASSUME NEW h \in Hosts, host'[h].type = "object"
      PROVE  host'[h].data \notin S2
  <2>1. Leads(host[h], strings, objects, arrays) /\ host[h].data \notin S /\ host[h].type = "object"
    BY <1>6 DEF IInv, HostLeads, OwnedBy
  <2>2. host[h].data \in 1 .. n
    BY <1>3, <2>1 DEF Leads
  <2>3. host[h].data \notin n + 1 .. n + m
    BY <1>3, <2>2
  <2> QED BY <1>4, <2>1, <2>3
<1>7. \A i \in 1 .. Len(stack') :
        (i \in 1 .. Len(stack) /\ stack'[i] = stack[i]) \/ CellIn(stack'[i], S2)
  <2> SUFFICES ASSUME NEW i \in 1 .. Len(stack')
               PROVE  (i \in 1 .. Len(stack) /\ stack'[i] = stack[i]) \/ CellIn(stack'[i], S2)
    OBVIOUS
  <2>1. i \in 1 .. declared /\ i \in 1 .. Len(stack)
    BY <1>1 DEF WrittenAt, Variables, Lengths
  <2>2. stack'[i] = Variant(v) \/ stack'[i] = stack[i]
    BY <2>1 DEF WrittenAt
  <2>3. CellIn(Variant(v), S2)
    BY DEF Variant, CellIn
  <2> QED BY <2>1, <2>2, <2>3
<1>8. ASSUME NEW o \in S2
      PROVE  (o \in S /\ objects'[o] = objects[o]) \/ EntriesIn(objects'[o], S2)
  <2>1. CASE o \in n + 1 .. n + m
    <3>1. objects'[o] = <<>>
      BY <1>2, <2>1 DEF WrittenAt
    <3> QED BY <3>1 DEF EntriesIn
  <2>2. CASE o \in S
    <3>1. o \in DOMAIN objects /\ o \in 1 .. n
      BY <1>3, <1>4, <2>2
    <3>2. CASE p[1] = "object" /\ o = p[2]
      <4>1. PICK i \in 1 .. Len(objects[o]) : p[3] = i
        BY <3>2 DEF Placed
      <4>2. PICK props : props = objects[o]
        OBVIOUS
      <4>3. objects'[o] = [props EXCEPT ![i].value = v]
        BY <3>1, <3>2, <4>1, <4>2 DEF WrittenAt
      <4>4. props \in Seq(Property) /\ i \in 1 .. Len(props)
        BY <1>1, <1>2, <3>1, <4>1, <4>2 DEF Lengths
      <4>5. EntriesIn(props, S2)
        <5>1. EntriesIn(props, S)
          BY <2>2, <4>2 DEF OwnedBy
        <5> QED BY <1>5, <5>1, EntriesGrow
      <4>6. getValueRef(props, props[i].name) = i
        BY <3>2, <4>1, <4>2 DEF FirstIn
      <4>7. EntriesIn([props EXCEPT ![i].value = v], S2)
        BY <4>4, <4>5, <4>6, EntryWritten
      <4> QED BY <4>3, <4>7
    <3>3. CASE ~(p[1] = "object" /\ o = p[2])
      <4>1. objects'[o] = objects[o]
        BY <3>1, <3>3 DEF WrittenAt
      <4> QED BY <2>2, <4>1
    <3> QED BY <3>2, <3>3
  <2> QED BY <1>4, <2>1, <2>2
<1> QED BY <1>1, <1>5, <1>6, <1>7, <1>8, OwnedStep

(* The reference of an assignment that stores leads to what it names.      *)
LEMMA StoreAim ==
  ASSUME MInv, Now("VARSTORE"), NEW rhs \in Expressions, Assigning(rhs), AtOp("VARSTORE", rhs), Prepared
  PROVE  /\ Len(stack) = declared + 2 /\ declared \in Nat /\ Variables(declared)
         /\ Top(2) = stack[declared + 1] /\ Top(2).is = "ref"
         /\ Top(2).type # "REF_UNDEFINED" => RefAt(Top(2))
         /\ AimsAt(Top(2), Target, objects)
<1>1. /\ Len(stack) = declared + 2 /\ declared \in Nat /\ Variables(declared)
      /\ Top(2) = stack[declared + 1] /\ Top(2).is = "ref"
  BY PreparedShape DEF MInv
<1>2. /\ Len(lhs) \in 1 .. 3 /\ Done(rhs) = Len(lhs) + EvalLen(rhs) /\ EvalLen(rhs) \in {1, 2}
      /\ code # <<>> /\ status = "running"
  BY AtPoint DEF MInv, AtOp, Now
<1>3. PICK n, d : n = Len(lhs) /\ d = Done(rhs)
  OBVIOUS
<1>4. n \in 1 .. 3 /\ d >= 1 /\ ~(d < n)
  BY <1>2, <1>3
<1>5. Through(n)
  BY <1>3, <1>4, ThroughNow DEF MInv
<1>6. n \in 1 .. Len(lhs) /\ declared < Len(stack)
  BY <1>1, <1>3, <1>4
<1>7. AimsAt(stack[declared + 1], Aim(lhs, n, stack, objects), objects)
  BY <1>1, <1>2, <1>5, <1>6 DEF MInv, Aimed
<1>8. Target = Aim(lhs, n, stack, objects)
  BY <1>2, <1>3, TargetIs
<1>9. Top(2).type # "REF_UNDEFINED" => RefAt(Top(2))
  BY <1>1 DEF RefAt
<1> QED BY <1>1, <1>7, <1>8, <1>9

LEMMA StoreMeans ==
  ASSUME MInv, IInv', Now("VARSTORE"), Step, status' = status,
         NEW rhs \in Expressions, Assigning(rhs), AtOp("VARSTORE", rhs), Prepared,
         Top(2).type # "REF_UNDEFINED", NEW v \in Val, Known(v) \in Stored,
         NEW made \in {<<>>, << <<>> >>}, Write(Top(2).place, v, made),
         \A S : OwnedBy(S) => InScript(v, S \cup (Len(objects) + 1 .. Len(objects) + Len(made)))
  PROVE  Aimed' /\ Apart' /\ Means
<1>1. PICK r, p : r = Top(2) /\ p = r.place
  OBVIOUS
<1>2. /\ Len(stack) = declared + 2 /\ declared \in Nat /\ Variables(declared)
      /\ RefAt(r) /\ AimsAt(r, Target, objects) /\ r.type # "REF_UNDEFINED"
  BY <1>1, StoreAim
<1>3. Placed(p)
  BY <1>1, <1>2, PlacedNow DEF MInv
<1>4. FirstIn(p, objects) /\ Target = {SpotIn(p, objects)}
  BY <1>1, <1>2 DEF AimsAt
<1>5. WrittenAt(p, v, made)
  BY <1>1, <1>2, <1>3, WriteEffect DEF MInv
<1>6. declared' = declared /\ host' = host /\ status = "running"
  BY DEF Step, Now
<1>7. Aimed'
  BY <1>2, <1>5, <1>6 DEF Aimed, WrittenAt
<1>8. Apart'
  <2>1. PICK S : OwnedBy(S)
    BY DEF MInv, Apart
  <2>2. p[1] = "object" => p[2] \in S
    BY <1>1, <1>2, <2>1, PlaceOwned DEF MInv
  <2>3. PICK S2 : S2 = S \cup (Len(objects) + 1 .. Len(objects) + Len(made))
    OBVIOUS
  <2>4. InScript(v, S2) /\ Len(made) \in Nat
    BY <2>1, <2>3, MadeObjects
  <2> QED BY <1>2, <1>3, <1>4, <1>5, <1>6, <2>1, <2>2, <2>3, <2>4, WriteApart DEF MInv
<1>9. ASSUME NEW q \in Readable
      PROVE  Reads(q)' \in IF Assigns(q) THEN Stored ELSE {Reads(q)}
  <2>1. q \in ReadableIn(declared, objects)
    BY DEF Readable, ReadableIn
  <2>2. ReadIn(q, stack', objects')
          = IF q = SpotIn(p, objects) THEN Known(v) ELSE ReadIn(q, stack, objects)
    BY <1>2, <1>3, <1>4, <1>5, <2>1, WriteRead DEF MInv
  <2>3. Assigns(q) <=> q = SpotIn(p, objects)
    BY <1>4, <1>6 DEF Assigns
  <2>4. Reads(q) = ReadIn(q, stack, objects) /\ Reads(q)' = ReadIn(q, stack', objects')
    BY ReadsNow
  <2> QED BY <2>2, <2>3, <2>4
<1>10. Means
  BY <1>9 DEF Means
<1> QED BY <1>7, <1>8, <1>10

LEMMA HaltMeans ==
  ASSUME MInv, Step, UNCHANGED <<heap, stack>>, status' # "running"
  PROVE  Aimed' /\ Apart' /\ Means
<1>1. objects' = objects /\ stack' = stack /\ host' = host
  BY DEF heap, Step
<1>2. Aimed'
  BY DEF Aimed
<1>3. Apart'
  BY <1>1, SameApart DEF MInv
<1>4. SameReads(declared, objects, stack, stack', objects')
  BY <1>1 DEF SameReads
<1>5. \A q \in Readable : ~Assigns(q)
  BY DEF Assigns
<1> QED BY <1>2, <1>3, <1>4, <1>5, QuietMeans

(* What an undefined place, or a raw one, refuses.                         *)
LEMMA RefuseMeans ==
  ASSUME MInv, IInv', Now("VARSTORE"), Step, status' = status, UNCHANGED heap,
         NEW rhs \in Expressions, Assigning(rhs), AtOp("VARSTORE", rhs), Prepared,
         Refuses(Top(2)), stack' = Popped(2)
  PROVE  Aimed' /\ Apart' /\ Means
<1>1. PICK r, p : r = Top(2) /\ p = r.place
  OBVIOUS
<1>2. /\ Len(stack) = declared + 2 /\ declared \in Nat /\ Variables(declared)
      /\ AimsAt(r, Target, objects)
      /\ r.type # "REF_UNDEFINED" => RefAt(r)
  BY <1>1, StoreAim
<1>3. declared' = declared /\ host' = host /\ objects' = objects
  BY DEF Step, heap
<1>4. Len(stack') = declared /\ \A i \in 1 .. declared : stack'[i] = stack[i]
  <2>1. 2 \in Nat /\ 2 <= Len(stack) /\ Len(stack) - 2 = declared
    BY <1>2
  <2> QED BY <2>1, PoppedProperties DEF MInv
<1>5. Aimed'
  BY <1>2, <1>3, <1>4 DEF Aimed
<1>6. \A i \in 1 .. Len(stack') : i \in 1 .. Len(stack) /\ stack'[i] = stack[i]
  BY <1>2, <1>4
<1>7. Apart'
  BY <1>3, <1>6, QuietApart
<1>8. SameReads(declared, objects, stack, stack', objects')
  BY <1>2, <1>3, <1>4, QuietReads DEF MInv
<1>9. CASE r.type = "REF_UNDEFINED"
  <2>1. Target = {}
    BY <1>2, <1>9 DEF AimsAt
  <2>2. \A q \in Readable : ~Assigns(q)
    BY <2>1 DEF Assigns
  <2> QED BY <1>5, <1>7, <1>8, <2>2, QuietMeans
<1>10. CASE r.type = "REF_RAW" /\ Arg = "OBJECT"
  <2>1. /\ Target = {SpotIn(p, objects)} /\ FirstIn(p, objects)
        /\ p[1] = "object" /\ objects[p[2]][p[3]].value.type = "int"
    BY <1>1, <1>2, <1>10 DEF AimsAt
  <2>2. RefAt(r)
    BY <1>2, <1>10
  <2>3. ReadIn(SpotIn(p, objects), stack, objects) = Known(ValueAt(p)) /\ SpotIn(p, objects)[1] = p[1]
    BY <1>1, <2>1, <2>2, SpotReads DEF MInv
  <2>4. ReadIn(SpotIn(p, objects), stack, objects).type = "int"
    <3>1. ValueAt(p) = objects[p[2]][p[3]].value
      BY <2>1 DEF ValueAt
    <3> QED BY <2>1, <2>3, <3>1 DEF Known
  <2>5. ASSUME NEW q \in Readable
        PROVE  (Assigns(q) /\ Overwrites(q)) \/ (~Assigns(q) /\ Reads(q)' = Reads(q))
    <3>1. q \in ReadableIn(declared, objects)
      BY DEF Readable, ReadableIn
    <3>2. ReadIn(q, stack', objects') = ReadIn(q, stack, objects)
      BY <1>8, <3>1 DEF SameReads
    <3>3. Reads(q) = ReadIn(q, stack, objects) /\ Reads(q)' = ReadIn(q, stack', objects')
      BY ReadsNow
    <3>4. CASE Assigns(q)
      <4>1. q = SpotIn(p, objects)
        BY <2>1, <3>4 DEF Assigns
      <4>2. Overwrites(q)
        BY <1>10, <2>1, <2>3, <2>4, <3>3, <4>1 DEF Overwrites
      <4> QED BY <3>4, <4>2
    <3> QED BY <3>2, <3>3, <3>4
  <2>6. Means
    BY <2>5 DEF Means
  <2> QED BY <1>5, <1>7, <2>6
<1> QED BY <1>1, <1>9, <1>10 DEF Refuses

LEMMA DoVarStoreMeans ==
  ASSUME MInv, IInv', DoVarStore
  PROVE  Aimed' /\ Apart' /\ Means
<1>1. Now("VARSTORE") /\ code # <<>> /\ Step
  BY DEF DoVarStore, Now
<1>2. PICK rhs \in Expressions : Assigning(rhs) /\ AtOp("VARSTORE", rhs)
  BY <1>1, StatementNow DEF StatementAt, MInv
<1>3. Lengths /\ ~("running" = "raw memory") /\ ~("running" = "null pointer") /\ ~("running" = "other memory")
  BY LengthsKnown DEF MInv, IInv
<1>4. ASSUME Prepared
      PROVE  /\ Len(stack) = declared + 2 /\ declared \in Nat /\ Variables(declared)
             /\ Top(2) = stack[declared + 1] /\ Top(2).is = "ref" /\ Top(1) \in Cell
             /\ Top(1).is = IF Arg = "VAR" THEN "variant" ELSE "slot"
             /\ Top(1) = stack[declared + 2] /\ declared + 2 \in DOMAIN stack
  <2>1. /\ Len(stack) = declared + 2 /\ declared \in Nat /\ Variables(declared)
        /\ Top(2) = stack[declared + 1] /\ Top(2).is = "ref" /\ Top(1) \in Cell
        /\ Top(1).is = IF Arg = "VAR" THEN "variant" ELSE "slot"
        /\ Top(1) = stack[declared + 2]
    BY <1>2, <1>4, PreparedShape DEF MInv
  <2>2. declared + 2 \in DOMAIN stack
    BY <1>3, <2>1 DEF Lengths
  <2> QED BY <2>1, <2>2
<1>5. CASE Prepared /\ Arg = "VAR" /\ StoreVar(Top(2), Top(1).value)
  <2>1. PICK r, w : r = Top(2) /\ w = Top(1).value
    OBVIOUS
  <2>2. \/ /\ r.type = "REF_VALUE" /\ Write(r.place, Assigned(ValueAt(r.place), w), <<>>) /\ status' = status
        \/ status' # "running" /\ UNCHANGED <<heap, stack>>
    BY <1>3, <1>5, <2>1 DEF StoreVar, Halt
  <2>3. CASE r.type = "REF_VALUE" /\ Write(r.place, Assigned(ValueAt(r.place), w), <<>>) /\ status' = status
    <3>1. PICK old, v : old = ValueAt(r.place) /\ v = Assigned(old, w)
      OBVIOUS
    <3>2. w \in Val /\ Leads(w, strings, objects, arrays)
      BY <1>4, <1>5, <2>1, VariantCell DEF MInv, IInv, StackLeads
    <3>3. old \in Val
      <4>1. declared + 1 \in 1 .. Len(stack)
        BY <1>4, <1>5
      <4> QED BY <1>4, <1>5, <2>1, <2>3, <3>1, <4>1, PlacedValue DEF MInv
    <3>4. v \in Val
      BY <3>1, <3>2, <3>3, AssignedLeads
    <3>5. /\ w.type = "undefined" => v.type = "undefined"
          /\ w.type # "undefined" => v = w
          /\ v.type \notin {"function", "prototype"}
      <4>1. PICK S : OwnedBy(S)
        BY DEF MInv, Apart
      <4>2. CellIn(Top(1), S)
        BY <1>4, <1>5, <4>1 DEF OwnedBy
      <4>3. w.type \notin {"function", "prototype"}
        BY <1>4, <1>5, <2>1, <4>2 DEF CellIn, InScript
      <4>4. w.type \in Copied \cup {"undefined"}
        BY <3>2, <4>3 DEF Copied, Val, Kinds
      <4>5. w = [type |-> w.type, data |-> w.data]
        BY <3>2 DEF Val
      <4> QED BY <3>1, <4>3, <4>4, <4>5 DEF Assigned
    <3>6. Known(v) \in Stored
      <4>1. Stored = {IF w.type = "undefined" THEN Undefined ELSE w}
        BY <1>5, <2>1 DEF Stored
      <4>2. Known(v) = IF w.type = "undefined" THEN Undefined ELSE w
        BY <3>5 DEF Known
      <4> QED BY <4>1, <4>2
    <3>7. ASSUME NEW S, OwnedBy(S), v.type = "object"
          PROVE  v.data \in S
      <4>1. CellIn(Top(1), S)
        BY <1>4, <1>5, <3>7 DEF OwnedBy
      <4>2. v = w
        BY <3>5, <3>7
      <4> QED BY <1>4, <1>5, <2>1, <3>7, <4>1, <4>2 DEF CellIn, InScript
    <3>8. \A S : OwnedBy(S) => InScript(v, S \cup (Len(objects) + 1 .. Len(objects) + Len(<<>>)))
      BY <3>5, <3>7 DEF InScript
    <3>9. Write(Top(2).place, v, <<>>) /\ Top(2).type # "REF_UNDEFINED"
      BY <2>1, <2>3, <3>1
    <3> QED BY <1>1, <1>2, <1>5, <2>3, <3>4, <3>6, <3>8, <3>9, StoreMeans
  <2>4. CASE status' # "running" /\ UNCHANGED <<heap, stack>>
    BY <1>1, <2>4, HaltMeans
  <2> QED BY <2>2, <2>3, <2>4
<1>6. CASE Prepared /\ Arg = "INT" /\ StoreInt(Top(2), Top(1).word)
  <2>1. PICK v : v = Value("int", Top(1).word)
    OBVIOUS
  <2>2. Top(1).word \in Int
    <3>1. Top(1) \in Cell /\ Top(1).is = "slot"
      BY <1>4, <1>6
    <3> QED BY <3>1 DEF Cell
  <2>3. v \in Val /\ v.type = "int"
    BY <2>1, <2>2 DEF Value, Val, Kinds
  <2>4. Known(v) \in Stored
    BY <1>6, <2>1, <2>3 DEF Known, Stored
  <2>5. \A S : InScript(v, S \cup (Len(objects) + 1 .. Len(objects) + Len(<<>>)))
    BY <2>3 DEF InScript
  <2>6. Write(Top(2).place, v, <<>>) /\ Top(2).type # "REF_UNDEFINED" /\ status' = status
    BY <1>6, <2>1 DEF StoreInt
  <2> QED BY <1>1, <1>2, <1>6, <2>3, <2>4, <2>5, <2>6, StoreMeans
<1>7. CASE Prepared /\ Arg = "OBJECT" /\ StoreObject(Top(2))
  <2>1. PICK v : v = Value("object", Len(objects) + 1)
    OBVIOUS
  <2>2. v \in Val /\ v.type = "object" /\ v.data = Len(objects) + 1
    BY <1>3, <2>1 DEF Value, Val, Kinds, Lengths
  <2>3. Known(v) \in Stored
    BY <1>7, <2>1, <2>2 DEF Known, Stored
  <2>4. \A S : InScript(v, S \cup (Len(objects) + 1 .. Len(objects) + Len(<< <<>> >>)))
    <3>1. Len(objects) + 1 \in Len(objects) + 1 .. Len(objects) + Len(<< <<>> >>)
      BY <1>3 DEF Lengths
    <3> QED BY <2>2, <3>1 DEF InScript
  <2>5. Write(Top(2).place, v, << <<>> >>) /\ Top(2).type # "REF_UNDEFINED" /\ status' = status
    BY <1>7, <2>1 DEF StoreObject
  <2> QED BY <1>1, <1>2, <1>7, <2>2, <2>3, <2>4, <2>5, StoreMeans
<1>8. CASE Prepared /\ Refuses(Top(2)) /\ stack' = Popped(2) /\ UNCHANGED <<heap, status>>
  BY <1>1, <1>2, <1>8, RefuseMeans
<1>9. CASE status' # "running" /\ UNCHANGED <<heap, stack>>
  BY <1>1, <1>9, HaltMeans
<1>10. Halt("other memory") => status' # "running" /\ UNCHANGED <<heap, stack>>
  BY <1>3 DEF Halt
<1> QED BY <1>5, <1>6, <1>7, <1>8, <1>9, <1>10 DEF DoVarStore

-----------------------------------------------------------------------------
(* Every step means what it says.                                          *)

LEMMA ScriptMeans ==
  ASSUME MInv, IInv', ScriptStep
  PROVE  Aimed' /\ Apart' /\ (declared > 0 => Means)
BY PushOperandMeans, PushVarMeans, PopVarMeans, DoVarLoadRefMeans, DoVarStoreMeans,
   ExecVariantCallMeans DEF ScriptStep

LEMMA AimedStarts == Init => MInv
<1> SUFFICES ASSUME Init PROVE MInv
  OBVIOUS
<1>1. Aimed
  BY DEF Init, Aimed
<1>2. OwnedBy({})
  BY DEF Init, OwnedBy
<1> QED BY <1>1, <1>2, Starts DEF MInv, Apart

LEMMA BeginMeans ==
  ASSUME MInv, IInv',
         (\E init : Declare(init)) \/ (\E path, rhs : Statement(path, rhs)) \/ EndFunction
  PROVE  Aimed' /\ Apart'
<1>1. AtRest /\ UNCHANGED <<host, objects, stack>> /\ declared' \in {0, declared, declared + 1}
  BY DEF Declare, Statement, EndFunction, heap
<1> QED BY <1>1, BeginsAimed

LEMMA HostRests ==
  ASSUME HostStep
  PROVE  AtRest /\ UNCHANGED code
<1>1. PICK h \in Hosts, g \in Hosts :
        \/ \E n \in Ints : AssignInt(h, n)
        \/ AssignReal(h)
        \/ \E t \in Texts : AssignText(h, t)
        \/ Assign(h, g)
        \/ AssignFunction(h)
        \/ call(h)
        \/ release(h)
        \/ makeArray(h)
        \/ \E i \in 1 .. MaxItems : setValueAt(h, i, g)
        \/ \E f \in Names : setValue(h, f, g)
        \/ \E f \in Names, t \in Texts : setText(h, f, t)
        \/ setValueFails(h, g)
        \/ \E k \in Hosts : Plus(h, g, k)
        \/ PlusFails(h, g)
  BY DEF HostStep
<1>2. \A t : AssignText(h, t) => AtRest /\ UNCHANGED code
  BY Zenon DEF AssignText, HostGives, HostFails
<1>3. (call(h) \/ setValueFails(h, g) \/ PlusFails(h, g)) => AtRest /\ UNCHANGED code
  BY DEF call, setValueFails, PlusFails, HostFails
<1>4. \A n : AssignInt(h, n) => AtRest /\ UNCHANGED code
  BY DEF AssignInt, HostGives
<1>5. /\ (Assign(h, g) \/ makeArray(h)) => AtRest /\ UNCHANGED code
      /\ (AssignReal(h) \/ AssignFunction(h)) => AtRest /\ UNCHANGED code
  BY DEF Assign, makeArray, AssignReal, AssignFunction, HostGives
<1>6. \A i : setValueAt(h, i, g) => AtRest /\ UNCHANGED code
  BY DEF setValueAt
<1>7. /\ \A f : setValue(h, f, g) => AtRest /\ UNCHANGED code
      /\ \A f, t : setText(h, f, t) => AtRest /\ UNCHANGED code
  BY Zenon DEF setValue, setText, AddEntry, HostGives, HostFails
<1>8. \A k : Plus(h, g, k) => AtRest /\ UNCHANGED code
  BY DEF Plus, HostGives
<1>9. release(h) => AtRest /\ UNCHANGED code
  BY Zenon DEF release, HostGives, HostFails
<1> QED BY <1>1, <1>2, <1>3, <1>4, <1>5, <1>6, <1>7, <1>8, <1>9

LEMMA HostMeans ==
  ASSUME MInv, IInv', HostStep
  PROVE  Aimed' /\ Apart'
<1>1. code = <<>> /\ code' = code
  BY HostRests DEF AtRest
<1>2. Aimed'
  BY <1>1 DEF Aimed
<1> QED BY <1>2, HostStepApart DEF MInv

LEMMA MeansProceeds == MInv /\ [Next]_vars => MInv' /\ (code # <<>> /\ declared > 0 /\ Next => Means)
<1> SUFFICES ASSUME MInv, [Next]_vars
             PROVE  MInv' /\ (code # <<>> /\ declared > 0 /\ Next => Means)
  OBVIOUS
<1>1. IInv'
  BY Proceeds DEF MInv
<1>2. CASE ScriptStep
  BY <1>1, <1>2, ScriptMeans DEF MInv
<1>3. CASE HostStep
  <2>1. code = <<>>
    BY <1>3, HostRests DEF AtRest
  <2> QED BY <1>1, <1>3, <2>1, HostMeans DEF MInv
<1>4. CASE (\E init : Declare(init)) \/ (\E path, rhs : Statement(path, rhs)) \/ EndFunction
  <2>1. code = <<>>
    BY <1>4 DEF Declare, Statement, EndFunction, AtRest
  <2>2. Aimed' /\ Apart'
    BY <1>1, <1>4, BeginMeans
  <2> QED BY <1>1, <2>1, <2>2 DEF MInv
<1>5. CASE ~Next
  <2>1. UNCHANGED vars
    BY <1>5
  <2>2. Aimed' /\ Apart'
    BY <2>1 DEF MInv, Aimed, Apart, OwnedBy, Through, vars
  <2> QED BY <1>1, <1>5, <2>2 DEF MInv
<1> QED BY <1>2, <1>3, <1>4, <1>5 DEF Next

(* Whatever the program did before, an assignment, once through, changes   *)
(* what its left side names to the value of its right side, and no         *)
(* instruction changes anything else a program can read.                   *)
THEOREM AssignmentsMeanWhatTheySay == Spec => StoreMeansAssign
<1>1. MInv /\ [Next]_vars => (code # <<>> /\ declared > 0 /\ Next => Means)
  BY MeansProceeds
<1>2. MInv /\ [Next]_vars
        => [code # <<>> /\ declared > 0 =>
              \A p \in Readable :
                \/ Declares(p) \/ (Assigns(p) /\ Overwrites(p))
                \/ Reads(p)' \in IF Assigns(p) THEN Stored ELSE {Reads(p)}]_vars
  BY <1>1 DEF Means
<1> QED BY <1>2, AimedStarts, MeansProceeds, PTL DEF Spec, StoreMeansAssign
===============================================================================
