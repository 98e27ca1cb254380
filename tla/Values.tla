-------------------------------- MODULE Values --------------------------------
(***************************************************************************)
(* The dynamic values: RzValue, the strings, objects and arrays it points  *)
(* to and never frees, and its two users.  A host assigns, combines and    *)
(* fills values of its own; a script's function declares variables of type *)
(* var and assigns to them and to their properties, compiled into the      *)
(* instructions of vm_dynamic.cpp and run one at a time.                   *)
(*                                                                         *)
(* The operand stack begins with the variables of the function.  A string  *)
(* is the number of a cell of "strings", 0 for the null pointer; objects   *)
(* and arrays are numbers likewise, and what else a payload may be is      *)
(* negative.  A string is deleted when its count is 0.  "status" is        *)
(* "running" until the program follows a null pointer or memory that is    *)
(* not what it takes it for; from there on it may do anything, and the     *)
(* model stops.                                                            *)
(***************************************************************************)
EXTENDS Integers, Sequences, SequencesExt, FiniteSetsExt

CONSTANTS Hosts, Names, Ints, Texts,
          MaxInt, MaxLocals, MaxObjects, MaxEntries, MaxStrings, MaxArrays, MaxItems,
          MaxSteps   (* statements and host calls                          *)

ASSUME ValuesAssumption ==
  /\ Ints \subseteq Nat
  /\ {MaxLocals, MaxObjects, MaxEntries, MaxStrings, MaxArrays, MaxItems, MaxSteps} \subseteq Nat

VARIABLES
  host,      (* the values of the host                                     *)
  strings,   (* AEString: str and ref; fate: see release                   *)
  objects,   (* AEObject: m_names and m_properties, pairwise               *)
  arrays,    (* AEArray                                                    *)
  stack,     (* variables, then operands, top last                         *)
  declared,  (* how many of them are variables                             *)
  code,      (* what is left of the statement that runs                    *)
  lhs,       (* what it assigns to: only the properties read this          *)
  status,
  steps      (* how many statements and calls of the host have begun       *)

vars == <<host, strings, objects, arrays, stack, declared, code, lhs, status, steps>>
heap == <<strings, objects, arrays>>

-----------------------------------------------------------------------------
(* RzValue.                                                                *)

Value(t, d) == [type |-> t, data |-> d]
Undefined == Value("undefined", 0)

Dyn == -1    (* the address of some AEDynamicObject, which nothing reads   *)
Bits == -2   (* the bits of a real                                         *)

(* A real is written over the payload and the tag stays: what then says it *)
(* is a pointer has a type of its own here.  The low word of a float of    *)
(* up to 20 significant bits, widened, is 0.                               *)
Overlaid == {"realstring", "realobject", "realarray"}
WithReal(v) ==
  CASE v.type = "int" -> Value("int", 0)
    [] v.type = "string" -> Value("realstring", Bits)
    [] v.type = "object" -> Value("realobject", Bits)
    [] v.type = "array" -> Value("realarray", Bits)
    [] OTHER -> Value(v.type, Bits)

Copied == {"array", "object", "int", "real", "string"} \cup Overlaid

(* Mutant: the arm of the arrays is missing.                               *)
Assigned_NoArray(old, v) ==
  [type |-> v.type, data |-> IF v.type \in Copied \ {"array"} THEN v.data ELSE old.data]

(* operator=(const RzValue&): pointers are copied, and nothing is counted; *)
(* functions and prototypes have no arm, and the old payload stays.        *)
Assigned(old, v) ==
  [type |-> v.type, data |-> IF v.type \in Copied THEN v.data ELSE old.data]

(* Mutant: the destructor releases, as its comment has it.                 *)
Destroyed_Releases(ss, v) ==
  IF v.type = "string" /\ v.data # 0 THEN [ss EXCEPT ![v.data].ref = @ - 1] ELSE ss

(* The destructor's release is commented out.                              *)
Destroyed(ss, v) == ss

NewString(t) == [str |-> t, ref |-> 1, fate |-> "held"]
Entry(f, v) == [name |-> f, value |-> v]

(* Mutant: the last entry of the name.                                     *)
getValueRef_Last(props, f) == SelectLastInSeq(props, LAMBDA e : e.name = f)

(* The first entry of the name.                                            *)
getValueRef(props, f) == SelectInSeq(props, LAMBDA e : e.name = f)

property(v, f) ==
  IF v.type = "object" /\ getValueRef(objects[v.data], f) # 0
  THEN objects[v.data][getValueRef(objects[v.data], f)].value ELSE Undefined

(* A pointer that must not be followed, and what comes of following it.    *)
Dangling(v) ==
  IF v.type = "string" THEN v.data \notin {s \in DOMAIN strings : strings[s].ref > 0}
  ELSE v.type \in Overlaid
Fault(v) ==
  CASE v.data = 0 -> "null pointer" [] v.type = "string" -> "freed memory" [] OTHER -> "other memory"

-----------------------------------------------------------------------------
(* The host, between two statements of the script.                         *)

AtRest == status = "running" /\ code = <<>>
HostGives(h, v) == host' = [host EXCEPT ![h] = v] /\ UNCHANGED <<stack, declared, code, lhs>>

HostFails(why) == status' = why /\ UNCHANGED <<host, heap, stack, declared, code, lhs>>

AssignInt(h, n) == AtRest /\ HostGives(h, Value("int", n)) /\ UNCHANGED <<heap, status>>

(* operator=(float).                                                       *)
AssignReal(h) == AtRest /\ HostGives(h, WithReal(host[h])) /\ UNCHANGED <<heap, status>>

(* The text of a string changes for everyone who shares it; any other kind *)
(* gets a string of its own.                                               *)
AssignText(h, t) ==
  /\ AtRest
  /\ \/ /\ host[h].type \notin {"string", "realstring"}
        /\ Len(strings) < MaxStrings
        /\ strings' = Append(strings, NewString(t))
        /\ HostGives(h, Value("string", Len(strings) + 1))
        /\ UNCHANGED <<objects, arrays, status>>
     \/ /\ host[h].type = "string" /\ ~Dangling(host[h])
        /\ strings' = [strings EXCEPT ![host[h].data].str = t]
        /\ HostGives(h, host[h])
        /\ UNCHANGED <<objects, arrays, status>>
     \/ /\ host[h].type \in {"string", "realstring"} /\ Dangling(host[h])
        /\ HostFails(Fault(host[h]))

Assign(h, g) ==
  /\ AtRest
  /\ HostGives(h, Assigned(host[h], host[g]))
  /\ UNCHANGED <<heap, status>>

(* h = RzValue(fn), and a call of what h then takes for the function.      *)
AssignFunction(h) ==
  /\ AtRest
  /\ HostGives(h, Assigned(host[h], Value("function", 0)))
  /\ UNCHANGED <<heap, status>>

call(h) ==
  /\ AtRest
  /\ host[h].type = "function"
  /\ HostFails(Fault(host[h]))

(* What a program can get at.                                              *)
Reachable ==
  {host[h] : h \in Hosts} \cup (UNION {Range(a) : a \in Range(arrays)})
  \cup {e.value : e \in UNION {Range(o) : o \in Range(objects)}}
  \cup {stack[i].value : i \in {k \in DOMAIN stack : stack[k].is = "variant"}}

(* The count of a string goes down, and the value is undefined, whatever   *)
(* it was.  "fate" records whether others still have the string.           *)
release(h) ==
  LET v == host[h]
      gone == HostGives(h, Value("undefined", v.data)) /\ UNCHANGED <<objects, arrays, status>>
  IN /\ AtRest
     /\ \/ /\ v.type \notin {"string", "realstring"}
           /\ gone
           /\ UNCHANGED strings
        \/ /\ v.type = "string" /\ ~Dangling(v)
           /\ gone
           /\ strings' = [strings EXCEPT ![v.data].ref = @ - 1,
                                         ![v.data].fate = IF v \in Reachable' THEN "shared" ELSE "alone"]
        \/ /\ v.type \in {"string", "realstring"} /\ Dangling(v)
           /\ HostFails(Fault(v))

makeArray(h) ==
  /\ AtRest
  /\ Len(arrays) < MaxArrays
  /\ arrays' = Append(arrays, <<>>)
  /\ HostGives(h, Value("array", Len(arrays) + 1))
  /\ UNCHANGED <<strings, objects, status>>

(* setValue of an index: the array grows with undefined values.            *)
setValueAt(h, i, g) ==
  /\ AtRest
  /\ host[h].type = "array"
  /\ LET a == arrays[host[h].data]
         grown == a \o [k \in 1 .. IF Len(a) < i THEN i - Len(a) ELSE 0 |-> Undefined]
     IN arrays' = [arrays EXCEPT ![host[h].data] = [grown EXCEPT ![i] = Assigned(@, host[g])]]
  /\ strings' = Destroyed(strings, host[g])
  /\ UNCHANGED <<host, objects, stack, declared, code, lhs, status>>

(* str: what is printed of v, level by level.  What must not be followed,  *)
(* or an array within itself, cannot be.  (Names has no "typename".)       *)
Unprintable(v) ==
  LET Level[k \in 0 .. MaxArrays] ==
        IF k = 0 THEN {v}
        ELSE UNION {Range(arrays[w.data]) : w \in {u \in Level[k - 1] : u.type = "array"}}
  IN \/ \E k \in 0 .. MaxArrays : \E w \in Level[k] : Dangling(w)
     \/ \E w \in Level[MaxArrays] : w.type = "array"

(* setValue of a name: anything but an object becomes one, first; an entry *)
(* is appended whether the name is there or not.  The value is printed     *)
(* before, and is the new object if it is the value that became one.       *)
Made(h) == host[h].type \notin {"object", "realobject"}
Owner(h) == IF Made(h) THEN Len(objects) + 1 ELSE host[h].data
Given(h, g) == IF g = h /\ Made(h) THEN Value("object", Owner(h)) ELSE host[g]

AddEntry(h, f, v) ==
  LET now == Append(IF Made(h) THEN <<>> ELSE objects[Owner(h)], Entry(f, v))
  IN /\ Owner(h) <= MaxObjects /\ Len(now) <= MaxEntries
     /\ objects' = IF Made(h) THEN Append(objects, now) ELSE [objects EXCEPT ![Owner(h)] = now]
     /\ HostGives(h, Value("object", Owner(h)))
     /\ UNCHANGED <<arrays, status>>

setValue(h, f, g) ==
  /\ AtRest
  /\ host[h].type # "realobject" /\ ~Unprintable(Given(h, g))
  /\ AddEntry(h, f, Given(h, g))
  /\ strings' = Destroyed(strings, Given(h, g))

(* setValue of a name and a text leaves anything but an object, a          *)
(* prototype and an undefined value as it is.                              *)
setText(h, f, t) ==
  /\ AtRest
  /\ \/ /\ host[h].type = "object"
        /\ Len(strings) < MaxStrings
        /\ strings' = Append(strings, NewString(t))
        /\ AddEntry(h, f, Value("string", Len(strings) + 1))
     \/ /\ host[h].type = "undefined"
        /\ HostGives(h, Value("prototype", Dyn))
        /\ UNCHANGED <<heap, status>>
     \/ /\ host[h].type = "prototype" /\ host[h].data # Dyn
        /\ HostFails(Fault(host[h]))

(* The calls that cannot be carried out: of a value to be printed, and of  *)
(* a payload that is no object, array or string.                           *)
setValueFails(h, g) ==
  /\ AtRest
  /\ \/ Unprintable(Given(h, g)) /\ HostFails("print")
     \/ host[h].type \in {"realobject", "realarray"} /\ HostFails("other memory")

(* operator+: integers add, arrays are joined in a new one, and a string   *)
(* and an integer give a string whose text is lost.                        *)
Joined(a, b) == {a.type, b.type} \subseteq {"array", "realarray"}
Follows(a, b) ==
  CASE Joined(a, b) -> {a, b}
    [] b.type = "int" /\ a.type \in {"string", "realstring"} -> {a}
    [] OTHER -> {}

Sum(a, b) ==
  CASE Joined(a, b) -> Value("array", Len(arrays) + 1)
    [] b.type = "int" /\ a.type = "int" -> Value("int", a.data + b.data)
    [] b.type = "int" /\ a.type = "string" -> Value("string", 0)
    [] OTHER -> Undefined

Plus(h, g, k) ==
  LET a == host[g]
      b == host[k]
  IN /\ AtRest
     /\ \A v \in Follows(a, b) : ~Dangling(v)
     /\ arrays' = IF Joined(a, b) THEN Append(arrays, arrays[a.data] \o arrays[b.data]) ELSE arrays
     /\ Len(arrays') <= MaxArrays
     /\ Joined(a, b) => Len(Last(arrays')) <= MaxItems
     /\ HostGives(h, Assigned(host[h], Sum(a, b)))
     /\ Sum(a, b).type = "int" => Sum(a, b).data <= MaxInt
     /\ UNCHANGED <<strings, objects, status>>

PlusFails(g, k) ==
  /\ AtRest
  /\ \E v \in Follows(host[g], host[k]) : Dangling(v) /\ HostFails(Fault(v))

-----------------------------------------------------------------------------
(* The compiler.  A path is the number of a variable and names after it.   *)

loadVarRef(path) ==
  << <<"VARLOADREF", 1, path[1]>> >> \o [k \in 1 .. Len(path) - 1 |-> <<"VARLOADREF", 0, path[k + 1]>>]

emitExpressionEval(rhs) ==
  CASE rhs.is = "int" -> << <<"LOADK", rhs.value>> >>
    [] rhs.is = "new" -> << <<"NEW">> >>
    [] rhs.is = "var" -> << <<"PUSHVAR", rhs.reads>> >>
    [] rhs.is = "call" -> << <<"PUSHVAR", rhs.reads>>, <<"VARCALL">> >>

StoreType(rhs) ==
  CASE rhs.is = "int" -> "INT" [] rhs.is = "new" -> "OBJECT" [] OTHER -> "VAR"

compileVarAssign(path, rhs) ==
  loadVarRef(path) \o emitExpressionEval(rhs) \o << <<"VARSTORE", StoreType(rhs)>> >>

NoInit == [is |-> "none"]

(* The first variable is what OP_PUSHVAR without an operand copies.        *)
compileVariantStackAlloc(x, init) ==
  << <<"PUSHVAR", 1>> >>
  \o (IF init = NoInit THEN <<>> ELSE compileVarAssign(<<x>>, init))

Expressions ==
  {[is |-> "int", value |-> n] : n \in Ints} \cup {[is |-> "new"]}
  \cup {[is |-> "var", reads |-> x] : x \in 1 .. declared}
  \cup {[is |-> "call", reads |-> x] : x \in 1 .. declared}
Properties == UNION {[1 .. n -> Names] : n \in 0 .. 2}
Paths == UNION {{<<x>> \o p : p \in Properties} : x \in 1 .. declared}

Run(instructions, path) == code' = instructions /\ lhs' = path

Declare(init) ==
  /\ AtRest
  /\ declared < MaxLocals
  /\ declared' = declared + 1
  /\ Run(compileVariantStackAlloc(declared + 1, init), <<declared + 1>>)
  /\ UNCHANGED <<host, heap, stack, status>>

Statement(path, rhs) ==
  /\ AtRest
  /\ Run(compileVarAssign(path, rhs), path)
  /\ UNCHANGED <<host, heap, stack, declared, status>>

(* pop_scope at the end of the function: one OP_POPVAR for each variable.  *)
EndFunction ==
  /\ AtRest
  /\ declared > 0
  /\ Run([k \in 1 .. declared |-> <<"POPVAR">>], <<>>)
  /\ declared' = 0
  /\ UNCHANGED <<host, heap, stack, status>>

-----------------------------------------------------------------------------
(* The virtual machine.  A reference names a place: a variable, or an      *)
(* entry of an object.                                                     *)

Slot(n) == [is |-> "slot", word |-> n]
Variant(v) == [is |-> "variant", value |-> v]
Ref(type, p) == [is |-> "ref", type |-> type, place |-> p]

ValueAt(p) == IF p[1] = "stack" THEN stack[p[2]].value ELSE objects[p[2]][p[3]].value

Now(op) == status = "running" /\ code # <<>> /\ Head(code)[1] = op
Arg == Head(code)[2]
Step == code' = Tail(code) /\ UNCHANGED <<host, declared, lhs>>
Halt(why) == status' = why /\ UNCHANGED <<heap, stack>>
Holds(k, what) == Len(stack) >= k /\ stack[Len(stack) - k + 1].is = what
Top(k) == stack[Len(stack) - k + 1]
Popped(k) == SubSeq(stack, 1, Len(stack) - k)

(* OP_LOADK, and OP_NEW with the address of a new native object.           *)
PushOperand ==
  /\ \/ Now("LOADK") /\ stack' = Append(stack, Slot(Arg))
     \/ Now("NEW") /\ stack' = Append(stack, Slot(0))
  /\ Step
  /\ UNCHANGED <<heap, status>>

(* pushVariant constructs the copy before it assigns: a variable that is   *)
(* copied to its own place is undefined.                                   *)
PushVar ==
  /\ Now("PUSHVAR")
  /\ stack' = Append(stack, Variant(
       IF Arg > Len(stack) THEN Undefined ELSE Assigned(Undefined, stack[Arg].value)))
  /\ Step
  /\ UNCHANGED <<heap, status>>

PopVar ==
  /\ Now("POPVAR")
  /\ stack' = Popped(1)
  /\ strings' = Destroyed(strings, Top(1).value)
  /\ Step
  /\ UNCHANGED <<objects, arrays, status>>

(* makeRefForChild: the first integer of the name is handed out raw; any   *)
(* other name is appended first, whether it is there or not.  What grows   *)
(* may move, and then the value the reference came from is gone.           *)
makeRefForChild(p, f) ==
  LET v == ValueAt(p)
      props == objects[v.data]
      ints == {i \in DOMAIN props : props[i].name = f /\ props[i].value.type = "int"}
      grown == Append(props, Entry(f, Undefined))
  IN \/ /\ v.type # "object"
        /\ stack' = Append(Popped(1), Ref("REF_UNDEFINED", <<>>))
        /\ UNCHANGED <<heap, status>>
     \/ /\ v.type = "object" /\ ints # {}
        /\ stack' = Append(Popped(1), Ref("REF_RAW", <<"object", v.data, Min(ints)>>))
        /\ UNCHANGED <<heap, status>>
     \/ /\ v.type = "object" /\ ints = {}
        /\ Len(grown) <= MaxEntries
        /\ \/ /\ objects' = [objects EXCEPT ![v.data] = grown]
              /\ stack' = Append(Popped(1),
                   Ref("REF_VALUE", <<"object", v.data, getValueRef(grown, f)>>))
              /\ UNCHANGED <<strings, arrays, status>>
           \/ /\ p[1] = "object" /\ p[2] = v.data
              /\ Halt("freed memory")

(* A reference into a raw integer is taken from the stack, and nothing put *)
(* there.                                                                  *)
DoVarLoadRef ==
  /\ Now("VARLOADREF")
  /\ LET x == Head(code)[3]
     IN \/ /\ Arg = 1
           /\ stack' = Append(stack, Ref("REF_VALUE", <<"stack", x>>))
           /\ UNCHANGED <<heap, status>>
        \/ /\ Arg = 0 /\ Top(1).type = "REF_VALUE"
           /\ makeRefForChild(Top(1).place, x)
        \/ /\ Arg = 0 /\ Top(1).type # "REF_VALUE"
           /\ stack' = Popped(1)
           /\ UNCHANGED <<heap, status>>
  /\ Step

(* Mutant: only the operand is taken from the stack.                       *)
Write_KeepsRef(p, v, made) ==
  IF p[1] = "stack"
  THEN stack' = [Popped(1) EXCEPT ![p[2]].value = v] /\ objects' = objects \o made
  ELSE stack' = Popped(1) /\ objects' = [objects EXCEPT ![p[2]][p[3]].value = v] \o made

(* v at place p, the reference and the operand gone from the stack, and    *)
(* the objects that were made for v.                                       *)
Write(p, v, made) ==
  IF p[1] = "stack"
  THEN stack' = [Popped(2) EXCEPT ![p[2]].value = v] /\ objects' = objects \o made
  ELSE stack' = Popped(2) /\ objects' = [objects EXCEPT ![p[2]][p[3]].value = v] \o made

StoreVar(r, v) ==
  \/ /\ r.type = "REF_VALUE"
     /\ Write(r.place, Assigned(ValueAt(r.place), v), <<>>)
     /\ strings' = Destroyed(strings, v)
     /\ UNCHANGED <<arrays, status>>
  \/ r.type = "REF_RAW" /\ Halt("raw memory")
  \/ r.type = "REF_UNDEFINED" /\ Halt("null pointer")

StoreInt(r, n) ==
  /\ r.type # "REF_UNDEFINED"
  /\ Write(r.place, Value("int", n), <<>>)
  /\ UNCHANGED <<strings, arrays, status>>

(* setFromObject wraps the address in a new object.                        *)
StoreObject(r) ==
  /\ r.type = "REF_VALUE"
  /\ Len(objects) < MaxObjects
  /\ Write(r.place, Value("object", Len(objects) + 1), << <<>> >>)
  /\ UNCHANGED <<strings, arrays, status>>

(* An undefined place refuses the value, and a raw one an object.          *)
Refuses(r) == r.type = "REF_UNDEFINED" \/ (r.type = "REF_RAW" /\ Arg = "OBJECT")

(* The operand and the reference are where they should be.                 *)
Prepared == Holds(1, IF Arg = "VAR" THEN "variant" ELSE "slot") /\ Holds(2, "ref")

DoVarStore ==
  /\ Now("VARSTORE")
  /\ \/ Prepared /\ Arg = "VAR" /\ StoreVar(Top(2), Top(1).value)
     \/ Prepared /\ Arg = "INT" /\ StoreInt(Top(2), Top(1).word)
     \/ Prepared /\ Arg = "OBJECT" /\ StoreObject(Top(2))
     \/ /\ Prepared /\ Arg # "VAR" /\ Refuses(Top(2))
        /\ stack' = Popped(2)
        /\ UNCHANGED <<heap, status>>
     \/ ~Prepared /\ Halt("other memory")
  /\ Step

(* A native method of an object, answering with a string; what is called   *)
(* on anything else answers with nothing.                                  *)
ExecVariantCall ==
  /\ Now("VARCALL")
  /\ \/ /\ Top(1).value.type = "object"
        /\ Len(strings) < MaxStrings
        /\ \E t \in Texts :
             LET answer == Value("string", Len(strings) + 1)
             IN /\ strings' = Destroyed(Append(strings, NewString(t)), answer)
                /\ stack' = Append(Popped(1), Variant(answer))
     \/ /\ Top(1).value.type # "object"
        /\ stack' = Popped(1)
        /\ UNCHANGED strings
  /\ Step
  /\ UNCHANGED <<objects, arrays, status>>

-----------------------------------------------------------------------------
Init ==
  /\ host = [h \in Hosts |-> Undefined]
  /\ strings = <<>> /\ objects = <<>> /\ arrays = <<>>
  /\ stack = <<>> /\ declared = 0
  /\ code = <<>> /\ lhs = <<>>
  /\ status = "running"
  /\ steps = 0

HostStep ==
  \E h, g \in Hosts :
    \/ \E n \in Ints : AssignInt(h, n)
    \/ AssignReal(h)
    \/ \E t \in Texts : AssignText(h, t)
    \/ Assign(h, g)
    \/ AssignFunction(h)
    \/ call(h)
    \/ release(h)
    \/ makeArray(h)
    \/ \E i \in 1 .. MaxItems : setValueAt(h, i, g)
    \/ \E f \in Names : setValue(h, f, g)
    \/ \E f \in Names, t \in Texts : setText(h, f, t)
    \/ setValueFails(h, g)
    \/ \E k \in Hosts : Plus(h, g, k)
    \/ PlusFails(h, g)

ScriptStep ==
  \/ PushOperand \/ PushVar \/ PopVar \/ DoVarLoadRef \/ DoVarStore \/ ExecVariantCall

Next ==
  \/ /\ steps < MaxSteps
     /\ steps' = steps + 1
     /\ \/ HostStep
        \/ \E init \in {NoInit} \cup Expressions : Declare(init)
        \/ \E path \in Paths, rhs \in Expressions : Statement(path, rhs)
        \/ EndFunction
  \/ ScriptStep /\ UNCHANGED steps

Spec == Init /\ [][Next]_vars

-----------------------------------------------------------------------------
(* Type correctness: the pointers of a value lead to a cell of its kind.   *)
(* Of a function or a prototype that was assigned, and of a pointer under  *)
(* the bits of a real, nothing of the kind is true.                        *)
WellTyped(v) ==
  CASE v.type = "undefined" -> TRUE
    [] v.type = "int" -> v.data \in Int
    [] v.type = "string" -> v.data \in 0 .. Len(strings)
    [] v.type = "object" -> v.data \in DOMAIN objects
    [] v.type = "array" -> v.data \in DOMAIN arrays
    [] v.type = "prototype" -> v.data \in Int
    [] v.type = "function" -> v.data \in Int
    [] v.type \in Overlaid -> v.data = Bits

(* Every value in use has the payload of its kind, wherever it was copied  *)
(* to, and references lead to a variable or an entry that is there.        *)
TypeOK ==
  /\ \A v \in Reachable : WellTyped(v)
  /\ \A i \in DOMAIN stack : stack[i].is = "ref" /\ stack[i].type # "REF_UNDEFINED" =>
       LET p == stack[i].place
       IN IF p[1] = "stack" THEN p[2] \in 1 .. i - 1 ELSE p[3] \in DOMAIN objects[p[2]]
  /\ declared \in 0 .. MaxLocals
  /\ status \in {"running", "null pointer", "raw memory", "freed memory", "other memory", "print"}

(* A string that was deleted is in no value in use, unless a host released *)
(* it while another value had it: copies share strings without counting    *)
(* (RzValue.cpp:402), no destructor releases (:73), and the address a      *)
(* released value keeps never becomes a string again.                      *)
StringsLive ==
  \A v \in Reachable : v.type = "string" /\ v.data # 0 =>
    strings[v.data].ref > 0 \/ strings[v.data].fate = "shared"

(* Between statements the stack holds the variables and nothing else, as   *)
(* the offsets of the compiler assume; a statement that took one operand   *)
(* more or less never gets there.                                          *)
StackBalanced ==
  AtRest => Len(stack) = declared /\ \A i \in DOMAIN stack : stack[i].is = "variant"

(* What a program can read: its variables, and the properties of objects.  *)
Readable == {<<"stack", x>> : x \in 1 .. declared} \cup {<<"object", o, f>> : o \in DOMAIN objects, f \in Names}
Reads(p) ==
  LET v == IF p[1] = "stack"
           THEN IF p[2] \in DOMAIN stack THEN stack[p[2]].value ELSE Undefined
           ELSE property(Value("object", p[2]), p[3])
  IN IF v.type = "undefined" THEN Undefined ELSE v

(* The place a path names, if all it goes through are objects.             *)
Named(base, f) ==
  IF base # {} /\ \A p \in base : Reads(p).type = "object"
  THEN {<<"object", Reads(p).data, f>> : p \in base} ELSE {}
Target ==
  LET x == {<<"stack", lhs[1]>>}
  IN CASE Len(lhs) = 1 -> x
       [] Len(lhs) = 2 -> Named(x, lhs[2])
       [] Len(lhs) = 3 -> Named(Named(x, lhs[2]), lhs[3])

Stored ==
  CASE Arg = "INT" -> {Value("int", Top(1).word)}
    [] Arg = "OBJECT" -> {Value("object", Len(objects) + 1)}
    [] OTHER -> {IF Top(1).value.type = "undefined" THEN Undefined ELSE Top(1).value}

Assigns(p) == Now("VARSTORE") /\ p \in Target /\ status' = "running"
Declares(p) == Now("PUSHVAR") /\ p = <<"stack", Len(stack) + 1>>
Overwrites(p) == Arg = "OBJECT" /\ p[1] = "object" /\ Reads(p).type = "int"

(* An assignment, once through, changes what its left side names to the    *)
(* value of its right side, and no instruction changes anything else a     *)
(* program can read; the exception is an object over an integer property.  *)
StoreMeansAssign ==
  [][code # <<>> /\ declared > 0 =>
       \A p \in Readable :
         \/ Declares(p) \/ (Assigns(p) /\ Overwrites(p))
         \/ Reads(p)' \in IF Assigns(p) THEN Stored ELSE {Reads(p)}]_vars
===============================================================================
