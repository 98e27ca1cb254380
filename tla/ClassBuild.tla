------------------------------ MODULE ClassBuild ------------------------------
(***************************************************************************)
(* A build: RzBuilder::build collects the classes of all source units into *)
(* module "main", compiles them one after the other and lets CodeGenVM     *)
(* write the functions of the IR into module "test", where the host looks  *)
(* for them.  The engine outlives its builds: its tables only grow, and a  *)
(* name means the first entry that has it.                                 *)
(*                                                                         *)
(* A batch fixes the classes and their functions, which are collected      *)
(* first; imports, members and errors are chosen as the compiler gets to   *)
(* them.  The code emitted for a function is one element of the code: the  *)
(* name of the function.  m_classes and m_currentStruct are the class at   *)
(* hand: a compiler that leaves them set after an error is not used again. *)
(***************************************************************************)
EXTENDS SequencesExt

CONSTANTS
  Classes,     (* names of classes                                         *)
  Methods,     (* names of functions other than the constructors           *)
  Empty,       (* the functions written with an empty block, <<class, f>>  *)
  HostTypes,   (* the primitive types the host registered                  *)
  HostSize,    (* their sizes in bytes                                     *)
  NoType,      (* stands for a member declared without an identifier       *)
  Modules,     (* the modules of the engine that sources may import        *)
  Batches,     (* the batches of units a host may build                    *)
  MaxBuilds,   (* bound: builds in one engine                              *)
  MaxMembers,  (* bound: members of all classes together                   *)
  MaxErrors    (* bound: errors in all builds together                     *)

(* A class as parsed; a constructor is a function with the class's name.   *)
Decl == [name : Classes, functions : Seq(Classes \cup Methods)]

ASSUME BuildAssumption ==
  /\ HostTypes \cap Classes = {}
  /\ NoType \notin HostTypes \cup Classes
  /\ HostSize \in [HostTypes -> Nat \ {0}]
  /\ Batches \subseteq Seq(Seq(Decl))
  /\ Empty \subseteq Classes \X (Classes \cup Methods)
  /\ MaxBuilds \in Nat /\ MaxMembers \in Nat /\ MaxErrors \in Nat

VARIABLES
  types,        (* the RzType objects of the scripts                       *)
  m_types,      (* those in module "main", by their index in types         *)
  typedb,       (* those in the engine                                     *)
  object_heaps, (* those that objects can be made of                       *)
  m_functions,  (* the functions of module "main"                          *)
  m_code,       (* the code of module "main"                               *)
  m_cursor,     (* where the compiler thinks it writes                     *)
  dependencies, (* the modules "main" depends on                           *)
  irfunctions,  (* the functions of the IR of this build                   *)
  test,         (* the functions and the code of module "test"             *)
  generated,    (* how many of irfunctions are in "test", and m_cursor of  *)
                (* the CodeGenVM of this build                             *)
  objects,      (* the objects of the host, with the size allocated        *)
  trees,        (* the units of the batch, each a sequence of Decl         *)
  u, c, f,      (* the unit, class and function the build has got to       *)
  cls,          (* the type of the class at hand                           *)
  fldOffset,    (* the offset of its next member                           *)
  members,      (* the types its members name                              *)
  phase,        (* what the builder is doing                               *)
  ret,          (* the RzCompileResult of generate                         *)
  result,       (* what the last build returned                            *)
  spent         (* how much of the bounds is used up                       *)

tables  == <<types, m_types, typedb, object_heaps>>
code    == <<m_functions, m_code, m_cursor>>
place   == <<trees, u, c, f, cls>>
layout  == <<fldOffset, members>>
outcome == <<ret, result>>
vars    == <<tables, code, dependencies, irfunctions, test, generated, objects,
             place, layout, phase, outcome, spent>>

Phases == {"idle", "collect", "unit", "imports", "class", "members", "metrics",
           "functions", "emit", "end", "codegen", "crashed"}

Class == trees[u][c]

MemberTypes == HostTypes \cup Classes \cup {NoType}

(* A class without constructor is given one.                               *)
HasConstructor == Class.name \in ToSet(Class.functions)
Functions == IF HasConstructor THEN Class.functions
                               ELSE Append(Class.functions, Class.name)

Spend(what, max) == spent[what] < max /\ spent' = [spent EXCEPT ![what] = @ + 1]

-----------------------------------------------------------------------------
(* Tables are searched from the front.                                     *)

HasType(s, n) == \E i \in DOMAIN s : types[s[i]].name = n

getType(s, n) ==
  s[CHOOSE i \in DOMAIN s :
      types[s[i]].name = n /\ \A j \in 1 .. i - 1 : types[s[j]].name # n]

(* RzEngine::getTypeInfo: the engine's types, then those of the modules.   *)
Known(n) == n \in HostTypes \/ HasType(typedb, n) \/ HasType(m_types, n)

getTypeInfo(n) == IF HasType(typedb, n) THEN getType(typedb, n)
                                        ELSE getType(m_types, n)

(* RzQualType::getSize: 0 when there is no type.                           *)
getSize(n) == IF ~Known(n) THEN 0
              ELSE IF n \in HostTypes THEN HostSize[n]
              ELSE types[getTypeInfo(n)].size

HasFunction(n) == \E i \in DOMAIN m_functions : m_functions[i].name = n

getFunction(n) ==
  CHOOSE i \in DOMAIN m_functions :
    m_functions[i].name = n /\ \A j \in 1 .. i - 1 : m_functions[j].name # n

Constructor(class) == <<class, class>>

Fresh(n) == [name |-> n, offset |-> 0, compiled |-> FALSE, whole |-> FALSE]

-----------------------------------------------------------------------------
(* RzBuilder::build.                                                       *)

Init ==
  /\ types = <<>> /\ m_types = <<>> /\ typedb = <<>> /\ object_heaps = <<>>
  /\ m_functions = <<>> /\ m_code = <<>> /\ m_cursor = 0
  /\ dependencies = {}
  /\ irfunctions = <<>>
  /\ test = [functions |-> <<>>, code |-> <<>>]
  /\ generated = 0
  /\ objects = {}
  /\ trees = <<>> /\ u = 1 /\ c = 1 /\ f = 1 /\ cls = 1
  /\ fldOffset = 0 /\ members = {}
  /\ phase = "idle"
  /\ ret = "ok" /\ result = TRUE
  /\ spent = [builds |-> 0, members |-> 0, errors |-> 0]

(* RzModuleNode::checkDuplicates looks at one batch, not at the engine.    *)
Duplicates(batch) ==
  \E i, j \in DOMAIN batch : \E k \in DOMAIN batch[i], l \in DOMAIN batch[j] :
    <<i, k>> # <<j, l>> /\ batch[i][k].name = batch[j][l].name

(* A file that cannot be read or parsed, or a duplicate type.              *)
RejectBatch ==
  /\ phase = "idle"
  /\ Spend("builds", MaxBuilds)
  /\ result' = FALSE
  /\ UNCHANGED <<tables, code, dependencies, irfunctions, test, generated, objects,
                 place, layout, phase, ret>>

(* Mutant: the counter of the code generator is not reset.                 *)
StartBuild_KeepsCount(batch) ==
  /\ phase = "idle"
  /\ Spend("builds", MaxBuilds)
  /\ ~Duplicates(batch)
  /\ trees' = batch
  /\ u' = 1 /\ c' = 1 /\ f' = 1
  /\ m_cursor' = 0
  /\ irfunctions' = <<>>
  /\ ret' = "ok"
  /\ phase' = "collect"
  /\ UNCHANGED <<tables, m_functions, m_code, dependencies, test, generated, objects, cls, layout,
                 result>>

(* A new compiler with a new IR.                                           *)
StartBuild(batch) ==
  /\ phase = "idle"
  /\ Spend("builds", MaxBuilds)
  /\ ~Duplicates(batch)
  /\ trees' = batch
  /\ u' = 1 /\ c' = 1 /\ f' = 1
  /\ m_cursor' = 0
  /\ irfunctions' = <<>>
  /\ generated' = 0
  /\ ret' = "ok"
  /\ phase' = "collect"
  /\ UNCHANGED <<tables, m_functions, m_code, dependencies, test, objects, cls, layout,
                 result>>

(* collect: the class is known by name, its functions are not yet code.    *)
CollectClass ==
  /\ phase = "collect"
  /\ u <= Len(trees) /\ c <= Len(trees[u])
  /\ types' = Append(types, [name |-> Class.name, size |-> 0, fields |-> <<>>])
  /\ m_types' = Append(m_types, Len(types) + 1)
  /\ m_functions' = m_functions \o
       [i \in DOMAIN Class.functions |-> Fresh(<<Class.name, Class.functions[i]>>)]
  /\ c' = c + 1
  /\ UNCHANGED <<typedb, object_heaps, m_code, m_cursor, dependencies, irfunctions,
                 test, generated, objects, trees, u, f, cls, layout, phase, outcome, spent>>

NextTree ==
  /\ phase = "collect"
  /\ u <= Len(trees) /\ c > Len(trees[u])
  /\ u' = u + 1 /\ c' = 1
  /\ UNCHANGED <<tables, code, dependencies, irfunctions, test, generated, objects,
                 trees, f, cls, layout, phase, outcome, spent>>

EndCollect ==
  /\ phase = "collect"
  /\ u > Len(trees)
  /\ u' = 1 /\ c' = 1
  /\ phase' = "unit"
  /\ UNCHANGED <<tables, code, dependencies, irfunctions, test, generated, objects,
                 trees, f, cls, layout, outcome, spent>>

-----------------------------------------------------------------------------
(* RzCompiler::generate for one unit.                                      *)

(* Mutant: the cursor is not set behind the code there is.                 *)
BeginUnit_KeepsCursor ==
  /\ phase = "unit"
  /\ IF u <= Len(trees)
       THEN UNCHANGED m_cursor /\ ret' = "ok" /\ c' = 1 /\ phase' = "imports"
       ELSE phase' = "codegen" /\ UNCHANGED <<m_cursor, ret, c>>
  /\ UNCHANGED <<tables, m_functions, m_code, dependencies, irfunctions, test,
                 generated, objects, trees, u, f, cls, layout, result, spent>>

BeginUnit ==
  /\ phase = "unit"
  /\ IF u <= Len(trees)
       THEN m_cursor' = Len(m_code) /\ ret' = "ok" /\ c' = 1 /\ phase' = "imports"
       ELSE phase' = "codegen" /\ UNCHANGED <<m_cursor, ret, c>>
  /\ UNCHANGED <<tables, m_functions, m_code, dependencies, irfunctions, test,
                 generated, objects, trees, u, f, cls, layout, result, spent>>

(* compileImport.  To import a module once more changes nothing.           *)
Import(m) ==
  /\ phase = "imports" /\ ret = "ok"
  /\ m \in Modules \ dependencies
  /\ dependencies' = dependencies \cup {m}
  /\ UNCHANGED <<tables, code, irfunctions, test, generated, objects, place, layout,
                 phase, outcome, spent>>

(* An import that resolves to no module ends the loop over the items, not  *)
(* the one over the classes that follows it.                               *)
RejectImport ==
  /\ phase = "imports" /\ ret = "ok"
  /\ Spend("errors", MaxErrors)
  /\ ret' = "aborted"
  /\ UNCHANGED <<tables, code, dependencies, irfunctions, test, generated, objects,
                 place, layout, phase, result>>

EndImports ==
  /\ phase = "imports"
  /\ phase' = IF trees[u] = <<>> THEN "end" ELSE "class"
  /\ UNCHANGED <<tables, code, dependencies, irfunctions, test, generated, objects,
                 place, layout, outcome, spent>>

(* "can't inherit from multiple classes"                                   *)
RejectInheritance ==
  /\ phase = "class"
  /\ Spend("errors", MaxErrors)
  /\ ret' = "aborted"
  /\ phase' = "end"
  /\ UNCHANGED <<tables, code, dependencies, irfunctions, test, generated, objects,
                 place, layout, result>>

(* compileStruct works on the first type of that name in the module.       *)
BeginClass ==
  /\ phase = "class"
  /\ cls' = getType(m_types, Class.name)
  /\ typedb' = Append(typedb, cls')
  /\ m_types' = Append(m_types, cls')
  /\ object_heaps' = Append(object_heaps, cls')
  /\ fldOffset' = 0 /\ members' = {}
  /\ phase' = "members"
  /\ UNCHANGED <<types, code, dependencies, irfunctions, test, generated, objects,
                 trees, u, c, f, outcome, spent>>

(* Mutant: the offset does not move past a primitive.                      *)
LayoutMember_Unions(n) ==
  /\ phase = "members"
  /\ Spend("members", MaxMembers)
  /\ types' = [types EXCEPT ![cls].fields =
                 Append(@, [type |-> n, offset |-> fldOffset, size |-> getSize(n)])]
  /\ fldOffset' = IF n \in HostTypes THEN fldOffset ELSE fldOffset + getSize(n)
  /\ members' = members \cup {n}
  /\ UNCHANGED <<m_types, typedb, object_heaps, code, dependencies, irfunctions, test,
                 generated, objects, place, phase, outcome>>

(* A member takes the size its type has by now.                            *)
LayoutMember(n) ==
  /\ phase = "members"
  /\ Spend("members", MaxMembers)
  /\ types' = [types EXCEPT ![cls].fields =
                 Append(@, [type |-> n, offset |-> fldOffset, size |-> getSize(n)])]
  /\ fldOffset' = fldOffset + getSize(n)
  /\ members' = members \cup {n}
  /\ UNCHANGED <<m_types, typedb, object_heaps, code, dependencies, irfunctions, test,
                 generated, objects, place, phase, outcome>>

(* computeMetrics.                                                         *)
EndMembers ==
  /\ phase = "members"
  /\ types' = [types EXCEPT ![cls].size = IF types[cls].fields = <<>> THEN 1 ELSE 0]
  /\ f' = 1
  /\ phase' = "metrics"
  /\ UNCHANGED <<m_types, typedb, object_heaps, code, dependencies, irfunctions, test,
                 generated, objects, trees, u, c, cls, layout, outcome, spent>>

(* Mutant: a member of the type of the member before it is not counted.    *)
AddSize_Once ==
  /\ phase = "metrics" /\ f <= Len(types[cls].fields)
  /\ LET fields == types[cls].fields IN
       types' = [types EXCEPT ![cls].size =
                   IF f > 1 /\ fields[f].type = fields[1].type
                     THEN @ ELSE @ + getSize(fields[f].type)]
  /\ f' = f + 1
  /\ UNCHANGED <<m_types, typedb, object_heaps, code, dependencies, irfunctions, test,
                 generated, objects, trees, u, c, cls, layout, phase, outcome, spent>>

(* The size of a member of the class itself is what has been summed by now. *)
AddSize ==
  /\ phase = "metrics" /\ f <= Len(types[cls].fields)
  /\ types' = [types EXCEPT ![cls].size = @ + getSize(types[cls].fields[f].type)]
  /\ f' = f + 1
  /\ UNCHANGED <<m_types, typedb, object_heaps, code, dependencies, irfunctions, test,
                 generated, objects, trees, u, c, cls, layout, phase, outcome, spent>>

(* A class without constructor gets a function with code of its own, and a *)
(* function node that is compiled with the others.                         *)
emitClassConstructors ==
  LET name == Constructor(Class.name) IN
  /\ phase = "metrics" /\ f > Len(types[cls].fields)
  /\ IF HasConstructor
       THEN UNCHANGED code
       ELSE /\ m_functions' = Append(m_functions, [Fresh(name) EXCEPT !.offset = m_cursor])
            /\ m_code' = Append(m_code, name)
            /\ m_cursor' = m_cursor + 1
  /\ f' = 1
  /\ phase' = "functions"
  /\ UNCHANGED <<tables, dependencies, irfunctions, test, generated, objects, trees, u,
                 c, cls, layout, outcome, spent>>

(* emitConstructorInjection: the members that get a "new" of their type.   *)
Injected == members \ (HostTypes \cup {NoType})

InjectionCrashes ==
  /\ Functions[f] = Class.name
  /\ \E n \in Injected : ~Known(n)

(* compileFunction; compileStruct ignores whether it succeeded.            *)
CompileFunction(succeeds) ==
  LET i  == getFunction(<<Class.name, Functions[f]>>)
      fn == [m_functions[i] EXCEPT !.offset = m_cursor, !.compiled = TRUE,
                                   !.whole = succeeds]
      fs == [m_functions EXCEPT ![i] = fn]
  IN
  /\ phase = "functions" /\ f <= Len(Functions)
  /\ ~InjectionCrashes
  /\ IF succeeds THEN UNCHANGED spent ELSE Spend("errors", MaxErrors)
  /\ m_functions' = IF succeeds THEN Append(fs, fn) ELSE fs
  /\ m_code' = Append(m_code, <<Class.name, Functions[f]>>)
  /\ m_cursor' = m_cursor + 1
  /\ f' = f + 1
  /\ UNCHANGED <<tables, dependencies, irfunctions, test, generated, objects, trees,
                 u, c, cls, layout, phase, outcome>>

(* isPrimitive is asked of a type that getTypeInfo did not find.           *)
Crash ==
  /\ phase = "functions" /\ f <= Len(Functions)
  /\ InjectionCrashes
  /\ phase' = "crashed"
  /\ UNCHANGED <<tables, code, dependencies, irfunctions, test, generated, objects,
                 place, layout, outcome, spent>>

(* "Circular binding detected": module BindingCheck.                       *)
CheckBindings(circular) ==
  /\ phase = "functions" /\ f > Len(Functions)
  /\ IF circular
       THEN Spend("errors", MaxErrors) /\ ret' = "aborted" /\ phase' = "end"
       ELSE phase' = "emit" /\ UNCHANGED <<ret, spent>>
  /\ f' = 1
  /\ UNCHANGED <<tables, code, dependencies, irfunctions, test, generated, objects,
                 trees, u, c, cls, layout, result>>

(* EmitFunction.  Functions with an empty block are skipped; that of the   *)
(* constructor holds the construction of the members.                      *)
EmptyBlock(n) ==
  /\ n \in Empty \/ (n = Constructor(Class.name) /\ ~HasConstructor)
  /\ ~(n = Constructor(Class.name) /\ Injected # {})

EmitIR ==
  LET n == <<Class.name, Functions[f]>> IN
  /\ phase = "emit" /\ f <= Len(Functions)
  /\ irfunctions' = IF EmptyBlock(n) THEN irfunctions ELSE Append(irfunctions, n)
  /\ f' = f + 1
  /\ UNCHANGED <<tables, code, dependencies, test, generated, objects, trees, u, c, cls,
                 layout, phase, outcome, spent>>

(* The result of the last class is that of the unit.                       *)
EndClass ==
  /\ phase = "emit" /\ f > Len(Functions)
  /\ ret' = "ok"
  /\ f' = 1
  /\ IF c < Len(trees[u]) THEN c' = c + 1 /\ phase' = "class"
                          ELSE phase' = "end" /\ UNCHANGED c
  /\ UNCHANGED <<tables, code, dependencies, irfunctions, test, generated, objects,
                 trees, u, cls, layout, result, spent>>

(* Mutant: the aborted result is not looked at.                            *)
EndUnit_GoesOn ==
  /\ phase = "end"
  /\ phase' = "unit" /\ u' = u + 1 /\ UNCHANGED result
  /\ UNCHANGED <<tables, code, dependencies, irfunctions, test, generated, objects,
                 trees, c, f, cls, layout, ret, spent>>

EndUnit ==
  /\ phase = "end"
  /\ IF ret = "aborted" THEN phase' = "idle" /\ result' = FALSE /\ UNCHANGED u
                        ELSE phase' = "unit" /\ u' = u + 1 /\ UNCHANGED result
  /\ UNCHANGED <<tables, code, dependencies, irfunctions, test, generated, objects,
                 trees, c, f, cls, layout, ret, spent>>

-----------------------------------------------------------------------------
(* CodeGenVM::build: every function becomes "App." and its name.           *)

Generate ==
  /\ phase = "codegen"
  /\ generated < Len(irfunctions)
  /\ LET fn == irfunctions[generated + 1] IN
       test' = [functions |-> Append(test.functions, [name |-> fn[2], of |-> fn, offset |-> generated]),
                code |-> Append(test.code, fn)]
  /\ generated' = generated + 1
  /\ UNCHANGED <<tables, code, dependencies, irfunctions, objects, place, layout, phase,
                 outcome, spent>>

FinishBuild ==
  /\ phase = "codegen"
  /\ generated = Len(irfunctions)
  /\ phase' = "idle" /\ result' = TRUE
  /\ UNCHANGED <<tables, code, dependencies, irfunctions, test, generated, objects,
                 place, layout, ret, spent>>

(* RzEngine::createObject, up to the constructor it looks for in "test".   *)
CreateObject(n) ==
  /\ phase = "idle"
  /\ HasType(object_heaps, n)
  /\ LET t == getType(object_heaps, n) IN
       objects' = objects \cup {[type |-> t, size |-> types[t].size]}
  /\ UNCHANGED <<tables, code, dependencies, irfunctions, test, generated, place,
                 layout, phase, outcome, spent>>

Build ==
  \/ CollectClass
  \/ NextTree
  \/ EndCollect
  \/ BeginUnit
  \/ \E m \in Modules : Import(m)
  \/ RejectImport
  \/ EndImports
  \/ RejectInheritance
  \/ BeginClass
  \/ \E n \in MemberTypes : LayoutMember(n)
  \/ EndMembers
  \/ AddSize
  \/ emitClassConstructors
  \/ \E b \in BOOLEAN : CompileFunction(b)
  \/ Crash
  \/ \E b \in BOOLEAN : CheckBindings(b)
  \/ EmitIR
  \/ EndClass
  \/ EndUnit
  \/ Generate
  \/ FinishBuild

Next ==
  \/ RejectBatch
  \/ \E batch \in Batches : StartBuild(batch)
  \/ Build
  \/ \E n \in Classes : CreateObject(n)

Spec == Init /\ [][Next]_vars

-----------------------------------------------------------------------------
(* Properties.                                                             *)

Names == Classes \X (Classes \cup Methods)

FieldRec  == [type : MemberTypes, offset : Nat, size : Nat]
TypeRec   == [name : Classes, size : Nat,
              fields : Seq(FieldRec)]
FnRec     == [name : Names, offset : Nat, compiled : BOOLEAN, whole : BOOLEAN]
TestFnRec == [name : Classes \cup Methods, of : Names, offset : Nat]
Spent     == [builds : Nat, members : Nat, errors : Nat]

TablesOK ==
  /\ types \in Seq(TypeRec)
  /\ m_types \in Seq(DOMAIN types)
  /\ typedb \in Seq(DOMAIN types)
  /\ object_heaps \in Seq(DOMAIN types)
  /\ objects \subseteq [type : DOMAIN types, size : Nat]

CodeOK ==
  /\ m_functions \in Seq(FnRec)
  /\ m_code \in Seq(Names)
  /\ m_cursor \in Nat

ImageOK ==
  /\ irfunctions \in Seq(Names)
  /\ test \in [functions : Seq(TestFnRec), code : Seq(Names)]
  /\ generated \in 0 .. Len(irfunctions)

PlaceOK ==
  /\ trees \in Seq(Seq(Decl))
  /\ u \in Nat \ {0} /\ c \in Nat \ {0} /\ f \in Nat \ {0} /\ cls \in Nat
  /\ fldOffset \in Nat
  /\ members \subseteq MemberTypes
  /\ phase \in Phases
  /\ ret \in {"ok", "aborted"}
  /\ result \in BOOLEAN
  /\ spent \in Spent
  /\ dependencies \subseteq Modules

TypeOK == TablesOK /\ CodeOK /\ ImageOK /\ PlaceOK

(* Function.h:42 "First instruction for this function in the owner         *)
(* module": between two builds a function found by its name starts at the  *)
(* code that was compiled last under that name, whatever was built before, *)
(* overloads and the constructor the compiler adds included.               *)
LookupIsCurrent ==
  phase = "idle" =>
    \A n \in {m_functions[i].name : i \in DOMAIN m_functions} :
      LET fn == m_functions[getFunction(n)] IN
      fn.compiled =>
        /\ fn.offset < Len(m_code) /\ m_code[fn.offset + 1] = n
        /\ \A k \in fn.offset + 2 .. Len(m_code) : m_code[k] # n

(* A class compiled once; a second declaration in a later build goes on    *)
(* with the type of the first.                                             *)
Once(t) == \A i, j \in DOMAIN typedb : typedb[i] = t /\ typedb[j] = t => i = j

LaidOut(t) == t \in ToSet(typedb) /\ ~(phase \in {"members", "metrics"} /\ t = cls)

(* RzType.h:154 "The absolute type size in bytes": the members lie one     *)
(* after the other inside the size that computeMetrics works out on its    *)
(* own, also when a member's class is the class itself, compiled later or  *)
(* unknown.                                                                *)
SlotsInObject ==
  \A t \in DOMAIN types : Once(t) /\ LaidOut(t) =>
    LET fs == types[t].fields IN
    \A i \in DOMAIN fs :
      /\ fs[i].offset + fs[i].size <= types[t].size
      /\ \A j \in i + 1 .. Len(fs) : fs[i].offset + fs[i].size <= fs[j].offset

(* The memory of an object holds the members of its type, whatever builds  *)
(* came after its creation.                                                *)
ObjectsHoldFields ==
  \A o \in objects : Once(o.type) =>
    \A fld \in ToSet(types[o.type].fields) : fld.offset + fld.size <= o.size

(* The IR goes to module "test" only when every function of every class of *)
(* the batch has been compiled, with the default constructors.             *)
GeneratedWhenCompiled ==
  phase = "codegen" =>
    \A unit \in ToSet(trees) : \A class \in ToSet(unit) :
      \A n \in ToSet(class.functions) \cup {class.name} :
        /\ HasFunction(<<class.name, n>>)
        /\ m_functions[getFunction(<<class.name, n>>)].compiled

=============================================================================
