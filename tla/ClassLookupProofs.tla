-------------------------- MODULE ClassLookupProofs --------------------------
(***************************************************************************)
(* Proofs about the functions of ClassBuild: a name leads to the code that *)
(* was compiled last, and code is generated for compiled classes only.     *)
(***************************************************************************)
EXTENDS ClassBuildProofs

(* A search for n finds a compiled function at offset o.                   *)
Leads(n, o) ==
  \E i \in DOMAIN m_functions :
    /\ m_functions[i].name = n /\ m_functions[i].offset = o /\ m_functions[i].compiled
    /\ \A j \in 1 .. i - 1 : m_functions[j].name # n

(* The code at offset o is the last that was compiled for n.               *)
Latest(n, o) ==
  /\ o < Len(m_code) /\ m_code[o + 1] = n
  /\ \A k \in o + 2 .. Len(m_code) : m_code[k] # n

(* emitClassConstructors has written code for n, and n is still to be      *)
(* compiled with the functions of its class.                               *)
Pending(n) ==
  /\ phase \in {"functions", "crashed"}
  /\ ~HasConstructor /\ n = Constructor(Class.name)
  /\ f <= Len(Functions)

Generating ==
  phase \in {"imports", "class", "members", "metrics", "functions", "emit", "end"}

CursorAtEnd == Generating => m_cursor = Len(m_code)

Current ==
  \A n \in Names, o \in Nat : Leads(n, o) /\ ~Pending(n) => Latest(n, o)

LookupInv == CursorAtEnd /\ Current

-----------------------------------------------------------------------------
(* Steps that leave the functions and the code of the module alone.        *)
LEMMA LookupFrame ==
  ASSUME LookupInv, UNCHANGED <<m_functions, m_code>>,
         Generating' => Generating /\ UNCHANGED m_cursor,
         \A n : Pending(n) => Pending(n)'
  PROVE  LookupInv'
<1>1. CursorAtEnd'
  BY DEF LookupInv, CursorAtEnd
<1>2. Current'
  BY DEF LookupInv, Current, Leads, Latest
<1> QED BY <1>1, <1>2 DEF LookupInv

LEMMA NotPending ==
  ASSUME phase \notin {"functions", "crashed"} \/ ~(f <= Len(Functions))
  PROVE  \A n : ~Pending(n)
BY DEF Pending

(* Functions added at the end and not compiled are not found yet.          *)
LEMMA LeadsKept ==
  ASSUME CodeOK, NEW n, NEW o, Leads(n, o)',
         \A i \in DOMAIN m_functions : i \in DOMAIN m_functions' /\ m_functions'[i] = m_functions[i],
         \A i \in DOMAIN m_functions' : i \notin DOMAIN m_functions => ~m_functions'[i].compiled
  PROVE  Leads(n, o)
<1>1. DOMAIN m_functions = 1 .. Len(m_functions) /\ Len(m_functions) \in Nat
  BY LenProperties DEF CodeOK
<1>2. PICK i \in DOMAIN m_functions' :
        /\ m_functions'[i].name = n /\ m_functions'[i].offset = o /\ m_functions'[i].compiled
        /\ \A j \in 1 .. i - 1 : m_functions'[j].name # n
  BY DEF Leads
<1>3. i \in DOMAIN m_functions /\ m_functions'[i] = m_functions[i]
  BY <1>2
<1>4. \A j \in 1 .. i - 1 : m_functions'[j] = m_functions[j]
  BY <1>1, <1>3
<1> QED BY <1>2, <1>3, <1>4 DEF Leads

(* Code for one name hides no other.                                       *)
LEMMA LatestKept ==
  ASSUME CodeOK, NEW n, NEW o \in Nat, Latest(n, o), NEW m \in Names, m # n,
         m_code' = Append(m_code, m)
  PROVE  Latest(n, o)'
<1>1. /\ Len(m_code') = Len(m_code) + 1 /\ Len(m_code) \in Nat
      /\ \A k \in 1 .. Len(m_code) : m_code'[k] = m_code[k]
      /\ m_code'[Len(m_code) + 1] = m
  BY AppendProperties, LenProperties DEF CodeOK
<1>2. o < Len(m_code) /\ m_code[o + 1] = n /\ \A k \in o + 2 .. Len(m_code) : m_code[k] # n
  BY DEF Latest
<1>3. o < Len(m_code') /\ m_code'[o + 1] = n
  BY <1>1, <1>2
<1>4. \A k \in o + 2 .. Len(m_code') : m_code'[k] # n
  BY <1>1, <1>2
<1> QED BY <1>3, <1>4 DEF Latest

LEMMA CollectClassLookup ==
  ASSUME TypeInv, LookupInv, CollectClass
  PROVE  LookupInv'
<1> USE DEF CollectClass
<1>1. CodeOK /\ PlaceOK
  BY DEF TypeInv, TypeOK
<1>2. CursorAtEnd'
  BY DEF CursorAtEnd, Generating
<1> DEFINE fns == [i \in DOMAIN Class.functions |-> Fresh(<<Class.name, Class.functions[i]>>)]
<1>3. u \in DOMAIN trees /\ c \in DOMAIN trees[u]
  <2>1. u \in DOMAIN trees
    BY <1>1, LenProperties DEF PlaceOK
  <2>2. trees[u] \in Seq(Decl)
    BY <1>1, <2>1, LenProperties, ElementOfSeq DEF PlaceOK
  <2> QED BY <1>1, <2>1, <2>2, LenProperties DEF PlaceOK
<1>4. Class.functions \in Seq(Classes \cup Methods) /\ Class.name \in Classes
  BY <1>1, <1>3, ClassTyped
<1>5. DOMAIN Class.functions = 1 .. Len(Class.functions) /\ Len(Class.functions) \in Nat
  BY <1>4, LenProperties
<1>6. \A i \in DOMAIN Class.functions : fns[i] \in FnRec /\ ~fns[i].compiled
  BY <1>4, <1>5, ElementOfSeq DEF Fresh, FnRec, Names
<1>7. fns \in Seq(FnRec)
  <2>1. \A i \in DOMAIN Class.functions : Fresh(<<Class.name, Class.functions[i]>>) \in FnRec
    BY <1>6
  <2> QED BY <1>5, <2>1, IsASeq
<1>8. DOMAIN fns = 1 .. Len(fns) /\ Len(fns) \in Nat /\ \A i \in 1 .. Len(fns) : ~fns[i].compiled
  BY <1>6, <1>7, LenProperties
<1>9. m_functions' = m_functions \o fns
  OBVIOUS
<1> HIDE DEF fns
<1>10. /\ m_functions \in Seq(FnRec)
       /\ DOMAIN m_functions = 1 .. Len(m_functions) /\ Len(m_functions) \in Nat
  BY <1>1, LenProperties DEF CodeOK
<1>11. /\ DOMAIN m_functions' = 1 .. Len(m_functions) + Len(fns)
       /\ \A i \in 1 .. Len(m_functions) + Len(fns) :
            m_functions'[i] = IF i <= Len(m_functions) THEN m_functions[i]
                                                       ELSE fns[i - Len(m_functions)]
  <2>1. /\ m_functions \o fns \in Seq(FnRec)
        /\ Len(m_functions \o fns) = Len(m_functions) + Len(fns)
        /\ \A i \in 1 .. Len(m_functions) + Len(fns) :
             (m_functions \o fns)[i] = IF i <= Len(m_functions) THEN m_functions[i]
                                                               ELSE fns[i - Len(m_functions)]
    BY <1>7, <1>10, ConcatProperties
  <2>2. DOMAIN (m_functions \o fns) = 1 .. Len(m_functions) + Len(fns)
    BY <2>1, LenProperties
  <2> QED BY <1>9, <2>1, <2>2, Zenon
<1>12. \A i \in DOMAIN m_functions :
         i \in DOMAIN m_functions' /\ m_functions'[i] = m_functions[i]
  BY <1>8, <1>10, <1>11
<1>13. ASSUME NEW i \in DOMAIN m_functions', i \notin DOMAIN m_functions
       PROVE  ~m_functions'[i].compiled
  <2> DEFINE k == i - Len(m_functions)
  <2>1. i \in 1 .. Len(m_functions) + Len(fns) /\ ~ (i <= Len(m_functions)) /\ k \in 1 .. Len(fns)
    BY <1>8, <1>10, <1>11, <1>13
  <2>2. m_functions'[i] = fns[k]
    BY <1>11, <2>1
  <2> HIDE DEF k
  <2> QED BY <1>8, <2>1, <2>2
<1>14. Current'
  <2> SUFFICES ASSUME NEW n \in Names, NEW o \in Nat, Leads(n, o)'
               PROVE  Latest(n, o)'
    BY DEF Current
  <2>1. Leads(n, o)
    BY <1>1, <1>12, <1>13, LeadsKept
  <2>2. Latest(n, o)
    BY <2>1, NotPending DEF LookupInv, Current
  <2> QED BY <2>2 DEF Latest
<1> QED BY <1>2, <1>14 DEF LookupInv

LEMMA emitClassConstructorsLookup ==
  ASSUME TypeInv, LookupInv, emitClassConstructors
  PROVE  LookupInv'
<1> USE DEF emitClassConstructors
<1>1. TablesOK /\ CodeOK /\ PlaceOK /\ Class \in Decl
  BY ClassReached DEF TypeInv, TypeOK, AtClass
<1>2. m_cursor = Len(m_code) /\ Current
  BY DEF LookupInv, CursorAtEnd, Generating
<1>3. CASE HasConstructor
  <2>1. UNCHANGED <<m_functions, m_code, m_cursor>>
    BY <1>3 DEF code
  <2> QED BY <2>1, LookupFrame, NotPending DEF Generating
<1>4. CASE ~HasConstructor
  <2> DEFINE name == Constructor(Class.name)
             fn == [Fresh(name) EXCEPT !.offset = m_cursor]
  <2>1. name \in Names /\ fn \in FnRec /\ ~fn.compiled
    <3>1. name \in Names
      BY <1>1, NameTyped DEF Constructor, Decl
    <3> QED BY <1>1, <3>1 DEF FnRec, Fresh, CodeOK
  <2>2. /\ m_functions \in Seq(FnRec) /\ m_functions' = Append(m_functions, fn)
        /\ m_code' = Append(m_code, name) /\ m_cursor' = m_cursor + 1
    BY <1>1, <1>4 DEF CodeOK
  <2> HIDE DEF fn
  <2>3. /\ DOMAIN m_functions' = 1 .. Len(m_functions) + 1
        /\ DOMAIN m_functions = 1 .. Len(m_functions) /\ Len(m_functions) \in Nat
        /\ \A i \in DOMAIN m_functions : m_functions'[i] = m_functions[i]
        /\ m_functions'[Len(m_functions) + 1] = fn
    BY <2>1, <2>2, FunctionAdded
  <2>4. Len(m_code') = Len(m_code) + 1
    BY <1>1, <2>1, <2>2, AppendProperties DEF CodeOK
  <2>5. CursorAtEnd'
    BY <1>2, <2>2, <2>4 DEF CursorAtEnd
  <2>6. /\ phase' \in {"functions", "crashed"}
        /\ (~HasConstructor)' /\ (f <= Len(Functions))'
    <3>1. Class' = Class /\ UNCHANGED <<trees, u, c>>
      BY DEF Class
    <3>2. (~HasConstructor)' /\ Functions' = Functions
      BY <1>4, <3>1 DEF HasConstructor, Functions, Constructor
    <3>3. Functions = Append(Class.functions, Class.name) /\ Len(Functions) >= 1
      <4>1. Class.functions \in Seq(Classes \cup Methods) /\ Class.name \in Classes \cup Methods
        BY <1>1 DEF Decl
      <4>2. Functions = Append(Class.functions, Class.name)
        BY <1>4 DEF Functions
      <4>3. Len(Append(Class.functions, Class.name)) = Len(Class.functions) + 1
        BY <4>1, AppendProperties
      <4>4. Len(Class.functions) \in Nat
        BY <4>1, LenProperties
      <4> QED BY <4>2, <4>3, <4>4
    <3> QED BY <3>2, <3>3
  <2>7. Current'
    <3> SUFFICES ASSUME NEW n \in Names, NEW o \in Nat, Leads(n, o)', ~Pending(n)'
                 PROVE  Latest(n, o)'
      BY DEF Current
    <3>1. n # name
      <4>1. Class' = Class
        BY DEF Class
      <4>2. Constructor(Class.name)' = name
        BY <4>1 DEF Constructor
      <4> QED BY <2>6, <4>2 DEF Pending
    <3>2. Leads(n, o)
      <4>1. \A i \in DOMAIN m_functions :
              i \in DOMAIN m_functions' /\ m_functions'[i] = m_functions[i]
        BY <2>3
      <4>2. \A i \in DOMAIN m_functions' : i \notin DOMAIN m_functions => ~m_functions'[i].compiled
        BY <2>1, <2>3
      <4> QED BY <1>1, <4>1, <4>2, LeadsKept
    <3>3. Latest(n, o)
      BY <1>2, <3>2, NotPending DEF Current
    <3> QED BY <1>1, <2>1, <2>2, <3>1, <3>3, LatestKept
  <2> QED BY <2>5, <2>7 DEF LookupInv
<1> QED BY <1>3, <1>4

LEMMA CompileFunctionLookup ==
  ASSUME TypeInv, LookupInv, NEW b \in BOOLEAN, CompileFunction(b)
  PROVE  LookupInv'
<1> DEFINE n == <<Class.name, Functions[f]>>
           i == getFunction(n)
<1>1. /\ phase = "functions" /\ phase' = phase /\ f <= Len(Functions) /\ f' = f + 1
      /\ m_code' = Append(m_code, n) /\ m_cursor' = m_cursor + 1
      /\ UNCHANGED <<trees, u, c>>
  BY DEF CompileFunction
<1>2. CodeOK /\ PlaceOK /\ Class \in Decl
  BY <1>1, ClassReached DEF TypeInv, TypeOK, AtClass
<1>3. HasFunction(n) /\ n \in Names
  BY <1>1, <1>2, FunctionKnown, NameTyped
<1>4. m_cursor = Len(m_code) /\ Current /\ Len(m_code) \in Nat
  BY <1>1, <1>2, LenProperties DEF LookupInv, CursorAtEnd, Generating, CodeOK
<1>5. /\ CodeOK' /\ Grown /\ i \in DOMAIN m_functions
      /\ m_functions'[i].offset = m_cursor
      /\ \A j \in DOMAIN m_functions : j # i => m_functions'[j] = m_functions[j]
      /\ \A j \in DOMAIN m_functions' :
           j \notin DOMAIN m_functions => m_functions'[j] = m_functions'[i]
  BY FunctionCompiled
<1>6. m_functions[i].name = n /\ \A j \in 1 .. i - 1 : m_functions[j].name # n
  BY <1>2, <1>3, FunctionFound
<1>7. f = Len(Functions) /\ ~HasConstructor => n = Constructor(Class.name)
  <2> SUFFICES ASSUME f = Len(Functions), ~HasConstructor
               PROVE  n = Constructor(Class.name)
    OBVIOUS
  <2>1. Class.functions \in Seq(Classes \cup Methods) /\ Class.name \in Classes \cup Methods
    BY <1>2 DEF Decl
  <2>2. Functions = Append(Class.functions, Class.name)
    BY DEF Functions
  <2>3. Functions[Len(Functions)] = Class.name
    BY <2>1, <2>2, AppendProperties
  <2> QED BY <2>3 DEF Constructor
<1>8. Class' = Class /\ Functions' = Functions /\ HasConstructor' = HasConstructor
  BY <1>1 DEF Class, Functions, HasConstructor
<1>9. \A m : Pending(m) /\ m # n => Pending(m)'
  <2> SUFFICES ASSUME NEW m, Pending(m), m # n PROVE Pending(m)'
    OBVIOUS
  <2>1. ~HasConstructor /\ m = Constructor(Class.name) /\ f <= Len(Functions)
    BY DEF Pending
  <2>2. f # Len(Functions)
    BY <1>7, <2>1
  <2>3. Len(Functions) \in Nat /\ f \in Nat
    BY <1>2, FunctionsTyped, LenProperties DEF PlaceOK
  <2>4. (f <= Len(Functions))'
    BY <1>1, <1>8, <2>1, <2>2, <2>3
  <2>5. Constructor(Class.name)' = Constructor(Class.name)
    BY <1>8 DEF Constructor
  <2> QED BY <1>1, <1>8, <2>1, <2>4, <2>5 DEF Pending
<1> HIDE DEF n, i
<1>10. /\ Len(m_code') = Len(m_code) + 1 /\ m_code'[Len(m_code) + 1] = n
  BY <1>1, <1>2, <1>3, AppendProperties DEF CodeOK
<1>11. CursorAtEnd'
  BY <1>1, <1>4, <1>10 DEF CursorAtEnd
<1>12. /\ DOMAIN m_functions = 1 .. Len(m_functions) /\ Len(m_functions) \in Nat
       /\ DOMAIN m_functions' = 1 .. Len(m_functions') /\ Len(m_functions') \in Nat
  BY <1>2, <1>5, LenProperties DEF CodeOK
<1>13. \A j \in DOMAIN m_functions :
         j \in DOMAIN m_functions' /\ m_functions'[j].name = m_functions[j].name
  BY <1>5 DEF Grown
<1>14. ASSUME NEW m \in Names, NEW o \in Nat, Leads(m, o)', ~Pending(m)'
       PROVE  Latest(m, o)'
  <2>1. PICK k \in DOMAIN m_functions' :
          /\ m_functions'[k].name = m /\ m_functions'[k].offset = o /\ m_functions'[k].compiled
          /\ \A j \in 1 .. k - 1 : m_functions'[j].name # m
    BY <1>14 DEF Leads
  <2>2. CASE m = n
    <3>1. i \in DOMAIN m_functions' /\ m_functions'[i].name = n
      BY <1>5, <1>6, <1>13
    <3>2. ~ (i < k)
      BY <1>12, <2>1, <2>2, <3>1
    <3>3. \A j \in 1 .. i - 1 : m_functions'[j].name # n
      BY <1>5, <1>6, <1>12, <1>13
    <3>4. ~ (k < i)
      BY <1>12, <2>1, <2>2, <3>1, <3>3
    <3>5. k = i
      BY <1>12, <2>1, <3>1, <3>2, <3>4
    <3>6. o = Len(m_code)
      BY <1>4, <1>5, <2>1, <3>5
    <3> QED BY <1>4, <1>10, <2>2, <3>6 DEF Latest
  <2>3. CASE m # n
    <3>1. m_functions'[i].name = n
      BY <1>5, <1>6, <1>13
    <3>2. k \in DOMAIN m_functions
      BY <1>5, <2>1, <2>3, <3>1
    <3>3. k # i
      BY <2>1, <2>3, <3>1
    <3>4. m_functions[k] = m_functions'[k]
      BY <1>5, <3>2, <3>3
    <3>5. \A j \in 1 .. k - 1 : m_functions[j].name # m
      BY <1>12, <1>13, <2>1, <3>2
    <3>6. Leads(m, o)
      BY <2>1, <3>2, <3>4, <3>5 DEF Leads
    <3>7. ~Pending(m)
      BY <1>9, <1>14, <2>3
    <3>8. Latest(m, o)
      BY <1>4, <3>6, <3>7 DEF Current
    <3> QED BY <1>1, <1>2, <1>3, <2>3, <3>8, LatestKept
  <2> QED BY <2>2, <2>3
<1>15. Current'
  BY <1>14 DEF Current
<1> QED BY <1>11, <1>15 DEF LookupInv

(* The steps that compile nothing.                                         *)
LEMMA OtherLookup ==
  ASSUME TypeInv, LookupInv,
         \/ RejectBatch \/ \E batch \in Batches : StartBuild(batch)
         \/ NextTree \/ EndCollect \/ \E m \in Modules : Import(m)
         \/ RejectImport \/ EndImports \/ RejectInheritance \/ BeginClass
         \/ \E n \in MemberTypes : LayoutMember(n)
         \/ EndMembers \/ AddSize \/ \E b \in BOOLEAN : CheckBindings(b)
         \/ EmitIR \/ EndClass \/ EndUnit \/ Generate \/ FinishBuild
         \/ \E n \in Classes : CreateObject(n)
  PROVE  LookupInv'
<1> USE LookupFrame, NotPending DEF code, Generating
<1>1. CASE RejectBatch
  BY <1>1 DEF RejectBatch
<1>2. CASE \E batch \in Batches : StartBuild(batch)
  BY <1>2 DEF StartBuild
<1>3. CASE NextTree
  BY <1>3 DEF NextTree
<1>4. CASE EndCollect
  BY <1>4 DEF EndCollect
<1>5. CASE \E m \in Modules : Import(m)
  BY <1>5 DEF Import
<1>6. CASE RejectImport
  BY <1>6 DEF RejectImport
<1>7. CASE EndImports
  BY <1>7 DEF EndImports
<1>8. CASE RejectInheritance
  BY <1>8 DEF RejectInheritance
<1>9. CASE BeginClass
  BY <1>9 DEF BeginClass
<1>10. CASE \E n \in MemberTypes : LayoutMember(n)
  BY <1>10 DEF LayoutMember
<1>11. CASE EndMembers
  BY <1>11 DEF EndMembers
<1>12. CASE AddSize
  BY <1>12 DEF AddSize
<1>13. CASE \E b \in BOOLEAN : CheckBindings(b)
  <2>1. f \in Nat /\ Functions \in Seq(Classes \cup Methods)
    BY <1>13, ClassReached, FunctionsTyped DEF CheckBindings, AtClass, TypeInv, TypeOK, PlaceOK
  <2>2. ~ (f <= Len(Functions))
    BY <1>13, <2>1, LenProperties DEF CheckBindings
  <2> QED BY <1>13, <2>2 DEF CheckBindings
<1>14. CASE EmitIR
  BY <1>14 DEF EmitIR
<1>15. CASE EndClass
  BY <1>15 DEF EndClass
<1>16. CASE EndUnit
  BY <1>16 DEF EndUnit
<1>17. CASE Generate
  BY <1>17 DEF Generate
<1>18. CASE FinishBuild
  BY <1>18 DEF FinishBuild
<1>19. CASE \E n \in Classes : CreateObject(n)
  BY <1>19 DEF CreateObject
<1> QED BY <1>1, <1>2, <1>3, <1>4, <1>5, <1>6, <1>7, <1>8, <1>9, <1>10, <1>11, <1>12,
           <1>13, <1>14, <1>15, <1>16, <1>17, <1>18, <1>19

LEMMA BeginUnitLookup ==
  ASSUME TypeInv, LookupInv, BeginUnit
  PROVE  LookupInv'
<1>1. CursorAtEnd'
  BY DEF BeginUnit, CursorAtEnd, Generating
<1>2. Current'
  BY NotPending DEF BeginUnit, LookupInv, Current, Leads, Latest
<1> QED BY <1>1, <1>2 DEF LookupInv

LEMMA CrashLookup ==
  ASSUME TypeInv, LookupInv, Crash
  PROVE  LookupInv'
<1>1. \A n : Pending(n) => Pending(n)'
  BY DEF Crash, Pending, HasConstructor, Functions, Class, Constructor, place
<1> QED BY <1>1, LookupFrame DEF Crash, code, Generating

-----------------------------------------------------------------------------

LEMMA LookupInit == Init => LookupInv
BY DEF Init, LookupInv, CursorAtEnd, Generating, Current, Leads

LEMMA LookupNext == TypeInv /\ LookupInv /\ [Next]_vars => LookupInv'
<1> SUFFICES ASSUME TypeInv, LookupInv, [Next]_vars PROVE LookupInv'
  OBVIOUS
<1>1. CASE UNCHANGED vars
  BY <1>1 DEF vars, code, place, LookupInv, CursorAtEnd, Current, Leads, Latest, Pending,
     Generating, HasConstructor, Functions, Class, Constructor
<1>2. CASE Next
  BY <1>2, CollectClassLookup, emitClassConstructorsLookup, CompileFunctionLookup,
     OtherLookup, BeginUnitLookup, CrashLookup DEF Next, Build
<1> QED BY <1>1, <1>2

(* Between two builds a name leads to the code that was compiled last      *)
(* under it, for every sequence of builds, also when one of them failed:   *)
(* RzModule::getFunction returns the first function of that name and       *)
(* compileFunction works on just that one, so what is added behind it,     *)
(* copies included, is never found.                                        *)
THEOREM NamesLeadToLatestCode == Spec => []LookupIsCurrent
<1>1. TypeInv /\ LookupInv => LookupIsCurrent
  <2> SUFFICES ASSUME TypeInv, LookupInv, phase = "idle",
                      NEW i \in DOMAIN m_functions,
                      m_functions[getFunction(m_functions[i].name)].compiled
               PROVE  LET n == m_functions[i].name
                          o == m_functions[getFunction(n)].offset
                      IN Latest(n, o)
    BY DEF LookupIsCurrent, Latest
  <2> DEFINE n == m_functions[i].name
             k == getFunction(n)
  <2>1. CodeOK
    BY DEF TypeInv, TypeOK
  <2>2. HasFunction(n)
    BY DEF HasFunction
  <2> HIDE DEF n
  <2>3. /\ k \in DOMAIN m_functions /\ m_functions[k].name = n
        /\ \A j \in 1 .. k - 1 : m_functions[j].name # n
    BY <2>1, <2>2, FunctionFound
  <2> HIDE DEF k
  <2>4. m_functions[k] \in FnRec
    BY <2>1, <2>3, LenProperties, ElementOfSeq DEF CodeOK
  <2>5. m_functions[k].compiled
    BY DEF k, n
  <2>6. Leads(n, m_functions[k].offset)
    BY <2>3, <2>5 DEF Leads
  <2>7. n \in Names /\ m_functions[k].offset \in Nat
    BY <2>3, <2>4 DEF FnRec
  <2>8. Latest(n, m_functions[k].offset)
    BY <2>6, <2>7, NotPending DEF LookupInv, Current
  <2> QED BY <2>8 DEF k, n
<1>2. Spec => []LookupInv
  BY LookupInit, LookupNext, TypeInvariant, PTL DEF Spec
<1> QED BY <1>1, <1>2, TypeInvariant, PTL

-----------------------------------------------------------------------------
(* Code is generated for compiled classes only.                            *)

(* A search for n finds a compiled function.                               *)
Compiled(n) ==
  \E i \in DOMAIN m_functions :
    /\ m_functions[i].name = n /\ m_functions[i].compiled
    /\ \A j \in 1 .. i - 1 : m_functions[j].name # n

Done(class) == \A n \in ToSet(class.functions) \cup {class.name} :
                 Compiled(<<class.name, n>>)

Building == Generating \/ phase \in {"unit", "codegen"}

(* The compiler has got past class k of unit i.                            *)
Past(i, k) ==
  \/ i < u
  \/ i = u /\ AtClass /\ k < c
  \/ i = u /\ k = c /\ phase = "emit"
  \/ i = u /\ phase = "end" /\ ret = "ok"

PastAreDone ==
  Building => \A i \in DOMAIN trees : \A k \in DOMAIN trees[i] :
                Past(i, k) => Done(trees[i][k])

(* The functions of the class at hand are compiled in their order.         *)
FunctionsDone ==
  phase = "functions" =>
    \A j \in DOMAIN Functions : j < f => Compiled(<<Class.name, Functions[j]>>)

DoneInv == PastAreDone /\ FunctionsDone /\ (phase = "codegen" => u > Len(trees))

(* No function loses its name, its place or its code.                      *)
Advanced ==
  \A i \in DOMAIN m_functions :
    /\ i \in DOMAIN m_functions' /\ m_functions'[i].name = m_functions[i].name
    /\ m_functions[i].compiled => m_functions'[i].compiled

LEMMA CompiledKept ==
  ASSUME CodeOK, Advanced, NEW n, Compiled(n)
  PROVE  Compiled(n)'
<1>1. PICK i \in DOMAIN m_functions :
        /\ m_functions[i].name = n /\ m_functions[i].compiled
        /\ \A j \in 1 .. i - 1 : m_functions[j].name # n
  BY DEF Compiled
<1>2. \A j \in 1 .. i - 1 : j \in DOMAIN m_functions
  BY LenProperties DEF CodeOK
<1> QED BY <1>1, <1>2 DEF Advanced, Compiled

(* A step that gets past no class.                                         *)
LEMMA DoneFrame ==
  ASSUME CodeOK, DoneInv, Advanced, Building, UNCHANGED trees,
         \A i \in DOMAIN trees : \A k \in DOMAIN trees[i] : Past(i, k)' => Past(i, k)
  PROVE  PastAreDone'
<1> SUFFICES ASSUME NEW i \in DOMAIN trees, NEW k \in DOMAIN trees[i], Past(i, k)'
             PROVE  Done(trees[i][k])'
  BY DEF PastAreDone
<1>1. PICK class : class = trees[i][k]
  OBVIOUS
<1>2. Done(class)
  BY <1>1 DEF DoneInv, PastAreDone
<1>3. \A n \in ToSet(class.functions) \cup {class.name} : Compiled(<<class.name, n>>)'
  BY <1>2, CompiledKept DEF Done
<1>4. Done(class)'
  BY <1>3 DEF Done
<1> QED BY <1>1, <1>4

(* Where the compiler is in the batch.                                     *)
LEMMA BatchTyped ==
  ASSUME TypeInv
  PROVE  /\ DOMAIN trees = 1 .. Len(trees) /\ Len(trees) \in Nat
         /\ \A i \in DOMAIN trees :
              trees[i] \in Seq(Decl) /\ DOMAIN trees[i] = 1 .. Len(trees[i])
                /\ Len(trees[i]) \in Nat
         /\ u \in Nat \ {0} /\ c \in Nat \ {0} /\ f \in Nat \ {0}
         /\ CodeOK
<1>1. PlaceOK /\ CodeOK
  BY DEF TypeInv, TypeOK
<1>2. \A i \in DOMAIN trees : trees[i] \in Seq(Decl)
  BY <1>1, LenProperties, ElementOfSeq DEF PlaceOK
<1> QED BY <1>1, <1>2, LenProperties DEF PlaceOK

(* Steps that compile nothing.                                             *)
LEMMA QuietDone ==
  ASSUME TypeInv, DoneInv,
         \/ RejectBatch \/ \E batch \in Batches : StartBuild(batch)
         \/ CollectClass \/ NextTree \/ EndCollect \/ BeginUnit
         \/ \E m \in Modules : Import(m)
         \/ RejectImport \/ EndImports \/ RejectInheritance \/ BeginClass
         \/ \E n \in MemberTypes : LayoutMember(n)
         \/ EndMembers \/ AddSize \/ Crash \/ EmitIR \/ EndClass \/ EndUnit
         \/ Generate \/ FinishBuild \/ \E n \in Classes : CreateObject(n)
  PROVE  DoneInv'
<1>1. CASE phase' \in {"idle", "collect", "crashed"}
  BY <1>1 DEF DoneInv, PastAreDone, FunctionsDone, Building, Generating
<1>2. CASE EndCollect
  <2>1. phase' = "unit" /\ u' = 1 /\ trees' = trees
    BY <1>2 DEF EndCollect
  <2>2. \A i \in DOMAIN trees : ~(i < 1)
    BY BatchTyped
  <2>3. \A i \in DOMAIN trees : \A k : ~Past(i, k)'
    BY <2>1, <2>2 DEF Past, AtClass
  <2> QED BY <2>1, <2>3 DEF DoneInv, PastAreDone, FunctionsDone
<1>3. ASSUME Building, UNCHANGED <<trees, m_functions>>,
             \A i \in DOMAIN trees : \A k \in DOMAIN trees[i] : Past(i, k)' => Past(i, k),
             phase' # "functions", phase' = "codegen" => u' > Len(trees)
      PROVE  DoneInv'
  <2>1. Advanced
    BY <1>3 DEF Advanced
  <2> QED BY <1>3, <2>1, BatchTyped, DoneFrame DEF DoneInv, FunctionsDone
<1>4. CASE BeginUnit
  BY <1>3, <1>4, BatchTyped DEF BeginUnit, Building, Past, AtClass
<1>5. CASE RejectImport \/ \E m \in Modules : Import(m)
  BY <1>3, <1>5 DEF RejectImport, Import, code, place, Building, Generating, Past, AtClass
<1>6. CASE EndImports
  <2>1. u \in DOMAIN trees /\ c = 1 /\ phase = "imports"
    BY <1>6 DEF EndImports, TypeInv, Placed
  <2>2. \A k \in DOMAIN trees[u] : k \in Nat /\ k >= 1 /\ trees[u] # <<>>
    BY <2>1, BatchTyped, EmptySeq
  <2> QED BY <1>3, <1>6, <2>1, <2>2
          DEF EndImports, code, place, outcome, Building, Generating, Past, AtClass
<1>7. CASE RejectInheritance
  BY <1>3, <1>7 DEF RejectInheritance, code, place, Building, Generating, Past, AtClass
<1>8. CASE BeginClass
  BY <1>3, <1>8 DEF BeginClass, code, Building, Generating, Past, AtClass
<1>9. CASE EndMembers \/ AddSize \/ \E n \in MemberTypes : LayoutMember(n)
  BY <1>3, <1>9
     DEF EndMembers, AddSize, LayoutMember, code, place, Building, Generating, Past, AtClass
<1>10. CASE EmitIR
  BY <1>3, <1>10 DEF EmitIR, code, Building, Generating, Past, AtClass
<1>11. CASE EndClass
  <2>1. u \in DOMAIN trees /\ c \in DOMAIN trees[u] /\ phase = "emit"
    BY <1>11 DEF EndClass, TypeInv, Placed, AtClass
  <2>2. \A k \in DOMAIN trees[u] : k \in Nat /\ k <= Len(trees[u]) /\ Len(trees[u]) \in Nat
    BY <2>1, BatchTyped
  <2> QED BY <1>3, <1>11, <2>1, <2>2, BatchTyped
          DEF EndClass, code, Building, Generating, Past, AtClass
<1>12. CASE EndUnit
  <2>1. CASE ret = "aborted"
    BY <1>1, <1>12, <2>1 DEF EndUnit
  <2>2. CASE ret # "aborted"
    <3>1. ret = "ok" /\ phase = "end" /\ phase' = "unit" /\ u' = u + 1
          /\ UNCHANGED <<trees, m_functions>>
      BY <1>12, <2>2 DEF EndUnit, code, TypeInv, TypeOK, PlaceOK
    <3>2. \A i \in DOMAIN trees : i < u + 1 => i < u \/ i = u
      BY BatchTyped
    <3> QED BY <1>3, <3>1, <3>2 DEF Building, Generating, Past, AtClass
  <2> QED BY <2>1, <2>2
<1>13. CASE Generate
  BY <1>3, <1>13 DEF Generate, code, place, outcome, Building, DoneInv, Past, AtClass
<1> QED BY <1>1, <1>2, <1>4, <1>5, <1>6, <1>7, <1>8, <1>9, <1>10, <1>11, <1>12, <1>13
        DEF RejectBatch, StartBuild, CollectClass, NextTree, Crash, FinishBuild, CreateObject

LEMMA emitClassConstructorsDone ==
  ASSUME TypeInv, DoneInv, emitClassConstructors
  PROVE  DoneInv'
<1> USE DEF emitClassConstructors
<1>1. CodeOK /\ Class \in Decl
  BY ClassReached DEF TypeInv, TypeOK, AtClass
<1>2. Advanced
  <2>1. CASE HasConstructor
    BY <2>1 DEF Advanced, code
  <2>2. CASE ~HasConstructor
    <3> DEFINE name == Constructor(Class.name)
               fn == [Fresh(name) EXCEPT !.offset = m_cursor]
    <3>1. name \in Names
      BY <1>1, NameTyped DEF Constructor, Decl
    <3>2. fn \in FnRec
      BY <1>1, <3>1 DEF FnRec, Fresh, CodeOK
    <3>3. m_functions \in Seq(FnRec) /\ m_functions' = Append(m_functions, fn)
      BY <1>1, <2>2 DEF CodeOK
    <3> HIDE DEF fn
    <3>4. \A i \in DOMAIN m_functions :
            i \in DOMAIN m_functions' /\ m_functions'[i] = m_functions[i]
      BY <3>2, <3>3, FunctionAdded
    <3> QED BY <3>4 DEF Advanced
  <2> QED BY <2>1, <2>2
<1>3. PastAreDone'
  <2>1. \A i, k : Past(i, k)' => Past(i, k)
    BY DEF Past, AtClass
  <2> QED BY <1>1, <1>2, <2>1, DoneFrame DEF Building, Generating
<1>4. FunctionsDone'
  <2> SUFFICES ASSUME NEW j \in (DOMAIN Functions)', j < 1 PROVE FALSE
    BY DEF FunctionsDone
  <2>1. Class' = Class
    BY DEF Class
  <2>2. Functions' = Functions
    BY <2>1 DEF Functions, HasConstructor
  <2>3. DOMAIN Functions = 1 .. Len(Functions)
    BY <1>1, FunctionsTyped, LenProperties
  <2> QED BY <2>2, <2>3
<1> QED BY <1>3, <1>4 DEF DoneInv

LEMMA CompileFunctionDone ==
  ASSUME TypeInv, DoneInv, NEW b \in BOOLEAN, CompileFunction(b)
  PROVE  DoneInv'
<1>1. PICK n : n = <<Class.name, Functions[f]>>
  OBVIOUS
<1>2. PICK i : i = getFunction(n)
  OBVIOUS
<1>3. /\ phase = "functions" /\ phase' = phase /\ f <= Len(Functions) /\ f' = f + 1
      /\ UNCHANGED <<trees, u, c>> /\ UNCHANGED ret
  BY DEF CompileFunction, outcome
<1>4. CodeOK /\ f \in Nat /\ Class \in Decl
  BY <1>3, ClassReached DEF TypeInv, TypeOK, PlaceOK, AtClass
<1>5. /\ i \in DOMAIN m_functions /\ m_functions[i].name = n
      /\ \A j \in 1 .. i - 1 : m_functions[j].name # n
  BY <1>1, <1>2, <1>3, <1>4, FunctionKnown, FunctionFound
<1>6. /\ Grown /\ m_functions'[i].compiled
      /\ \A j \in DOMAIN m_functions : j # i => m_functions'[j] = m_functions[j]
  BY <1>1, <1>2, FunctionCompiled
<1>7. Advanced
  BY <1>6 DEF Grown, Advanced
<1>8. PastAreDone'
  <2>1. \A j, k : Past(j, k)' => Past(j, k)
    BY <1>3 DEF Past, AtClass
  <2> QED BY <1>3, <1>4, <1>7, <2>1, DoneFrame DEF Building, Generating
<1>9. Compiled(n)'
  <2>1. i \in DOMAIN m_functions' /\ m_functions'[i].name = n
    BY <1>5, <1>6 DEF Grown
  <2>2. \A j \in 1 .. i - 1 : m_functions'[j].name # n
    <3>1. \A j \in 1 .. i - 1 : j \in DOMAIN m_functions
      BY <1>4, <1>5, LenProperties DEF CodeOK
    <3> QED BY <1>5, <1>6, <3>1 DEF Grown
  <2> QED BY <1>6, <2>1, <2>2 DEF Compiled
<1>10. FunctionsDone'
  <2>1. PICK name, fs : name = Class.name /\ fs = Functions
    OBVIOUS
  <2>2. Class' = Class
    BY <1>3 DEF Class
  <2>3. Class.name' = name /\ Functions' = fs
    BY <2>1, <2>2 DEF Functions, HasConstructor
  <2>4. DOMAIN fs = 1 .. Len(fs)
    BY <1>4, <2>1, FunctionsTyped, LenProperties
  <2>5. ASSUME NEW j \in DOMAIN fs, j < f + 1 PROVE Compiled(<<name, fs[j]>>)'
    <3>1. CASE j = f
      BY <1>1, <1>9, <2>1, <3>1
    <3>2. CASE j # f
      <4>1. j < f
        BY <1>4, <2>4, <2>5, <3>2
      <4>2. Compiled(<<name, fs[j]>>)
        BY <1>3, <2>1, <4>1 DEF DoneInv, FunctionsDone
      <4> QED BY <1>4, <1>7, <4>2, CompiledKept
    <3> QED BY <3>1, <3>2
  <2> QED BY <1>3, <2>3, <2>5 DEF FunctionsDone
<1> QED BY <1>3, <1>8, <1>10 DEF DoneInv

(* Every function of the class is among those that get compiled.           *)
LEMMA FunctionListed ==
  ASSUME Class \in Decl, NEW n \in ToSet(Class.functions) \cup {Class.name}
  PROVE  \E j \in DOMAIN Functions : Functions[j] = n
<1>1. Class.functions \in Seq(Classes \cup Methods) /\ Class.name \in Classes \cup Methods
  BY DEF Decl
<1>2. CASE HasConstructor
  BY <1>2 DEF Functions, HasConstructor, ToSet
<1>3. CASE ~HasConstructor
  <2>1. Functions = Append(Class.functions, Class.name)
    BY <1>3 DEF Functions
  <2>2. /\ DOMAIN Functions = 1 .. Len(Class.functions) + 1
        /\ DOMAIN Class.functions = 1 .. Len(Class.functions) /\ Len(Class.functions) \in Nat
        /\ \A j \in 1 .. Len(Class.functions) : Functions[j] = Class.functions[j]
        /\ Functions[Len(Class.functions) + 1] = Class.name
    <3>1. /\ Functions \in Seq(Classes \cup Methods)
          /\ Len(Functions) = Len(Class.functions) + 1
          /\ \A j \in 1 .. Len(Class.functions) : Functions[j] = Class.functions[j]
          /\ Functions[Len(Class.functions) + 1] = Class.name
      BY <1>1, <2>1, AppendProperties
    <3>2. DOMAIN Functions = 1 .. Len(Functions) /\ DOMAIN Class.functions = 1 .. Len(Class.functions)
          /\ Len(Class.functions) \in Nat
      BY <1>1, <3>1, LenProperties
    <3> QED BY <3>1, <3>2
  <2>3. CASE n = Class.name
    <3>1. Len(Class.functions) + 1 \in DOMAIN Functions
      BY <2>2
    <3> QED BY <2>2, <2>3, <3>1
  <2>4. CASE n \in ToSet(Class.functions)
    <3>1. PICK j \in DOMAIN Class.functions : Class.functions[j] = n
      BY <2>4 DEF ToSet
    <3>2. j \in DOMAIN Functions /\ Functions[j] = n
      BY <2>2, <3>1
    <3> QED BY <3>2
  <2> QED BY <2>3, <2>4
<1> QED BY <1>2, <1>3

LEMMA CheckBindingsDone ==
  ASSUME TypeInv, DoneInv, NEW b \in BOOLEAN, CheckBindings(b)
  PROVE  DoneInv'
<1>1. /\ phase = "functions" /\ phase' \in {"end", "emit"} /\ f > Len(Functions)
      /\ phase' = "end" => ret' = "aborted"
      /\ UNCHANGED <<trees, u, c>> /\ UNCHANGED m_functions
  BY DEF CheckBindings, code
<1>2. CodeOK /\ f \in Nat /\ Class \in Decl
  BY <1>1, ClassReached DEF TypeInv, TypeOK, PlaceOK, AtClass
<1>3. Done(Class)
  <2> SUFFICES ASSUME NEW n \in ToSet(Class.functions) \cup {Class.name}
               PROVE  Compiled(<<Class.name, n>>)
    BY DEF Done
  <2>1. PICK j \in DOMAIN Functions : Functions[j] = n
    BY <1>2, FunctionListed
  <2>2. DOMAIN Functions = 1 .. Len(Functions) /\ Len(Functions) \in Nat
    BY <1>2, FunctionsTyped, LenProperties
  <2>3. j < f
    BY <1>1, <1>2, <2>1, <2>2
  <2>4. Compiled(<<Class.name, Functions[j]>>)
    BY <1>1, <2>3 DEF DoneInv, FunctionsDone
  <2> QED BY <2>1, <2>4
<1>4. ASSUME NEW i \in DOMAIN trees, NEW k \in DOMAIN trees[i], Past(i, k)'
      PROVE  Done(trees[i][k])
  <2>1. Past(i, k) \/ (i = u /\ k = c)
    BY <1>1, <1>4 DEF Past, AtClass
  <2> QED BY <1>1, <1>3, <2>1 DEF DoneInv, PastAreDone, Building, Generating, Class
<1>5. PastAreDone'
  <2>1. \A class : Done(class)' <=> Done(class)
    BY <1>1 DEF Done, Compiled
  <2> QED BY <1>1, <1>4, <2>1 DEF PastAreDone
<1> QED BY <1>1, <1>5 DEF DoneInv, FunctionsDone

LEMMA DoneInit == Init => DoneInv
BY DEF Init, DoneInv, PastAreDone, FunctionsDone, Building, Generating

LEMMA DoneNext == TypeInv /\ DoneInv /\ [Next]_vars => DoneInv'
<1> SUFFICES ASSUME TypeInv, DoneInv, [Next]_vars PROVE DoneInv'
  OBVIOUS
<1>1. CASE UNCHANGED vars
  <2>1. UNCHANGED <<trees, u, c, f, phase, ret, m_functions>>
    BY <1>1 DEF vars, code, place, outcome
  <2>2. \A n : Compiled(n)' <=> Compiled(n)
    BY <2>1 DEF Compiled
  <2>3. PastAreDone'
    <3>1. \A class : Done(class) => Done(class)'
      BY <2>2 DEF Done
    <3>2. \A i, k : Past(i, k)' => Past(i, k)
      BY <2>1 DEF Past, AtClass
    <3> QED BY <2>1, <3>1, <3>2 DEF DoneInv, PastAreDone, Building, Generating
  <2>4. FunctionsDone'
    BY <2>1, <2>2 DEF DoneInv, FunctionsDone, Functions, HasConstructor, Class
  <2> QED BY <2>1, <2>3, <2>4 DEF DoneInv
<1>2. CASE Next
  BY <1>2, QuietDone, emitClassConstructorsDone, CompileFunctionDone, CheckBindingsDone
     DEF Next, Build
<1> QED BY <1>1, <1>2

(* CodeGenVM::build runs only when every function of every class of the    *)
(* batch, default constructors included, is found by its name and has been *)
(* compiled, for every batch and whatever the engine built before: a class *)
(* that fails ends the build, and compileStruct goes through all functions *)
(* of a class before its result can be a success.                          *)
THEOREM GeneratesCompiledCode == Spec => []GeneratedWhenCompiled
<1>1. TypeInv /\ DoneInv => GeneratedWhenCompiled
  <2> SUFFICES ASSUME TypeInv, DoneInv, phase = "codegen",
                      NEW i \in DOMAIN trees, NEW k \in DOMAIN trees[i],
                      NEW m \in ToSet(trees[i][k].functions) \cup {trees[i][k].name}
               PROVE  LET n == <<trees[i][k].name, m>> IN
                        HasFunction(n) /\ m_functions[getFunction(n)].compiled
    BY DEF GeneratedWhenCompiled, ToSet
  <2>1. i < u
    BY BatchTyped DEF DoneInv
  <2>2. Done(trees[i][k])
    BY <2>1 DEF DoneInv, PastAreDone, Building, Past
  <2>3. PICK n : n = <<trees[i][k].name, m>>
    OBVIOUS
  <2>4. Compiled(n)
    BY <2>2, <2>3 DEF Done
  <2>5. PICK j \in DOMAIN m_functions :
          /\ m_functions[j].name = n /\ m_functions[j].compiled
          /\ \A l \in 1 .. j - 1 : m_functions[l].name # n
    BY <2>4 DEF Compiled
  <2>6. getFunction(n) = FirstNamed(m_functions, n)
    BY DEF getFunction, FirstNamed
  <2>7. getFunction(n) = j
    BY <2>5, <2>6, FirstNamedUnique DEF TypeInv, TypeOK, CodeOK
  <2> QED BY <2>3, <2>5, <2>7 DEF HasFunction
<1>2. Spec => []DoneInv
  BY DoneInit, DoneNext, TypeInvariant, PTL DEF Spec
<1> QED BY <1>1, <1>2, TypeInvariant, PTL
===============================================================================
