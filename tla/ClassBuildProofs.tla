--------------------------- MODULE ClassBuildProofs ---------------------------
(***************************************************************************)
(* Proofs about ClassBuild, for every set of classes, functions and types, *)
(* every size, all batches and any number of builds.                       *)
(***************************************************************************)
EXTENDS ClassBuild, SequenceTheorems, WellFoundedInduction, TLAPS

AtClass == phase \in {"class", "members", "metrics", "functions", "emit"}
AtType  == phase \in {"members", "metrics", "functions", "emit"}

(* u and c point into the batch.                                           *)
Placed ==
  /\ phase \in {"imports", "end"} \/ AtClass => u \in DOMAIN trees
  /\ AtClass => c \in DOMAIN trees[u]
  /\ phase = "imports" => c = 1

(* The compiler will find a class and its functions.                       *)
Has(class) ==
  /\ HasType(m_types, class.name)
  /\ \A i \in DOMAIN class.functions : HasFunction(<<class.name, class.functions[i]>>)

(* So it will for every class that has been collected.                     *)
Reached(class) ==
  \E i \in DOMAIN trees : \E k \in DOMAIN trees[i] :
    /\ trees[i][k] = class
    /\ phase = "collect" => i < u \/ (i = u /\ k < c)

Collected ==
  phase # "idle" => \A class \in Decl : Reached(class) => Has(class)

Begun ==
  /\ AtType => cls \in DOMAIN types
  /\ phase = "functions" => HasFunction(Constructor(Class.name))

TypeInv == TypeOK /\ Placed /\ Collected /\ Begun

-----------------------------------------------------------------------------
(* Lemmas about sequences and searches.                                    *)

LEMMA SingletonSeq ==
  ASSUME NEW S, NEW x \in S
  PROVE  <<x>> \in Seq(S) /\ Len(<<x>>) = 1 /\ <<x>>[1] = x
OBVIOUS

(* A search from the front ends at the first hit.                          *)
LEMMA FirstHit ==
  ASSUME NEW n \in Nat, NEW T, T \subseteq 1 .. n, T # {}
  PROVE  \E i \in T : \A j \in 1 .. i - 1 : j \notin T
<1>1. T \subseteq Nat
  OBVIOUS
<1>2. PICK i \in T : \A j \in T : <<j, i>> \notin OpToRel(<, Nat)
  BY <1>1, NatLessThanWellFounded, WFMin, Zenon
<1>3. \A j \in T : ~ (j < i)
  BY <1>1, <1>2 DEF OpToRel
<1> QED BY <1>1, <1>3

FirstNamed(s, n) ==
  CHOOSE i \in DOMAIN s : s[i].name = n /\ \A j \in 1 .. i - 1 : s[j].name # n

LEMMA FirstNamedExists ==
  ASSUME NEW S, NEW s \in Seq(S), NEW n, \E i \in DOMAIN s : s[i].name = n
  PROVE  /\ FirstNamed(s, n) \in DOMAIN s
         /\ s[FirstNamed(s, n)].name = n
         /\ \A j \in 1 .. FirstNamed(s, n) - 1 : s[j].name # n
<1> DEFINE T == {i \in DOMAIN s : s[i].name = n}
<1>1. Len(s) \in Nat /\ DOMAIN s = 1 .. Len(s)
  BY LenProperties
<1>2. PICK i \in T : \A j \in 1 .. i - 1 : j \notin T
  BY <1>1, FirstHit
<1>3. i \in DOMAIN s /\ s[i].name = n /\ \A j \in 1 .. i - 1 : s[j].name # n
  BY <1>1, <1>2
<1> QED BY <1>3 DEF FirstNamed

LEMMA FirstNamedUnique ==
  ASSUME NEW S, NEW s \in Seq(S), NEW n, NEW i \in DOMAIN s, s[i].name = n,
         \A j \in 1 .. i - 1 : s[j].name # n
  PROVE  FirstNamed(s, n) = i
<1> DEFINE k == FirstNamed(s, n)
<1>1. DOMAIN s = 1 .. Len(s) /\ Len(s) \in Nat
  BY LenProperties
<1>2. k \in DOMAIN s /\ s[k].name = n /\ \A j \in 1 .. k - 1 : s[j].name # n
  BY FirstNamedExists
<1> HIDE DEF k
<1>3. ~ (i < k) /\ ~ (k < i)
  BY <1>1, <1>2
<1>4. k = i
  BY <1>1, <1>2, <1>3
<1> QED BY <1>4 DEF k

FirstType(ty, s, n) ==
  s[CHOOSE i \in DOMAIN s :
      ty[s[i]].name = n /\ \A j \in 1 .. i - 1 : ty[s[j]].name # n]

LEMMA FirstTypeExists ==
  ASSUME NEW S, NEW s \in Seq(S), NEW ty, NEW n, \E i \in DOMAIN s : ty[s[i]].name = n
  PROVE  /\ FirstType(ty, s, n) \in S
         /\ \E i \in DOMAIN s : FirstType(ty, s, n) = s[i]
         /\ ty[FirstType(ty, s, n)].name = n
<1> DEFINE T == {i \in DOMAIN s : ty[s[i]].name = n}
<1>1. Len(s) \in Nat /\ DOMAIN s = 1 .. Len(s)
  BY LenProperties
<1>2. PICK i \in T : \A j \in 1 .. i - 1 : j \notin T
  BY <1>1, FirstHit
<1>3. i \in DOMAIN s /\ ty[s[i]].name = n /\ \A j \in 1 .. i - 1 : ty[s[j]].name # n
  BY <1>1, <1>2
<1> DEFINE k == CHOOSE j \in DOMAIN s :
                  ty[s[j]].name = n /\ \A l \in 1 .. j - 1 : ty[s[l]].name # n
<1>4. k \in DOMAIN s /\ ty[s[k]].name = n
  BY <1>3
<1>5. s[k] \in S
  BY <1>1, <1>4, ElementOfSeq
<1> QED BY <1>4, <1>5 DEF FirstType

-----------------------------------------------------------------------------
(* Steps that keep what the compiler will look for.                        *)

(* No type and no function changes its name or its place.                  *)
Grown ==
  /\ \A t \in DOMAIN types : t \in DOMAIN types' /\ types'[t].name = types[t].name
  /\ \A i \in DOMAIN m_types : i \in DOMAIN m_types' /\ m_types'[i] = m_types[i]
  /\ \A i \in DOMAIN m_functions :
       i \in DOMAIN m_functions' /\ m_functions'[i].name = m_functions[i].name

LEMMA GrownFunction ==
  ASSUME Grown, NEW n, HasFunction(n)
  PROVE  HasFunction(n)'
BY DEF Grown, HasFunction

LEMMA GrownHas ==
  ASSUME TablesOK, Grown, NEW class, Has(class)
  PROVE  Has(class)'
<1>1. \A i \in DOMAIN class.functions : HasFunction(<<class.name, class.functions[i]>>)'
  BY GrownFunction DEF Has
<1>2. PICK i \in DOMAIN m_types : types[m_types[i]].name = class.name
  BY DEF Has, HasType
<1>3. m_types[i] \in DOMAIN types
  BY LenProperties, ElementOfSeq DEF TablesOK
<1>4. i \in DOMAIN m_types' /\ types'[m_types'[i]].name = class.name
  BY <1>2, <1>3 DEF Grown
<1>5. HasType(m_types, class.name)'
  BY <1>4 DEF HasType
<1> QED BY <1>1, <1>5 DEF Has

(* What has been collected stays collected.                                *)
LEMMA CollectedKept ==
  ASSUME TablesOK, Collected, Grown, phase # "idle",
         \A class \in Decl : Reached(class)' => Reached(class)
  PROVE  Collected'
BY GrownHas DEF Collected

(* A step that leaves the tables and the functions alone.                  *)
LEMMA SameGrown ==
  ASSUME UNCHANGED types, UNCHANGED m_types, UNCHANGED m_functions
  PROVE  Grown
BY DEF Grown

(* A step that leaves the batch alone and collects nothing.                *)
LEMMA SameReached ==
  ASSUME UNCHANGED trees, phase # "collect" \/ (UNCHANGED u /\ UNCHANGED c),
         phase = "collect" => phase' = "collect",
         phase # "collect" => phase' # "collect"
  PROVE  \A class : Reached(class)' => Reached(class)
BY DEF Reached

LEMMA SpentTyped ==
  ASSUME spent \in Spent, NEW what \in {"builds", "members", "errors"}, NEW max,
         Spend(what, max)
  PROVE  spent' \in Spent
<1>1. spent[what] + 1 \in Nat
  BY DEF Spent
<1> QED BY <1>1 DEF Spend, Spent

(* The class at hand.                                                      *)
LEMMA ClassTyped ==
  ASSUME PlaceOK, u \in DOMAIN trees, c \in DOMAIN trees[u]
  PROVE  /\ Class \in Decl
         /\ Class.name \in Classes
         /\ Class.functions \in Seq(Classes \cup Methods)
<1>1. trees[u] \in Seq(Decl)
  BY LenProperties, ElementOfSeq DEF PlaceOK
<1>2. Class \in Decl
  BY <1>1, LenProperties, ElementOfSeq DEF Class
<1> QED BY <1>2 DEF Decl

(* Indexes into types stay valid when types grows.                         *)
LEMMA TableKept ==
  ASSUME NEW D, NEW E, D \subseteq E, NEW s \in Seq(D)
  PROVE  s \in Seq(E)
BY SeqMonotonic

LEMMA TypeUpdated ==
  ASSUME TablesOK, cls \in DOMAIN types, NEW r \in TypeRec,
         types' = [types EXCEPT ![cls] = r]
  PROVE  /\ types' \in Seq(TypeRec) /\ DOMAIN types' = DOMAIN types
         /\ types'[cls] = r
         /\ \A t \in DOMAIN types : t # cls => types'[t] = types[t]
<1>1. types \in Seq(TypeRec) /\ cls \in 1 .. Len(types)
  BY LenProperties DEF TablesOK
<1>2. types' \in Seq(TypeRec)
  BY <1>1, ExceptSeq
<1> QED BY <1>2

(* computeMetrics changes the size of a type only.                         *)
LEMMA SizeSet ==
  ASSUME TablesOK, cls \in DOMAIN types, NEW size \in Nat,
         types' = [types EXCEPT ![cls].size = size]
  PROVE  /\ types' \in Seq(TypeRec) /\ DOMAIN types' = DOMAIN types
         /\ types'[cls].name = types[cls].name /\ types'[cls].fields = types[cls].fields
         /\ types'[cls].size = size
         /\ \A t \in DOMAIN types : t # cls => types'[t] = types[t]
<1> DEFINE r == [types[cls] EXCEPT !.size = size]
<1>1. types[cls] \in TypeRec
  BY LenProperties, ElementOfSeq DEF TablesOK
<1>2. r \in TypeRec /\ r.name = types[cls].name /\ r.fields = types[cls].fields /\ r.size = size
  BY <1>1 DEF TypeRec
<1>3. types' = [types EXCEPT ![cls] = r]
  OBVIOUS
<1> HIDE DEF r
<1> QED BY <1>2, <1>3, TypeUpdated

(* A member more.                                                          *)
LEMMA FieldAdded ==
  ASSUME TablesOK, cls \in DOMAIN types, NEW fld \in FieldRec,
         types' = [types EXCEPT ![cls].fields = Append(@, fld)]
  PROVE  /\ types' \in Seq(TypeRec) /\ DOMAIN types' = DOMAIN types
         /\ types'[cls].name = types[cls].name /\ types'[cls].size = types[cls].size
         /\ types'[cls].fields = Append(types[cls].fields, fld)
         /\ \A t \in DOMAIN types : t # cls => types'[t] = types[t]
<1> DEFINE r == [types[cls] EXCEPT !.fields = Append(types[cls].fields, fld)]
<1>1. types[cls] \in TypeRec
  BY LenProperties, ElementOfSeq DEF TablesOK
<1>2. Append(types[cls].fields, fld) \in Seq(FieldRec)
  BY <1>1, AppendProperties DEF TypeRec
<1>3. /\ r \in TypeRec /\ r.name = types[cls].name /\ r.size = types[cls].size
      /\ r.fields = Append(types[cls].fields, fld)
  BY <1>1, <1>2 DEF TypeRec
<1>4. types' = [types EXCEPT ![cls] = r]
  OBVIOUS
<1> HIDE DEF r
<1> QED BY <1>3, <1>4, TypeUpdated

(* A type that is looked up where it is present exists.                    *)
LEMMA TypeFound ==
  ASSUME TablesOK, NEW s \in Seq(DOMAIN types), NEW n, HasType(s, n)
  PROVE  /\ getType(s, n) \in DOMAIN types
         /\ types[getType(s, n)].name = n
         /\ \E i \in DOMAIN s : getType(s, n) = s[i]
<1>1. getType(s, n) = FirstType(types, s, n)
  BY DEF getType, FirstType
<1>2. \E i \in DOMAIN s : types[s[i]].name = n
  BY DEF HasType
<1> QED BY <1>1, <1>2, FirstTypeExists

LEMMA SizeTyped ==
  ASSUME TablesOK, NEW n
  PROVE  getSize(n) \in Nat
<1>1. ASSUME NEW t \in DOMAIN types
      PROVE  types[t].size \in Nat
  <2>1. types[t] \in TypeRec
    BY <1>1, LenProperties, ElementOfSeq DEF TablesOK
  <2> QED BY <2>1 DEF TypeRec
<1>2. CASE n \in HostTypes
  BY <1>2, BuildAssumption DEF getSize, Known
<1>3. CASE n \notin HostTypes /\ HasType(typedb, n)
  BY <1>1, <1>3, TypeFound DEF getSize, Known, getTypeInfo, TablesOK
<1>4. CASE n \notin HostTypes /\ ~HasType(typedb, n) /\ HasType(m_types, n)
  BY <1>1, <1>4, TypeFound DEF getSize, Known, getTypeInfo, TablesOK
<1>5. CASE ~Known(n)
  BY <1>5 DEF getSize
<1> QED BY <1>2, <1>3, <1>4, <1>5 DEF Known

(* The functions of the class at hand are in the module.                   *)
LEMMA ClassReached ==
  ASSUME TypeInv, AtClass
  PROVE  Class \in Decl /\ Has(Class)
<1>1. u \in DOMAIN trees /\ c \in DOMAIN trees[u] /\ PlaceOK
  BY DEF TypeInv, TypeOK, Placed
<1>2. PICK class \in Decl : class = Class
  BY <1>1, ClassTyped
<1>3. Reached(class)
  BY <1>1, <1>2 DEF Reached, Class, AtClass
<1>4. Has(class)
  BY <1>2, <1>3 DEF TypeInv, Collected, AtClass
<1> QED BY <1>2, <1>4

LEMMA FunctionsTyped ==
  ASSUME Class \in Decl
  PROVE  /\ Functions \in Seq(Classes \cup Methods)
         /\ \A i \in DOMAIN Functions :
              \/ Functions[i] = Class.name
              \/ \E k \in DOMAIN Class.functions : Functions[i] = Class.functions[k]
<1>1. Class.functions \in Seq(Classes \cup Methods) /\ Class.name \in Classes \cup Methods
  BY DEF Decl
<1>2. CASE HasConstructor
  BY <1>1, <1>2 DEF Functions
<1>3. CASE ~HasConstructor
  <2>1. Functions = Append(Class.functions, Class.name)
    BY <1>3 DEF Functions
  <2>2. /\ Functions \in Seq(Classes \cup Methods)
        /\ Len(Functions) = Len(Class.functions) + 1
        /\ \A i \in 1 .. Len(Class.functions) : Functions[i] = Class.functions[i]
        /\ Functions[Len(Class.functions) + 1] = Class.name
    BY <1>1, <2>1, AppendProperties
  <2>3. /\ DOMAIN Functions = 1 .. Len(Class.functions) + 1
        /\ DOMAIN Class.functions = 1 .. Len(Class.functions)
        /\ Len(Class.functions) \in Nat
    BY <1>1, <2>2, LenProperties
  <2> QED BY <2>2, <2>3
<1> QED BY <1>2, <1>3

LEMMA FunctionKnown ==
  ASSUME TypeInv, phase = "functions", f <= Len(Functions)
  PROVE  /\ f \in DOMAIN Functions
         /\ Functions[f] \in Classes \cup Methods
         /\ HasFunction(<<Class.name, Functions[f]>>)
<1>1. Class \in Decl /\ Has(Class)
  BY ClassReached DEF AtClass
<1>2. Functions \in Seq(Classes \cup Methods)
  BY <1>1, FunctionsTyped
<1>3. f \in DOMAIN Functions
  BY <1>2, LenProperties DEF TypeInv, TypeOK, PlaceOK
<1>4. Functions[f] \in Classes \cup Methods
  BY <1>2, <1>3, LenProperties, ElementOfSeq
<1>5. HasFunction(<<Class.name, Class.name>>)
  BY DEF TypeInv, Begun, Constructor
<1>6. \A k \in DOMAIN Class.functions : HasFunction(<<Class.name, Class.functions[k]>>)
  BY <1>1 DEF Has
<1>7. \/ Functions[f] = Class.name
      \/ \E k \in DOMAIN Class.functions : Functions[f] = Class.functions[k]
  BY <1>1, <1>3, FunctionsTyped
<1>8. HasFunction(<<Class.name, Functions[f]>>)
  BY <1>5, <1>6, <1>7
<1> QED BY <1>3, <1>4, <1>8

LEMMA FunctionFound ==
  ASSUME CodeOK, NEW n, HasFunction(n)
  PROVE  /\ getFunction(n) \in DOMAIN m_functions
         /\ m_functions[getFunction(n)].name = n
         /\ \A j \in 1 .. getFunction(n) - 1 : m_functions[j].name # n
<1>1. getFunction(n) = FirstNamed(m_functions, n)
  BY DEF getFunction, FirstNamed
<1> QED BY <1>1, FirstNamedExists DEF HasFunction, CodeOK

-----------------------------------------------------------------------------
(* Every step keeps TypeInv.                                               *)

LEMMA RejectBatchType ==
  ASSUME TypeInv, RejectBatch
  PROVE  TypeInv'
<1> USE DEF RejectBatch, tables, code, place, layout
<1>1. spent' \in Spent
  BY SpentTyped DEF TypeInv, TypeOK, PlaceOK
<1>2. TablesOK' /\ CodeOK' /\ ImageOK' /\ PlaceOK'
  BY <1>1 DEF TypeInv, TypeOK, TablesOK, CodeOK, ImageOK, PlaceOK
<1>3. Placed' /\ Collected' /\ Begun'
  BY DEF TypeInv, Placed, Collected, Begun, AtClass, AtType
<1> QED BY <1>2, <1>3 DEF TypeInv, TypeOK

LEMMA StartBuildType ==
  ASSUME TypeInv, NEW batch \in Batches, StartBuild(batch)
  PROVE  TypeInv'
<1> USE DEF StartBuild, tables, layout
<1>1. spent' \in Spent
  BY SpentTyped DEF TypeInv, TypeOK, PlaceOK
<1>2. TablesOK' /\ CodeOK' /\ ImageOK'
  BY EmptySeq DEF TypeInv, TypeOK, TablesOK, CodeOK, ImageOK
<1>3. trees' \in Seq(Seq(Decl))
  BY BuildAssumption
<1>4. PlaceOK'
  BY <1>1, <1>3 DEF TypeInv, TypeOK, PlaceOK, Phases
<1>5. \A i \in DOMAIN trees' : i >= 1 /\ i \in Nat
  BY <1>3, LenProperties
<1>6. \A i \in DOMAIN trees' : \A k \in DOMAIN trees'[i] : k >= 1 /\ k \in Nat
  BY <1>3, LenProperties, ElementOfSeq
<1>7. Collected'
  BY <1>5, <1>6 DEF Collected, Reached
<1>8. Placed' /\ Begun'
  BY DEF Placed, Begun, AtClass, AtType
<1> QED BY <1>2, <1>4, <1>7, <1>8 DEF TypeInv, TypeOK

LEMMA CollectClassType ==
  ASSUME TypeInv, CollectClass
  PROVE  TypeInv'
<1> USE DEF CollectClass
<1>1. TablesOK /\ CodeOK /\ ImageOK /\ PlaceOK
  BY DEF TypeInv, TypeOK
<1>2. u \in DOMAIN trees /\ c \in DOMAIN trees[u]
  <2>1. u \in DOMAIN trees
    BY <1>1, LenProperties DEF PlaceOK
  <2>2. trees[u] \in Seq(Decl)
    BY <1>1, <2>1, LenProperties, ElementOfSeq DEF PlaceOK
  <2> QED BY <1>1, <2>1, <2>2, LenProperties DEF PlaceOK
<1>3. /\ Class \in Decl /\ Class.name \in Classes
      /\ Class.functions \in Seq(Classes \cup Methods)
  BY <1>1, <1>2, ClassTyped
<1> DEFINE new == [name |-> Class.name, size |-> 0, fields |-> <<>>]
           fns == [i \in DOMAIN Class.functions |-> Fresh(<<Class.name, Class.functions[i]>>)]
<1>4. new \in TypeRec
  BY <1>3, EmptySeq DEF TypeRec
<1>5. /\ types' \in Seq(TypeRec) /\ Len(types') = Len(types) + 1
      /\ \A t \in 1 .. Len(types) : types'[t] = types[t]
      /\ types'[Len(types) + 1] = new
  BY <1>1, <1>4, AppendProperties DEF TablesOK
<1>6. /\ DOMAIN types = 1 .. Len(types) /\ DOMAIN types' = 1 .. Len(types) + 1
      /\ Len(types) \in Nat
  BY <1>1, <1>5, LenProperties DEF TablesOK
<1>7. m_types \in Seq(DOMAIN types') /\ Len(types) + 1 \in DOMAIN types'
  BY <1>1, <1>6, TableKept DEF TablesOK
<1>8. /\ m_types' \in Seq(DOMAIN types') /\ Len(m_types') = Len(m_types) + 1
      /\ \A i \in 1 .. Len(m_types) : m_types'[i] = m_types[i]
      /\ m_types'[Len(m_types) + 1] = Len(types) + 1
  BY <1>7, AppendProperties
<1>9. /\ DOMAIN m_types = 1 .. Len(m_types) /\ DOMAIN m_types' = 1 .. Len(m_types) + 1
      /\ Len(m_types) \in Nat
  BY <1>7, <1>8, LenProperties
<1>10. TablesOK'
  BY <1>1, <1>5, <1>6, <1>8, TableKept DEF TablesOK
<1>11. /\ fns \in Seq(FnRec) /\ Len(fns) = Len(Class.functions)
       /\ \A i \in DOMAIN Class.functions : fns[i].name = <<Class.name, Class.functions[i]>>
  <2>1. \A i \in DOMAIN Class.functions :
          /\ Fresh(<<Class.name, Class.functions[i]>>) \in FnRec
          /\ Fresh(<<Class.name, Class.functions[i]>>).name = <<Class.name, Class.functions[i]>>
    BY <1>3, LenProperties, ElementOfSeq DEF Fresh, FnRec, Names
  <2>2. DOMAIN Class.functions = 1 .. Len(Class.functions) /\ Len(Class.functions) \in Nat
    BY <1>3, LenProperties
  <2>3. fns \in Seq(FnRec)
    BY <2>1, <2>2, IsASeq
  <2>4. DOMAIN fns = 1 .. Len(fns) /\ Len(fns) \in Nat
    BY <2>3, LenProperties
  <2>5. DOMAIN fns = DOMAIN Class.functions
    OBVIOUS
  <2>6. Len(fns) = Len(Class.functions)
    BY <2>2, <2>4, <2>5
  <2> QED BY <2>1, <2>3, <2>6
<1>12. m_functions' = m_functions \o fns
  OBVIOUS
<1> HIDE DEF fns, new
<1>13. /\ m_functions' \in Seq(FnRec)
       /\ Len(m_functions') = Len(m_functions) + Len(fns)
       /\ \A i \in 1 .. Len(m_functions) + Len(fns) :
            m_functions'[i] = IF i <= Len(m_functions) THEN m_functions[i]
                                                       ELSE fns[i - Len(m_functions)]
  <2>1. m_functions \in Seq(FnRec) /\ fns \in Seq(FnRec)
    BY <1>1, <1>11 DEF CodeOK
  <2>2. /\ m_functions \o fns \in Seq(FnRec)
        /\ Len(m_functions \o fns) = Len(m_functions) + Len(fns)
        /\ \A i \in 1 .. Len(m_functions) + Len(fns) :
             (m_functions \o fns)[i] = IF i <= Len(m_functions) THEN m_functions[i]
                                                               ELSE fns[i - Len(m_functions)]
    BY <2>1, ConcatProperties
  <2> QED BY <1>12, <2>2, Zenon
<1>14. /\ DOMAIN m_functions = 1 .. Len(m_functions) /\ Len(m_functions) \in Nat
       /\ DOMAIN fns = 1 .. Len(fns) /\ Len(fns) \in Nat
       /\ DOMAIN m_functions' = 1 .. Len(m_functions')
       /\ DOMAIN Class.functions = 1 .. Len(Class.functions)
  BY <1>1, <1>3, <1>11, <1>13, LenProperties DEF CodeOK
<1>15. Grown
  <2>1. \A i \in DOMAIN m_functions :
          i \in DOMAIN m_functions' /\ m_functions'[i] = m_functions[i]
    BY <1>13, <1>14
  <2> QED BY <1>5, <1>6, <1>8, <1>9, <2>1 DEF Grown
<1>16. CodeOK' /\ ImageOK'
  BY <1>1, <1>13 DEF CodeOK, ImageOK
<1>17. PlaceOK'
  BY <1>1 DEF PlaceOK, layout, outcome
<1>18. \A class : class = Class => Has(class)'
  <2> SUFFICES ASSUME NEW class, class = Class
               PROVE  Has(class)'
    OBVIOUS
  <2>1. types'[m_types'[Len(m_types) + 1]].name = class.name
    BY <1>5, <1>8 DEF new
  <2>2. Len(m_types) + 1 \in DOMAIN m_types'
    BY <1>9
  <2>3. ASSUME NEW i \in DOMAIN class.functions
        PROVE  /\ Len(m_functions) + i \in DOMAIN m_functions'
               /\ m_functions'[Len(m_functions) + i].name = <<class.name, class.functions[i]>>
    <3>1. i \in 1 .. Len(fns) /\ fns[i].name = <<class.name, class.functions[i]>>
      BY <1>11, <1>14, <2>3
    <3> DEFINE x == Len(m_functions) + i
    <3>2. /\ x \in 1 .. Len(m_functions) + Len(fns)
          /\ ~ (x <= Len(m_functions))
          /\ x - Len(m_functions) = i
      BY <1>14, <3>1, SMTT(20)
    <3> HIDE DEF x
    <3>3. m_functions'[x] = IF x <= Len(m_functions) THEN m_functions[x]
                                                     ELSE fns[x - Len(m_functions)]
      BY <1>13, <3>2
    <3>4. x \in DOMAIN m_functions' /\ m_functions'[x] = fns[i]
      BY <1>13, <1>14, <3>2, <3>3
    <3> QED BY <3>1, <3>4 DEF x
  <2>4. \A i \in DOMAIN class.functions :
          HasFunction(<<class.name, class.functions[i]>>)'
    BY <2>3 DEF HasFunction
  <2>5. HasType(m_types, class.name)'
    BY <2>1, <2>2 DEF HasType
  <2> QED BY <2>4, <2>5 DEF Has
<1>19. Collected'
  <2> SUFFICES ASSUME NEW class \in Decl, Reached(class)'
               PROVE  Has(class)'
    BY DEF Collected
  <2>1. PICK i \in DOMAIN trees : \E k \in DOMAIN trees[i] :
          trees[i][k] = class /\ (i < u \/ (i = u /\ k < c + 1))
    BY DEF Reached, layout, outcome
  <2>2. PICK k \in DOMAIN trees[i] :
          trees[i][k] = class /\ (i < u \/ (i = u /\ k < c + 1))
    BY <2>1
  <2>3. trees[i] \in Seq(Decl)
    BY <1>1, <2>1, LenProperties, ElementOfSeq DEF PlaceOK
  <2>4. k \in Nat /\ c \in Nat
    BY <1>1, <2>2, <2>3, LenProperties DEF PlaceOK
  <2>5. i < u \/ (i = u /\ k < c) \/ (i = u /\ k = c)
    BY <2>2, <2>4
  <2>6. CASE i = u /\ k = c
    <3>1. Class = class
      BY <2>2, <2>6 DEF Class
    <3> QED BY <1>18, <3>1
  <2>7. CASE i < u \/ (i = u /\ k < c)
    <3>1. Reached(class)
      BY <2>2, <2>7 DEF Reached
    <3> QED BY <1>1, <1>15, <3>1, GrownHas DEF TypeInv, Collected
  <2> QED BY <2>5, <2>6, <2>7
<1>20. Placed' /\ Begun'
  BY DEF Placed, Begun, AtClass, AtType, layout, outcome
<1> QED BY <1>10, <1>16, <1>17, <1>19, <1>20 DEF TypeInv, TypeOK

LEMMA NextTreeType ==
  ASSUME TypeInv, NextTree
  PROVE  TypeInv'
<1> USE DEF NextTree, tables, code, layout, outcome
<1>1. TablesOK /\ CodeOK /\ ImageOK /\ PlaceOK
  BY DEF TypeInv, TypeOK
<1>2. TablesOK' /\ CodeOK' /\ ImageOK'
  BY <1>1 DEF TablesOK, CodeOK, ImageOK
<1>3. PlaceOK'
  BY <1>1 DEF PlaceOK
<1>4. Collected'
  <2> SUFFICES ASSUME NEW class \in Decl, Reached(class)'
               PROVE  Reached(class)
    BY <1>1, CollectedKept, SameGrown DEF TypeInv
  <2>1. PICK i \in DOMAIN trees : \E k \in DOMAIN trees[i] :
          trees[i][k] = class /\ (i < u + 1 \/ (i = u + 1 /\ k < 1))
    BY DEF Reached
  <2>2. PICK k \in DOMAIN trees[i] :
          trees[i][k] = class /\ (i < u + 1 \/ (i = u + 1 /\ k < 1))
    BY <2>1
  <2>3. trees[i] \in Seq(Decl) /\ i \in Nat
    BY <1>1, <2>1, LenProperties, ElementOfSeq DEF PlaceOK
  <2>4. k \in 1 .. Len(trees[i]) /\ Len(trees[i]) \in Nat
    BY <2>2, <2>3, LenProperties
  <2>5. i < u \/ (i = u /\ k < c)
    BY <1>1, <2>2, <2>3, <2>4 DEF PlaceOK
  <2> QED BY <2>2, <2>5 DEF Reached
<1>5. Placed' /\ Begun'
  BY DEF Placed, Begun, AtClass, AtType
<1> QED BY <1>2, <1>3, <1>4, <1>5 DEF TypeInv, TypeOK

LEMMA EndCollectType ==
  ASSUME TypeInv, EndCollect
  PROVE  TypeInv'
<1> USE DEF EndCollect, tables, code, layout, outcome
<1>1. TablesOK /\ CodeOK /\ ImageOK /\ PlaceOK
  BY DEF TypeInv, TypeOK
<1>2. TablesOK' /\ CodeOK' /\ ImageOK'
  BY <1>1 DEF TablesOK, CodeOK, ImageOK
<1>3. PlaceOK'
  BY <1>1 DEF PlaceOK, Phases
<1>4. Collected'
  <2> SUFFICES ASSUME NEW class \in Decl, Reached(class)'
               PROVE  Reached(class)
    BY <1>1, CollectedKept, SameGrown DEF TypeInv
  <2>1. DOMAIN trees = 1 .. Len(trees) /\ Len(trees) \in Nat
    BY <1>1, LenProperties DEF PlaceOK
  <2>2. \A i \in DOMAIN trees : i < u
    BY <1>1, <2>1 DEF PlaceOK
  <2> QED BY <2>2 DEF Reached
<1>5. Placed' /\ Begun'
  BY DEF Placed, Begun, AtClass, AtType
<1> QED BY <1>2, <1>3, <1>4, <1>5 DEF TypeInv, TypeOK

LEMMA BeginUnitType ==
  ASSUME TypeInv, BeginUnit
  PROVE  TypeInv'
<1> USE DEF BeginUnit, tables, layout
<1>1. TablesOK /\ CodeOK /\ ImageOK /\ PlaceOK
  BY DEF TypeInv, TypeOK
<1>2. Len(m_code) \in Nat /\ DOMAIN trees = 1 .. Len(trees) /\ Len(trees) \in Nat
  BY <1>1, LenProperties DEF CodeOK, PlaceOK
<1>3. TablesOK' /\ CodeOK' /\ ImageOK'
  BY <1>1, <1>2 DEF TablesOK, CodeOK, ImageOK
<1>4. PlaceOK'
  BY <1>1 DEF PlaceOK, Phases
<1>5. Collected'
  BY <1>1, CollectedKept, SameGrown, SameReached DEF TypeInv
<1>6. Placed' /\ Begun'
  BY <1>1, <1>2 DEF Placed, Begun, AtClass, AtType, PlaceOK
<1> QED BY <1>3, <1>4, <1>5, <1>6 DEF TypeInv, TypeOK

LEMMA ImportType ==
  ASSUME TypeInv, NEW m \in Modules, Import(m)
  PROVE  TypeInv'
<1> USE DEF Import, tables, code, place, layout, outcome
<1>1. TablesOK /\ CodeOK /\ ImageOK /\ PlaceOK
  BY DEF TypeInv, TypeOK
<1>2. TablesOK' /\ CodeOK' /\ ImageOK' /\ PlaceOK'
  BY <1>1 DEF TablesOK, CodeOK, ImageOK, PlaceOK
<1>3. Collected'
  BY <1>1, CollectedKept, SameGrown, SameReached DEF TypeInv
<1>4. Placed' /\ Begun'
  BY DEF TypeInv, Placed, Begun, AtClass, AtType
<1> QED BY <1>2, <1>3, <1>4 DEF TypeInv, TypeOK

LEMMA RejectImportType ==
  ASSUME TypeInv, RejectImport
  PROVE  TypeInv'
<1> USE DEF RejectImport, tables, code, place, layout
<1>1. TablesOK /\ CodeOK /\ ImageOK /\ PlaceOK
  BY DEF TypeInv, TypeOK
<1>2. spent' \in Spent
  BY <1>1, SpentTyped DEF PlaceOK
<1>3. TablesOK' /\ CodeOK' /\ ImageOK' /\ PlaceOK'
  BY <1>1, <1>2 DEF TablesOK, CodeOK, ImageOK, PlaceOK
<1>4. Collected'
  BY <1>1, CollectedKept, SameGrown, SameReached DEF TypeInv
<1>5. Placed' /\ Begun'
  BY DEF TypeInv, Placed, Begun, AtClass, AtType
<1> QED BY <1>3, <1>4, <1>5 DEF TypeInv, TypeOK

LEMMA EndImportsType ==
  ASSUME TypeInv, EndImports
  PROVE  TypeInv'
<1> USE DEF EndImports, tables, code, place, layout, outcome
<1>1. TablesOK /\ CodeOK /\ ImageOK /\ PlaceOK
  BY DEF TypeInv, TypeOK
<1>2. TablesOK' /\ CodeOK' /\ ImageOK' /\ PlaceOK'
  BY <1>1 DEF TablesOK, CodeOK, ImageOK, PlaceOK, Phases
<1>3. Collected'
  BY <1>1, CollectedKept, SameGrown, SameReached DEF TypeInv
<1>4. Placed'
  <2>1. u \in DOMAIN trees /\ c = 1
    BY DEF TypeInv, Placed
  <2>2. trees[u] \in Seq(Decl)
    BY <1>1, <2>1, LenProperties, ElementOfSeq DEF PlaceOK
  <2>3. trees[u] # <<>> => 1 \in DOMAIN trees[u]
    BY <2>2, EmptySeq, LenProperties
  <2> QED BY <2>1, <2>3 DEF Placed, AtClass
<1>5. Begun'
  BY DEF Begun, AtType
<1> QED BY <1>2, <1>3, <1>4, <1>5 DEF TypeInv, TypeOK

LEMMA RejectInheritanceType ==
  ASSUME TypeInv, RejectInheritance
  PROVE  TypeInv'
<1> USE DEF RejectInheritance, tables, code, place, layout
<1>1. TablesOK /\ CodeOK /\ ImageOK /\ PlaceOK
  BY DEF TypeInv, TypeOK
<1>2. spent' \in Spent
  BY <1>1, SpentTyped DEF PlaceOK
<1>3. TablesOK' /\ CodeOK' /\ ImageOK' /\ PlaceOK'
  BY <1>1, <1>2 DEF TablesOK, CodeOK, ImageOK, PlaceOK, Phases
<1>4. Collected'
  BY <1>1, CollectedKept, SameGrown, SameReached DEF TypeInv
<1>5. Placed' /\ Begun'
  BY DEF TypeInv, Placed, Begun, AtClass, AtType
<1> QED BY <1>3, <1>4, <1>5 DEF TypeInv, TypeOK

LEMMA BeginClassType ==
  ASSUME TypeInv, BeginClass
  PROVE  TypeInv'
<1> USE DEF BeginClass
<1>1. TablesOK /\ CodeOK /\ ImageOK /\ PlaceOK /\ Class \in Decl /\ Has(Class)
  BY ClassReached DEF TypeInv, TypeOK, AtClass
<1>2. cls' \in DOMAIN types /\ cls' \in Nat
  <2>1. cls' \in DOMAIN types
    BY <1>1, TypeFound DEF Has, TablesOK
  <2> QED BY <1>1, <2>1, LenProperties DEF TablesOK
<1>3. /\ m_types' \in Seq(DOMAIN types)
      /\ \A i \in DOMAIN m_types : i \in DOMAIN m_types' /\ m_types'[i] = m_types[i]
  <2>1. m_types \in Seq(DOMAIN types)
    BY <1>1 DEF TablesOK
  <2>2. /\ m_types' \in Seq(DOMAIN types)
        /\ Len(m_types') = Len(m_types) + 1
        /\ \A i \in 1 .. Len(m_types) : m_types'[i] = m_types[i]
    BY <1>2, <2>1, AppendProperties
  <2>3. /\ DOMAIN m_types = 1 .. Len(m_types) /\ DOMAIN m_types' = 1 .. Len(m_types')
        /\ Len(m_types) \in Nat
    BY <2>1, <2>2, LenProperties
  <2> QED BY <2>2, <2>3
<1>4. typedb' \in Seq(DOMAIN types) /\ object_heaps' \in Seq(DOMAIN types)
  BY <1>1, <1>2, AppendProperties DEF TablesOK
<1>5. TablesOK' /\ CodeOK' /\ ImageOK'
  BY <1>1, <1>3, <1>4 DEF TablesOK, CodeOK, ImageOK, code
<1>6. PlaceOK'
  BY <1>1, <1>2 DEF PlaceOK, Phases, outcome
<1>7. Collected'
  <2>1. Grown
    BY <1>3 DEF Grown, code
  <2> QED BY <1>1, <2>1, CollectedKept, SameReached DEF TypeInv
<1>8. Placed' /\ Begun'
  BY <1>2 DEF TypeInv, Placed, Begun, AtClass, AtType
<1> QED BY <1>5, <1>6, <1>7, <1>8 DEF TypeInv, TypeOK

(* A step that changes the type at hand only and keeps its name.           *)
LEMMA TypeStep ==
  ASSUME TypeInv, types' \in Seq(TypeRec), DOMAIN types' = DOMAIN types,
         types'[cls].name = types[cls].name,
         \A t \in DOMAIN types : t # cls => types'[t] = types[t],
         UNCHANGED <<m_types, typedb, object_heaps, objects, m_functions, m_code, m_cursor,
                     irfunctions, test, generated, trees, u, c>>,
         phase \in {"members", "metrics"}, phase' \in {"members", "metrics"}
  PROVE  TablesOK' /\ CodeOK' /\ ImageOK' /\ Collected'
<1>1. TablesOK' /\ CodeOK' /\ ImageOK'
  BY DEF TypeInv, TypeOK, TablesOK, CodeOK, ImageOK
<1>2. Grown
  BY DEF Grown
<1> QED BY <1>1, <1>2, CollectedKept, SameReached DEF TypeInv, TypeOK

LEMMA LayoutMemberType ==
  ASSUME TypeInv, NEW n \in MemberTypes, LayoutMember(n)
  PROVE  TypeInv'
<1> USE DEF LayoutMember
<1>1. TablesOK /\ PlaceOK /\ cls \in DOMAIN types /\ getSize(n) \in Nat
  BY SizeTyped DEF TypeInv, TypeOK, Begun, AtType
<1>2. [type |-> n, offset |-> fldOffset, size |-> getSize(n)] \in FieldRec
  BY <1>1 DEF FieldRec, PlaceOK
<1>3. /\ types' \in Seq(TypeRec) /\ DOMAIN types' = DOMAIN types
      /\ types'[cls].name = types[cls].name
      /\ \A t \in DOMAIN types : t # cls => types'[t] = types[t]
  BY <1>1, <1>2, FieldAdded
<1>4. TablesOK' /\ CodeOK' /\ ImageOK' /\ Collected'
  BY <1>3, TypeStep DEF code, place
<1>5. spent' \in Spent
  BY <1>1, SpentTyped DEF PlaceOK
<1>6. PlaceOK'
  BY <1>1, <1>5 DEF PlaceOK, place, outcome
<1>7. Placed' /\ Begun'
  BY <1>1, <1>3 DEF TypeInv, Placed, Begun, AtClass, AtType, place
<1> QED BY <1>4, <1>6, <1>7 DEF TypeInv, TypeOK

LEMMA EndMembersType ==
  ASSUME TypeInv, EndMembers
  PROVE  TypeInv'
<1> USE DEF EndMembers
<1>1. TablesOK /\ PlaceOK /\ cls \in DOMAIN types
  BY DEF TypeInv, TypeOK, Begun, AtType
<1>2. /\ types' \in Seq(TypeRec) /\ DOMAIN types' = DOMAIN types
      /\ types'[cls].name = types[cls].name
      /\ \A t \in DOMAIN types : t # cls => types'[t] = types[t]
  <2> DEFINE size == IF types[cls].fields = <<>> THEN 1 ELSE 0
  <2>1. size \in Nat /\ types' = [types EXCEPT ![cls].size = size]
    OBVIOUS
  <2> HIDE DEF size
  <2> QED BY <1>1, <2>1, SizeSet
<1>3. TablesOK' /\ CodeOK' /\ ImageOK' /\ Collected'
  BY <1>2, TypeStep DEF code
<1>4. PlaceOK'
  BY <1>1 DEF PlaceOK, Phases, layout, outcome
<1>5. Placed' /\ Begun'
  BY <1>1, <1>2 DEF TypeInv, Placed, Begun, AtClass, AtType
<1> QED BY <1>3, <1>4, <1>5 DEF TypeInv, TypeOK

LEMMA AddSizeType ==
  ASSUME TypeInv, AddSize
  PROVE  TypeInv'
<1> USE DEF AddSize
<1>1. TablesOK /\ PlaceOK /\ cls \in DOMAIN types
  BY DEF TypeInv, TypeOK, Begun, AtType
<1>2. /\ types' \in Seq(TypeRec) /\ DOMAIN types' = DOMAIN types
      /\ types'[cls].name = types[cls].name
      /\ \A t \in DOMAIN types : t # cls => types'[t] = types[t]
  <2> DEFINE size == types[cls].size + getSize(types[cls].fields[f].type)
  <2>1. types[cls] \in TypeRec
    BY <1>1, LenProperties, ElementOfSeq DEF TablesOK
  <2>2. size \in Nat
    BY <1>1, <2>1, SizeTyped DEF TypeRec
  <2>3. types' = [types EXCEPT ![cls].size = size]
    OBVIOUS
  <2> HIDE DEF size
  <2> QED BY <1>1, <2>2, <2>3, SizeSet
<1>3. TablesOK' /\ CodeOK' /\ ImageOK' /\ Collected'
  BY <1>2, TypeStep DEF code
<1>4. PlaceOK'
  BY <1>1 DEF PlaceOK, layout, outcome
<1>5. Placed' /\ Begun'
  BY <1>1, <1>2 DEF TypeInv, Placed, Begun, AtClass, AtType
<1> QED BY <1>3, <1>4, <1>5 DEF TypeInv, TypeOK

(* A step on the functions and the code of the module only.                *)
LEMMA CodeStep ==
  ASSUME TypeInv, CodeOK', Grown, phase \notin {"idle", "collect"},
         phase' \notin {"idle", "collect"},
         UNCHANGED <<types, m_types, typedb, object_heaps, objects, irfunctions, test,
                     generated, trees, u, c>>
  PROVE  TablesOK' /\ CodeOK' /\ ImageOK' /\ Collected'
<1>1. TablesOK' /\ CodeOK' /\ ImageOK'
  BY DEF TypeInv, TypeOK, TablesOK, CodeOK, ImageOK
<1> QED BY <1>1, CollectedKept, SameReached DEF TypeInv, TypeOK

(* A function added at the end.                                            *)
LEMMA FunctionAdded ==
  ASSUME NEW fs \in Seq(FnRec), NEW fn \in FnRec, m_functions' = Append(fs, fn),
         Len(fs) = Len(m_functions), m_functions \in Seq(FnRec),
         \A i \in DOMAIN m_functions : fs[i].name = m_functions[i].name
  PROVE  /\ m_functions' \in Seq(FnRec)
         /\ Len(m_functions') = Len(m_functions) + 1
         /\ DOMAIN m_functions' = 1 .. Len(m_functions) + 1
         /\ DOMAIN m_functions = 1 .. Len(m_functions) /\ Len(m_functions) \in Nat
         /\ \A i \in DOMAIN m_functions :
              i \in DOMAIN m_functions' /\ m_functions'[i] = fs[i]
                /\ m_functions'[i].name = m_functions[i].name
         /\ m_functions'[Len(m_functions) + 1] = fn
<1>1. /\ m_functions' \in Seq(FnRec)
      /\ Len(m_functions') = Len(m_functions) + 1
      /\ \A i \in 1 .. Len(m_functions) : m_functions'[i] = fs[i]
      /\ m_functions'[Len(m_functions) + 1] = fn
  BY AppendProperties
<1>2. /\ DOMAIN m_functions = 1 .. Len(m_functions) /\ Len(m_functions) \in Nat
      /\ DOMAIN m_functions' = 1 .. Len(m_functions')
  BY <1>1, LenProperties
<1> QED BY <1>1, <1>2

(* The names in Constructor are names of functions.                        *)
LEMMA NameTyped ==
  ASSUME Class \in Decl, NEW n \in Classes \cup Methods
  PROVE  <<Class.name, n>> \in Names
BY DEF Decl, Names

(* What emitClassConstructors does to functions and code.                  *)
LEMMA ConstructorAdded ==
  ASSUME TypeInv, emitClassConstructors
  PROVE  CodeOK' /\ Grown /\ HasFunction(Constructor(Class.name))'
<1> USE DEF emitClassConstructors
<1>1. TablesOK /\ CodeOK /\ Class \in Decl /\ Has(Class)
  BY ClassReached DEF TypeInv, TypeOK, AtClass
<1>2. Class' = Class
  BY DEF Class
<1>3. CASE HasConstructor
  <2>1. CodeOK' /\ Grown
    BY <1>1, <1>3 DEF CodeOK, Grown, code, tables
  <2>2. PICK k \in DOMAIN Class.functions : Class.functions[k] = Class.name
    BY <1>3 DEF HasConstructor, ToSet
  <2>3. HasFunction(<<Class.name, Class.name>>)
    BY <1>1, <2>2 DEF Has
  <2>4. HasFunction(Constructor(Class.name))'
    BY <1>2, <1>3, <2>3 DEF HasFunction, Constructor, code
  <2> QED BY <2>1, <2>4
<1>4. CASE ~HasConstructor
  <2> DEFINE name == Constructor(Class.name)
             fn == [Fresh(name) EXCEPT !.offset = m_cursor]
  <2>1. name \in Names
    BY <1>1, NameTyped DEF Constructor, Decl
  <2>2. fn \in FnRec /\ fn.name = name
    BY <1>1, <2>1 DEF FnRec, Fresh, CodeOK
  <2>3. m_functions \in Seq(FnRec) /\ m_functions' = Append(m_functions, fn)
    BY <1>1, <1>4 DEF CodeOK
  <2>4. m_code' = Append(m_code, name) /\ m_cursor' = m_cursor + 1
    BY <1>4
  <2> HIDE DEF fn
  <2>5. /\ m_functions' \in Seq(FnRec)
        /\ DOMAIN m_functions' = 1 .. Len(m_functions) + 1 /\ Len(m_functions) \in Nat
        /\ \A i \in DOMAIN m_functions :
             i \in DOMAIN m_functions' /\ m_functions'[i].name = m_functions[i].name
        /\ m_functions'[Len(m_functions) + 1] = fn
    BY <2>2, <2>3, FunctionAdded
  <2>6. CodeOK'
    BY <1>1, <2>1, <2>4, <2>5, AppendProperties DEF CodeOK
  <2>7. Grown
    BY <2>5 DEF Grown, tables
  <2>8. Len(m_functions) + 1 \in DOMAIN m_functions'
    BY <2>5
  <2>9. name' = name
    BY <1>2 DEF Constructor
  <2>10. HasFunction(name)'
    BY <2>2, <2>5, <2>8, <2>9 DEF HasFunction
  <2> QED BY <2>6, <2>7, <2>10
<1> QED BY <1>3, <1>4

LEMMA emitClassConstructorsType ==
  ASSUME TypeInv, emitClassConstructors
  PROVE  TypeInv'
<1> USE DEF emitClassConstructors
<1>1. PlaceOK /\ cls \in DOMAIN types
  BY DEF TypeInv, TypeOK, Begun, AtType
<1>2. TablesOK' /\ CodeOK' /\ ImageOK' /\ Collected'
  BY ConstructorAdded, CodeStep DEF tables
<1>3. PlaceOK'
  BY <1>1 DEF PlaceOK, Phases, layout, outcome
<1>4. Placed' /\ Begun'
  BY <1>1, ConstructorAdded DEF TypeInv, Placed, Begun, AtClass, AtType, tables
<1> QED BY <1>2, <1>3, <1>4 DEF TypeInv, TypeOK

(* What compileFunction does to functions and code.                        *)
LEMMA FunctionCompiled ==
  ASSUME TypeInv, NEW succeeds \in BOOLEAN, CompileFunction(succeeds)
  PROVE  /\ CodeOK' /\ Grown
         /\ LET i == getFunction(<<Class.name, Functions[f]>>) IN
              /\ i \in DOMAIN m_functions
              /\ m_functions'[i].offset = m_cursor /\ m_functions'[i].compiled
              /\ \A j \in DOMAIN m_functions : j # i => m_functions'[j] = m_functions[j]
              /\ \A j \in DOMAIN m_functions' :
                   j \notin DOMAIN m_functions => m_functions'[j] = m_functions'[i]
<1> DEFINE n  == <<Class.name, Functions[f]>>
           i  == getFunction(n)
           fn == [m_functions[i] EXCEPT !.offset = m_cursor, !.compiled = TRUE,
                                        !.whole = succeeds]
           fs == [m_functions EXCEPT ![i] = fn]
<1>1. /\ m_functions' = IF succeeds THEN Append(fs, fn) ELSE fs
      /\ m_code' = Append(m_code, n) /\ m_cursor' = m_cursor + 1
      /\ phase = "functions" /\ f <= Len(Functions) /\ UNCHANGED tables
  BY DEF CompileFunction
<1>2. CodeOK /\ Class \in Decl
  BY <1>1, ClassReached DEF TypeInv, TypeOK, AtClass
<1>3. HasFunction(n) /\ n \in Names
  BY <1>1, <1>2, FunctionKnown, NameTyped
<1> HIDE DEF n
<1>4. i \in DOMAIN m_functions /\ m_functions[i].name = n
  BY <1>2, <1>3, FunctionFound
<1> HIDE DEF i
<1>5. m_functions \in Seq(FnRec) /\ m_code \in Seq(Names) /\ m_cursor \in Nat
  BY <1>2 DEF CodeOK
<1>6. DOMAIN m_functions = 1 .. Len(m_functions) /\ m_functions[i] \in FnRec
  BY <1>4, <1>5, LenProperties, ElementOfSeq
<1>7. fn \in FnRec /\ fn.name = m_functions[i].name /\ fn.offset = m_cursor /\ fn.compiled
  BY <1>5, <1>6 DEF FnRec
<1> HIDE DEF fn
<1>8. /\ fs \in Seq(FnRec) /\ Len(fs) = Len(m_functions) /\ fs[i] = fn
      /\ \A j \in DOMAIN m_functions : j # i => fs[j] = m_functions[j]
  BY <1>4, <1>5, <1>6, <1>7, ExceptSeq
<1>9. \A j \in DOMAIN m_functions : fs[j].name = m_functions[j].name
  BY <1>7, <1>8
<1>10. DOMAIN fs = DOMAIN m_functions
  BY <1>6, <1>8, LenProperties
<1> HIDE DEF fs
<1>11. /\ m_functions' \in Seq(FnRec)
       /\ \A j \in DOMAIN m_functions :
            /\ j \in DOMAIN m_functions' /\ m_functions'[j] = fs[j]
            /\ m_functions'[j].name = m_functions[j].name
       /\ \A j \in DOMAIN m_functions' : j \notin DOMAIN m_functions => m_functions'[j] = fn
  <2>1. CASE succeeds
    <3>1. /\ m_functions' \in Seq(FnRec)
          /\ DOMAIN m_functions' = 1 .. Len(m_functions) + 1
          /\ DOMAIN m_functions = 1 .. Len(m_functions) /\ Len(m_functions) \in Nat
          /\ \A j \in DOMAIN m_functions :
               /\ j \in DOMAIN m_functions' /\ m_functions'[j] = fs[j]
               /\ m_functions'[j].name = m_functions[j].name
          /\ m_functions'[Len(m_functions) + 1] = fn
      BY <1>1, <1>5, <1>7, <1>8, <1>9, <2>1, FunctionAdded
    <3> QED BY <3>1
  <2>2. CASE ~succeeds
    BY <1>1, <1>8, <1>9, <1>10, <2>2
  <2> QED BY <2>1, <2>2
<1>12. CodeOK'
  BY <1>1, <1>3, <1>5, <1>11, AppendProperties DEF CodeOK
<1>13. Grown
  BY <1>1, <1>11 DEF Grown, tables
<1> QED BY <1>4, <1>7, <1>8, <1>11, <1>12, <1>13 DEF i, n

LEMMA CompileFunctionType ==
  ASSUME TypeInv, NEW b \in BOOLEAN, CompileFunction(b)
  PROVE  TypeInv'
<1> USE DEF CompileFunction
<1>1. PlaceOK /\ cls \in DOMAIN types
  BY DEF TypeInv, TypeOK, Begun, AtType
<1>2. CodeOK' /\ Grown
  BY FunctionCompiled
<1>3. TablesOK' /\ CodeOK' /\ ImageOK' /\ Collected'
  BY <1>2, CodeStep DEF tables
<1>4. spent' \in Spent
  BY <1>1, SpentTyped DEF PlaceOK
<1>5. PlaceOK'
  BY <1>1, <1>4 DEF PlaceOK, layout, outcome
<1>6. HasFunction(Constructor(Class.name))'
  <2>1. PICK n : n = Constructor(Class.name)
    OBVIOUS
  <2>2. HasFunction(n)'
    BY <1>2, <2>1, GrownFunction DEF TypeInv, Begun
  <2>3. Constructor(Class.name)' = n
    BY <2>1 DEF Constructor, Class
  <2> QED BY <2>2, <2>3 DEF HasFunction
<1>7. Placed' /\ Begun'
  BY <1>1, <1>6 DEF TypeInv, Placed, Begun, AtClass, AtType, tables
<1> QED BY <1>3, <1>5, <1>7 DEF TypeInv, TypeOK

LEMMA CrashType ==
  ASSUME TypeInv, Crash
  PROVE  TypeInv'
<1> USE DEF Crash, tables, code, layout, outcome
<1>1. TablesOK /\ CodeOK /\ ImageOK /\ PlaceOK
  BY DEF TypeInv, TypeOK
<1>2. TablesOK' /\ CodeOK' /\ ImageOK' /\ PlaceOK'
  BY <1>1 DEF TablesOK, CodeOK, ImageOK, PlaceOK, Phases, place
<1>3. Collected'
  BY <1>1, CollectedKept, SameGrown, SameReached DEF TypeInv, place
<1>4. Placed' /\ Begun'
  BY DEF TypeInv, Placed, Begun, AtClass, AtType, place
<1> QED BY <1>2, <1>3, <1>4 DEF TypeInv, TypeOK

LEMMA CheckBindingsType ==
  ASSUME TypeInv, NEW b \in BOOLEAN, CheckBindings(b)
  PROVE  TypeInv'
<1> USE DEF CheckBindings, tables, code, layout, outcome
<1>1. TablesOK /\ CodeOK /\ ImageOK /\ PlaceOK
  BY DEF TypeInv, TypeOK
<1>2. spent' \in Spent
  BY <1>1, SpentTyped DEF PlaceOK
<1>3. TablesOK' /\ CodeOK' /\ ImageOK' /\ PlaceOK'
  BY <1>1, <1>2 DEF TablesOK, CodeOK, ImageOK, PlaceOK, Phases
<1>4. Collected'
  BY <1>1, CollectedKept, SameGrown, SameReached DEF TypeInv
<1>5. Placed' /\ Begun'
  BY DEF TypeInv, Placed, Begun, AtClass, AtType
<1> QED BY <1>3, <1>4, <1>5 DEF TypeInv, TypeOK

LEMMA EmitIRType ==
  ASSUME TypeInv, EmitIR
  PROVE  TypeInv'
<1> USE DEF EmitIR, tables, code, layout, outcome
<1>1. TablesOK /\ CodeOK /\ ImageOK /\ PlaceOK /\ Class \in Decl
  BY ClassReached DEF TypeInv, TypeOK, AtClass
<1> DEFINE n == <<Class.name, Functions[f]>>
<1>2. n \in Names
  <2>1. Functions \in Seq(Classes \cup Methods)
    BY <1>1, FunctionsTyped
  <2>2. f \in DOMAIN Functions
    BY <1>1, <2>1, LenProperties DEF PlaceOK
  <2>3. Functions[f] \in Classes \cup Methods
    BY <2>1, <2>2, LenProperties, ElementOfSeq
  <2> QED BY <1>1, <2>3, NameTyped
<1>3. irfunctions' = irfunctions \/ irfunctions' = Append(irfunctions, n)
  OBVIOUS
<1> HIDE DEF n
<1>4. irfunctions' \in Seq(Names) /\ Len(irfunctions') >= Len(irfunctions)
      /\ Len(irfunctions) \in Nat /\ Len(irfunctions') \in Nat
  <2>1. irfunctions \in Seq(Names) /\ Len(irfunctions) \in Nat
    BY <1>1, LenProperties DEF ImageOK
  <2>2. /\ Append(irfunctions, n) \in Seq(Names)
        /\ Len(Append(irfunctions, n)) = Len(irfunctions) + 1
    BY <1>2, <2>1, AppendProperties
  <2>3. irfunctions' \in Seq(Names)
    BY <1>3, <2>1, <2>2
  <2>4. Len(irfunctions') = Len(irfunctions) \/ Len(irfunctions') = Len(irfunctions) + 1
    BY <1>3, <2>2, Zenon
  <2> QED BY <2>1, <2>3, <2>4
<1>5. ImageOK'
  <2>1. generated' \in 0 .. Len(irfunctions')
    BY <1>1, <1>4 DEF ImageOK
  <2> QED BY <1>1, <1>4, <2>1 DEF ImageOK
<1>6. TablesOK' /\ CodeOK' /\ PlaceOK'
  BY <1>1 DEF TablesOK, CodeOK, PlaceOK
<1>7. Collected'
  BY <1>1, CollectedKept, SameGrown, SameReached DEF TypeInv
<1>8. Placed' /\ Begun'
  BY DEF TypeInv, Placed, Begun, AtClass, AtType
<1> QED BY <1>5, <1>6, <1>7, <1>8 DEF TypeInv, TypeOK

LEMMA EndClassType ==
  ASSUME TypeInv, EndClass
  PROVE  TypeInv'
<1> USE DEF EndClass, tables, code, layout
<1>1. TablesOK /\ CodeOK /\ ImageOK /\ PlaceOK
  BY DEF TypeInv, TypeOK
<1>2. TablesOK' /\ CodeOK' /\ ImageOK'
  BY <1>1 DEF TablesOK, CodeOK, ImageOK
<1>3. PlaceOK'
  BY <1>1 DEF PlaceOK, Phases
<1>4. Collected'
  BY <1>1, CollectedKept, SameGrown, SameReached DEF TypeInv
<1>5. Placed'
  <2>1. u \in DOMAIN trees /\ c \in DOMAIN trees[u]
    BY DEF TypeInv, Placed, AtClass
  <2>2. trees[u] \in Seq(Decl)
    BY <1>1, <2>1, LenProperties, ElementOfSeq DEF PlaceOK
  <2>3. DOMAIN trees[u] = 1 .. Len(trees[u]) /\ Len(trees[u]) \in Nat
    BY <2>2, LenProperties
  <2> QED BY <1>1, <2>1, <2>3 DEF Placed, AtClass, PlaceOK
<1>6. Begun'
  BY DEF Begun, AtType
<1> QED BY <1>2, <1>3, <1>4, <1>5, <1>6 DEF TypeInv, TypeOK

LEMMA EndUnitType ==
  ASSUME TypeInv, EndUnit
  PROVE  TypeInv'
<1> USE DEF EndUnit, tables, code, layout, outcome
<1>1. TablesOK /\ CodeOK /\ ImageOK /\ PlaceOK
  BY DEF TypeInv, TypeOK
<1>2. TablesOK' /\ CodeOK' /\ ImageOK'
  BY <1>1 DEF TablesOK, CodeOK, ImageOK
<1>3. PlaceOK'
  <2>1. u' \in Nat \ {0} /\ phase' \in Phases
    BY <1>1 DEF PlaceOK, Phases
  <2>2. result' \in BOOLEAN
    BY <1>1, Zenon DEF PlaceOK
  <2> QED BY <1>1, <2>1, <2>2 DEF PlaceOK
<1>4. Collected'
  BY <1>1, CollectedKept, SameGrown, SameReached DEF TypeInv
<1>5. Placed' /\ Begun'
  BY DEF TypeInv, Placed, Begun, AtClass, AtType
<1> QED BY <1>2, <1>3, <1>4, <1>5 DEF TypeInv, TypeOK

LEMMA GenerateType ==
  ASSUME TypeInv, Generate
  PROVE  TypeInv'
<1> USE DEF Generate, tables, code, place, layout, outcome
<1>1. TablesOK /\ CodeOK /\ ImageOK /\ PlaceOK
  BY DEF TypeInv, TypeOK
<1> DEFINE fn == irfunctions[generated + 1]
<1>2. fn \in Names /\ generated \in Nat /\ Len(irfunctions) \in Nat
  BY <1>1, LenProperties, ElementOfSeq DEF ImageOK
<1>3. [name |-> fn[2], of |-> fn, offset |-> generated] \in TestFnRec
  BY <1>2 DEF Names, TestFnRec
<1>4. test.functions \in Seq(TestFnRec) /\ test.code \in Seq(Names)
  BY <1>1 DEF ImageOK
<1>5. /\ Append(test.functions, [name |-> fn[2], of |-> fn, offset |-> generated])
           \in Seq(TestFnRec)
      /\ Append(test.code, fn) \in Seq(Names)
  BY <1>2, <1>3, <1>4, AppendProperties
<1>6. test' \in [functions : Seq(TestFnRec), code : Seq(Names)]
  BY <1>5
<1>7. ImageOK'
  BY <1>1, <1>2, <1>6 DEF ImageOK
<1>8. TablesOK' /\ CodeOK' /\ PlaceOK'
  BY <1>1 DEF TablesOK, CodeOK, PlaceOK
<1>9. Collected'
  BY <1>1, CollectedKept, SameGrown, SameReached DEF TypeInv
<1>10. Placed' /\ Begun'
  BY DEF TypeInv, Placed, Begun, AtClass, AtType
<1> QED BY <1>7, <1>8, <1>9, <1>10 DEF TypeInv, TypeOK

LEMMA FinishBuildType ==
  ASSUME TypeInv, FinishBuild
  PROVE  TypeInv'
<1> USE DEF FinishBuild, tables, code, place, layout
<1>1. TablesOK /\ CodeOK /\ ImageOK /\ PlaceOK
  BY DEF TypeInv, TypeOK
<1>2. TablesOK' /\ CodeOK' /\ ImageOK' /\ PlaceOK'
  BY <1>1 DEF TablesOK, CodeOK, ImageOK, PlaceOK, Phases
<1>3. Collected' /\ Placed' /\ Begun'
  BY DEF Collected, Placed, Begun, AtClass, AtType
<1> QED BY <1>2, <1>3 DEF TypeInv, TypeOK

LEMMA CreateObjectType ==
  ASSUME TypeInv, NEW n \in Classes, CreateObject(n)
  PROVE  TypeInv'
<1> USE DEF CreateObject, tables, code, place, layout, outcome
<1>1. TablesOK /\ CodeOK /\ ImageOK /\ PlaceOK
  BY DEF TypeInv, TypeOK
<1>2. getType(object_heaps, n) \in DOMAIN types
  BY <1>1, TypeFound DEF TablesOK
<1>3. types[getType(object_heaps, n)] \in TypeRec
  BY <1>1, <1>2, LenProperties, ElementOfSeq DEF TablesOK
<1>4. types[getType(object_heaps, n)].size \in Nat
  BY <1>3 DEF TypeRec
<1>5. TablesOK' /\ CodeOK' /\ ImageOK' /\ PlaceOK'
  BY <1>1, <1>2, <1>4 DEF TablesOK, CodeOK, ImageOK, PlaceOK
<1>6. Collected' /\ Placed' /\ Begun'
  BY DEF Collected, Placed, Begun, AtClass, AtType
<1> QED BY <1>5, <1>6 DEF TypeInv, TypeOK

-----------------------------------------------------------------------------

LEMMA TypeInit == Init => TypeInv
<1> SUFFICES ASSUME Init PROVE TypeInv
  OBVIOUS
<1> USE DEF Init
<1>1. TablesOK /\ CodeOK /\ ImageOK
  BY EmptySeq DEF TablesOK, CodeOK, ImageOK
<1>2. PlaceOK
  BY EmptySeq DEF PlaceOK, Spent, Phases
<1>3. Placed /\ Collected /\ Begun
  BY DEF Placed, Collected, Begun, AtClass, AtType
<1> QED BY <1>1, <1>2, <1>3 DEF TypeInv, TypeOK

LEMMA TypeStutter ==
  ASSUME TypeInv, UNCHANGED vars
  PROVE  TypeInv'
<1> USE DEF vars, tables, code, place, layout, outcome
<1>1. TablesOK' /\ CodeOK' /\ ImageOK' /\ PlaceOK'
  BY DEF TypeInv, TypeOK, TablesOK, CodeOK, ImageOK, PlaceOK
<1>2. Collected' /\ Placed' /\ Begun'
  BY DEF TypeInv, Collected, Reached, Has, HasType, HasFunction, Placed, Begun, AtClass,
         AtType, Class, Constructor
<1> QED BY <1>1, <1>2 DEF TypeInv, TypeOK

LEMMA BuildType ==
  ASSUME TypeInv, Build
  PROVE  TypeInv'
BY CollectClassType, NextTreeType, EndCollectType, BeginUnitType, ImportType,
   RejectImportType, EndImportsType, RejectInheritanceType, BeginClassType,
   LayoutMemberType, EndMembersType, AddSizeType, emitClassConstructorsType,
   CompileFunctionType, CrashType, CheckBindingsType, EmitIRType, EndClassType,
   EndUnitType, GenerateType, FinishBuildType DEF Build

LEMMA TypeNext == TypeInv /\ [Next]_vars => TypeInv'
BY TypeStutter, RejectBatchType, StartBuildType, BuildType, CreateObjectType DEF Next

LEMMA TypeInvariant == Spec => []TypeInv
BY TypeInit, TypeNext, PTL DEF Spec

(* The tables of the engine and of the compiler keep their types: every    *)
(* search of compileStruct and compileFunction finds what it goes on with. *)
THEOREM ClassTypeCorrect == Spec => []TypeOK
<1>1. TypeInv => TypeOK
  BY DEF TypeInv
<1> QED BY <1>1, TypeInvariant, PTL

=============================================================================
