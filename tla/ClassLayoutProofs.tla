-------------------------- MODULE ClassLayoutProofs --------------------------
(***************************************************************************)
(* Proofs about the layout of classes in ClassBuild: members lie apart     *)
(* from each other inside the objects that are made.                       *)
(***************************************************************************)
EXTENDS ClassBuildProofs

End(fld) == fld.offset + fld.size

(* No member begins before the end of an earlier one.                      *)
Ordered(fs) == \A i, j \in DOMAIN fs : i < j => End(fs[i]) <= fs[j].offset

(* No member begins behind the end of the one before it.                   *)
Tight(fs) == \A i \in DOMAIN fs : fs[i].offset <= IF i = 1 THEN 0 ELSE End(fs[i - 1])

(* No member has shrunk since it was laid out.                             *)
SizeOf == [n \in MemberTypes |-> getSize(n)]

Recorded(fs) == \A i \in DOMAIN fs : fs[i].size <= SizeOf[fs[i].type]

Heaps == typedb = object_heaps

Registered == AtType => cls \in ToSet(typedb)

(* A type that has not been compiled is as collect left it.                *)
Untouched ==
  \A t \in DOMAIN types \ ToSet(typedb) : types[t].fields = <<>> /\ types[t].size = 0

(* While members are added.                                                *)
Laid ==
  phase = "members" /\ Once(cls) =>
    LET fs == types[cls].fields IN
    /\ types[cls].size = 0
    /\ Ordered(fs) /\ Tight(fs) /\ Recorded(fs)
    /\ \A i \in DOMAIN fs : End(fs[i]) <= fldOffset
    /\ fldOffset <= IF Len(fs) = 0 THEN 0 ELSE End(fs[Len(fs)])

(* While computeMetrics adds up their sizes.                               *)
Summed ==
  phase = "metrics" /\ Once(cls) =>
    LET fs == types[cls].fields IN
    /\ Ordered(fs) /\ Tight(fs) /\ Recorded(fs)
    /\ \A i \in DOMAIN fs : i < f => End(fs[i]) <= types[cls].size
    /\ f \in DOMAIN fs => fs[f].offset <= types[cls].size

(* SlotsInObject, for one type.                                            *)
Fits(fs, size) ==
  /\ Ordered(fs)
  /\ \A i \in DOMAIN fs : End(fs[i]) <= size

Fitted == \A t \in DOMAIN types : Once(t) /\ LaidOut(t) => Fits(types[t].fields, types[t].size)

(* Objects are made of types that are complete.                            *)
Held ==
  \A o \in objects :
    /\ o.type \in ToSet(typedb)
    /\ Once(o.type) => LaidOut(o.type) /\ o.size = types[o.type].size

LayoutInv == Heaps /\ Registered /\ Untouched /\ Laid /\ Summed /\ Fitted /\ Held

-----------------------------------------------------------------------------
(* Lemmas.                                                                 *)

LEMMA FirstTypeUnique ==
  ASSUME NEW S, NEW s \in Seq(S), NEW ty, NEW n, NEW i \in DOMAIN s, ty[s[i]].name = n,
         \A j \in 1 .. i - 1 : ty[s[j]].name # n
  PROVE  FirstType(ty, s, n) = s[i]
<1> DEFINE k == CHOOSE j \in DOMAIN s :
                  ty[s[j]].name = n /\ \A l \in 1 .. j - 1 : ty[s[l]].name # n
<1>1. DOMAIN s = 1 .. Len(s) /\ Len(s) \in Nat
  BY LenProperties
<1>2. k \in DOMAIN s /\ ty[s[k]].name = n /\ \A l \in 1 .. k - 1 : ty[s[l]].name # n
  OBVIOUS
<1>3. FirstType(ty, s, n) = s[k]
  BY DEF FirstType
<1> HIDE DEF k
<1>4. ~ (i < k) /\ ~ (k < i)
  BY <1>1, <1>2
<1>5. k = i
  BY <1>1, <1>2, <1>4
<1> QED BY <1>3, <1>5

(* A lookup depends on the names of the types only.                        *)
LEMMA FirstTypeSame ==
  ASSUME NEW S, NEW s \in Seq(S), NEW ty, NEW ty2, NEW n,
         \A t \in S : ty2[t].name = ty[t].name, \E i \in DOMAIN s : ty[s[i]].name = n
  PROVE  FirstType(ty2, s, n) = FirstType(ty, s, n)
<1> DEFINE T == {i \in DOMAIN s : ty[s[i]].name = n}
<1>1. Len(s) \in Nat /\ DOMAIN s = 1 .. Len(s)
  BY LenProperties
<1>2. PICK i \in T : \A j \in 1 .. i - 1 : j \notin T
  BY <1>1, FirstHit
<1>3. i \in DOMAIN s /\ ty[s[i]].name = n /\ \A j \in 1 .. i - 1 : ty[s[j]].name # n
  BY <1>1, <1>2
<1>4. \A j \in DOMAIN s : ty2[s[j]].name = ty[s[j]].name
  BY <1>1, ElementOfSeq
<1>5. \A j \in 1 .. i - 1 : j \in DOMAIN s
  BY <1>1, <1>3
<1>6. ty2[s[i]].name = n /\ \A j \in 1 .. i - 1 : ty2[s[j]].name # n
  BY <1>3, <1>4, <1>5
<1>7. FirstType(ty, s, n) = s[i]
  BY <1>3, FirstTypeUnique
<1>8. FirstType(ty2, s, n) = s[i]
  BY <1>3, <1>6, FirstTypeUnique
<1> QED BY <1>7, <1>8

(* When types only get larger, so does what getSize says.                  *)
LEMMA SizeGrows ==
  ASSUME TablesOK, UNCHANGED m_types, UNCHANGED typedb, DOMAIN types' = DOMAIN types,
         \A t \in DOMAIN types : types'[t].name = types[t].name
                                   /\ types[t].size <= types'[t].size,
         NEW n
  PROVE  getSize(n) <= getSize(n)'
<1>1. m_types \in Seq(DOMAIN types) /\ typedb \in Seq(DOMAIN types)
  BY DEF TablesOK
<1>2. ASSUME NEW s \in Seq(DOMAIN types)
      PROVE  /\ \A i \in DOMAIN s : s[i] \in DOMAIN types
             /\ (\E i \in DOMAIN s : types[s[i]].name = n)
                  <=> (\E i \in DOMAIN s : types'[s[i]].name = n)
             /\ (\E i \in DOMAIN s : types[s[i]].name = n) =>
                  FirstType(types', s, n) = FirstType(types, s, n)
  <2>1. \A i \in DOMAIN s : s[i] \in DOMAIN types
    BY LenProperties, ElementOfSeq
  <2>2. \A i \in DOMAIN s : types'[s[i]].name = types[s[i]].name
    BY <2>1
  <2> QED BY <2>1, <2>2, FirstTypeSame
<1>3. /\ HasType(m_types, n)' <=> HasType(m_types, n)
      /\ HasType(typedb, n)' <=> HasType(typedb, n)
  BY <1>1, <1>2 DEF HasType
<1>4. /\ HasType(m_types, n) => getType(m_types, n)' = getType(m_types, n)
      /\ HasType(typedb, n) => getType(typedb, n)' = getType(typedb, n)
  BY <1>1, <1>2 DEF HasType, getType, FirstType
<1>5. /\ HasType(m_types, n) => getType(m_types, n) \in DOMAIN types
      /\ HasType(typedb, n) => getType(typedb, n) \in DOMAIN types
  BY <1>1, TypeFound
<1>6. getSize(n) \in Nat
  BY SizeTyped
<1>7. CASE n \in HostTypes \/ ~Known(n)
  BY <1>3, <1>6, <1>7 DEF getSize, Known
<1>8. CASE n \notin HostTypes /\ Known(n)
  <2>1. getTypeInfo(n)' = getTypeInfo(n) /\ getTypeInfo(n) \in DOMAIN types
    BY <1>3, <1>4, <1>5, <1>8 DEF getTypeInfo, Known
  <2>2. Known(n)'
    BY <1>3, <1>8 DEF Known
  <2>3. getSize(n)' = types'[getTypeInfo(n)'].size
    BY <1>8, <2>2 DEF getSize
  <2>4. getSize(n) = types[getTypeInfo(n)].size
    BY <1>8 DEF getSize
  <2> QED BY <2>1, <2>3, <2>4
<1> QED BY <1>7, <1>8

(* What TypeOK says of a type.                                             *)
LEMMA FieldsTyped ==
  ASSUME TablesOK, NEW t \in DOMAIN types
  PROVE  LET fs == types[t].fields IN
         /\ fs \in Seq(FieldRec) /\ DOMAIN fs = 1 .. Len(fs) /\ Len(fs) \in Nat
         /\ \A i \in DOMAIN fs :
              fs[i].offset \in Nat /\ fs[i].size \in Nat /\ fs[i].type \in MemberTypes
         /\ types[t].size \in Nat
<1>1. types[t] \in TypeRec
  BY LenProperties, ElementOfSeq DEF TablesOK
<1>2. types[t].fields \in Seq(FieldRec) /\ types[t].size \in Nat
  BY <1>1 DEF TypeRec
<1>3. \A i \in DOMAIN types[t].fields : types[t].fields[i] \in FieldRec
  BY <1>2, LenProperties, ElementOfSeq
<1> QED BY <1>2, <1>3, LenProperties DEF FieldRec

SizesOK == SizeOf \in [MemberTypes -> Nat]

LEMMA SizesTyped == TablesOK => SizesOK
BY SizeTyped DEF SizesOK, SizeOf

LEMMA SizesTypedNext == TablesOK' => SizesOK'
BY SizesTyped, PTL

LEMMA SizesGrow ==
  ASSUME TablesOK, TablesOK', UNCHANGED m_types, UNCHANGED typedb,
         DOMAIN types' = DOMAIN types,
         \A t \in DOMAIN types : types'[t].name = types[t].name
                                   /\ types[t].size <= types'[t].size
  PROVE  \A n \in MemberTypes :
           SizeOf[n] <= SizeOf'[n] /\ SizeOf[n] \in Nat /\ SizeOf'[n] \in Nat
<1>1. \A n \in MemberTypes : SizeOf[n] \in Nat /\ SizeOf'[n] \in Nat
  BY SizesTyped, SizesTypedNext DEF SizesOK
<1>2. \A n : getSize(n) <= getSize(n)'
  BY SizeGrows
<1> QED BY <1>1, <1>2 DEF SizeOf

(* Steps that neither lay out nor measure a class, nor make an object.     *)
LEMMA LayoutFrame ==
  ASSUME LayoutInv, UNCHANGED <<types, typedb, object_heaps, objects, cls>>,
         phase \notin {"members", "metrics"}, phase' \notin {"members", "metrics"},
         AtType' => AtType
  PROVE  LayoutInv'
<1>1. Heaps' /\ Registered' /\ Untouched' /\ Laid' /\ Summed'
  BY DEF LayoutInv, Heaps, Registered, Untouched, Laid, Summed
<1>2. \A t : Once(t)' <=> Once(t)
  BY DEF Once
<1>3. \A t : LaidOut(t)' <=> LaidOut(t)
  BY DEF LaidOut
<1>4. Fitted' /\ Held'
  BY <1>2, <1>3 DEF LayoutInv, Fitted, Held, Fits, Ordered
<1> QED BY <1>1, <1>4 DEF LayoutInv

LEMMA CollectClassLayout ==
  ASSUME TypeInv, LayoutInv, CollectClass
  PROVE  LayoutInv'
<1> USE DEF CollectClass
<1>1. TablesOK
  BY DEF TypeInv, TypeOK
<1> DEFINE new == [name |-> Class.name, size |-> 0, fields |-> <<>>]
<1>2. u \in DOMAIN trees /\ c \in DOMAIN trees[u]
  <2>1. u \in DOMAIN trees
    BY LenProperties DEF TypeInv, TypeOK, PlaceOK
  <2>2. trees[u] \in Seq(Decl)
    BY <2>1, LenProperties, ElementOfSeq DEF TypeInv, TypeOK, PlaceOK
  <2> QED BY <2>1, <2>2, LenProperties DEF TypeInv, TypeOK, PlaceOK
<1>3. new \in TypeRec
  BY <1>2, ClassTyped, EmptySeq DEF TypeRec, TypeInv, TypeOK
<1>4. /\ DOMAIN types = 1 .. Len(types) /\ Len(types) \in Nat
      /\ DOMAIN types' = 1 .. Len(types) + 1
      /\ \A t \in DOMAIN types : types'[t] = types[t]
      /\ types'[Len(types) + 1] = new
  <2>1. types \in Seq(TypeRec) /\ types' \in Seq(TypeRec)
    BY <1>1, <1>3, AppendProperties DEF TablesOK
  <2>2. /\ Len(types') = Len(types) + 1 /\ types'[Len(types) + 1] = new
        /\ \A t \in 1 .. Len(types) : types'[t] = types[t]
    BY <1>3, <2>1, AppendProperties
  <2> QED BY <2>1, <2>2, LenProperties
<1>5. ToSet(typedb) \subseteq DOMAIN types /\ ToSet(typedb)' = ToSet(typedb)
  BY <1>1, LenProperties, ElementOfSeq DEF TablesOK, ToSet
<1>6. Heaps' /\ Registered' /\ Laid' /\ Summed'
  BY DEF LayoutInv, Heaps, Registered, Laid, Summed, AtType
<1>7. Untouched'
  <2> SUFFICES ASSUME NEW t \in DOMAIN types' \ ToSet(typedb)
               PROVE  types'[t].fields = <<>> /\ types'[t].size = 0
    BY <1>5 DEF Untouched
  <2>1. CASE t \in DOMAIN types
    BY <1>4, <2>1 DEF LayoutInv, Untouched
  <2>2. CASE t = Len(types) + 1
    BY <1>4, <2>2
  <2> QED BY <1>4, <2>1, <2>2
<1>8. \A t : (Once(t)' <=> Once(t)) /\ (LaidOut(t)' <=> LaidOut(t))
  BY <1>5 DEF Once, LaidOut
<1>9. \A t : LaidOut(t) => t \in DOMAIN types
  BY <1>5 DEF LaidOut
<1>10. Fitted'
  BY <1>4, <1>8, <1>9 DEF LayoutInv, Fitted, Fits, Ordered
<1>11. Held'
  BY <1>4, <1>5, <1>8 DEF LayoutInv, Held
<1> QED BY <1>6, <1>7, <1>10, <1>11 DEF LayoutInv

LEMMA BeginClassLayout ==
  ASSUME TypeInv, LayoutInv, BeginClass
  PROVE  LayoutInv'
<1> USE DEF BeginClass
<1>1. TablesOK /\ Has(Class)
  BY ClassReached DEF TypeInv, TypeOK, AtClass
<1>2. cls' \in DOMAIN types
  BY <1>1, TypeFound DEF Has, TablesOK
<1>3. typedb \in Seq(DOMAIN types) /\ typedb' = Append(typedb, cls')
  BY <1>1 DEF TablesOK
<1>4. /\ Len(typedb') = Len(typedb) + 1 /\ typedb'[Len(typedb) + 1] = cls'
      /\ \A i \in 1 .. Len(typedb) : typedb'[i] = typedb[i]
      /\ DOMAIN typedb = 1 .. Len(typedb) /\ Len(typedb) \in Nat
      /\ DOMAIN typedb' = 1 .. Len(typedb')
  <2>1. typedb' \in Seq(DOMAIN types)
    BY <1>2, <1>3, AppendProperties
  <2> QED BY <1>2, <1>3, <2>1, AppendProperties, LenProperties
<1>5. ToSet(typedb)' = ToSet(typedb) \cup {cls'}
  BY <1>4 DEF ToSet
<1>6. \A t : Once(t)' => Once(t)
  BY <1>4 DEF Once
<1>7. cls' \in ToSet(typedb) => ~Once(cls)'
  <2> SUFFICES ASSUME cls' \in ToSet(typedb)
               PROVE  ~Once(cls)'
    OBVIOUS
  <2>1. PICK i \in DOMAIN typedb : typedb[i] = cls'
    BY DEF ToSet
  <2>2. /\ i \in DOMAIN typedb' /\ Len(typedb) + 1 \in DOMAIN typedb'
        /\ i # Len(typedb) + 1 /\ typedb'[i] = cls'
    BY <1>4, <2>1
  <2> QED BY <1>4, <2>2 DEF Once
<1>8. Heaps' /\ Registered' /\ Untouched'
  BY <1>5 DEF LayoutInv, Heaps, Registered, Untouched
<1>9. Laid' /\ Summed'
  <2>1. cls' \notin ToSet(typedb) => types[cls'].fields = <<>> /\ types[cls'].size = 0
    BY <1>2 DEF LayoutInv, Untouched
  <2>2. Once(cls)' => types'[cls'].fields = <<>> /\ types'[cls'].size = 0
    BY <1>7, <2>1
  <2>3. DOMAIN <<>> = {} /\ Len(<<>>) = 0
    BY EmptySeq
  <2>4. Laid'
    BY <2>2, <2>3 DEF Laid, Ordered, Tight, Recorded
  <2> QED BY <2>4 DEF Summed
<1>10. \A t : LaidOut(t)' /\ Once(t)' => LaidOut(t)
  BY <1>5 DEF LaidOut
<1>11. Fitted'
  BY <1>6, <1>10 DEF LayoutInv, Fitted, Fits, Ordered
<1>12. Held'
  <2> SUFFICES ASSUME NEW o \in objects
               PROVE  /\ o.type \in ToSet(typedb)'
                      /\ Once(o.type)' => LaidOut(o.type)' /\ o.size = types'[o.type].size
    BY DEF Held
  <2>1. o.type \in ToSet(typedb)
    BY DEF LayoutInv, Held
  <2>2. ASSUME Once(o.type)'
        PROVE  LaidOut(o.type)' /\ o.size = types'[o.type].size
    <3>1. o.type # cls'
      BY <1>7, <2>1, <2>2 DEF Once
    <3> QED BY <1>5, <1>6, <2>1, <2>2, <3>1 DEF LayoutInv, Held, LaidOut
  <2> QED BY <1>5, <2>1, <2>2
<1> QED BY <1>8, <1>9, <1>11, <1>12 DEF LayoutInv

(* A step on the type at hand, while it is laid out.                       *)
LEMMA LayoutStep ==
  ASSUME TypeInv, LayoutInv, phase \in {"members", "metrics"},
         phase' \in {"members", "metrics"},
         UNCHANGED <<typedb, object_heaps, objects, cls>>, DOMAIN types' = DOMAIN types,
         \A t \in DOMAIN types : t # cls => types'[t] = types[t]
  PROVE  /\ Heaps' /\ Registered' /\ Untouched' /\ Fitted' /\ Held'
         /\ Once(cls)' <=> Once(cls)
<1>1. \A t : Once(t)' <=> Once(t)
  BY DEF Once
<1>2. cls \in ToSet(typedb) /\ ToSet(typedb)' = ToSet(typedb)
  BY DEF LayoutInv, Registered, AtType, ToSet
<1>3. \A t : LaidOut(t)' <=> LaidOut(t)
  BY <1>2 DEF LaidOut
<1>4. \A t : LaidOut(t) => t # cls
  BY DEF LaidOut
<1>5. Heaps' /\ Registered' /\ Untouched'
  BY <1>2 DEF LayoutInv, Heaps, Registered, Untouched, AtType
<1>6. Fitted'
  BY <1>1, <1>3, <1>4 DEF LayoutInv, Fitted, Fits, Ordered
<1>7. \A o \in objects : o.type \in DOMAIN types
  BY DEF TypeInv, TypeOK, TablesOK
<1>8. Held'
  BY <1>1, <1>2, <1>3, <1>4, <1>7 DEF LayoutInv, Held
<1>9. Once(cls)' <=> Once(cls)
  BY DEF Once
<1> QED BY <1>5, <1>6, <1>8, <1>9

LEMMA LayoutMemberLayout ==
  ASSUME TypeInv, LayoutInv, NEW n \in MemberTypes, LayoutMember(n)
  PROVE  LayoutInv'
<1> USE DEF LayoutMember
<1> DEFINE fs  == types[cls].fields
           fld == [type |-> n, offset |-> fldOffset, size |-> getSize(n)]
<1>1. TablesOK /\ PlaceOK /\ cls \in DOMAIN types /\ getSize(n) \in Nat
  BY SizeTyped DEF TypeInv, TypeOK, Begun, AtType
<1>2. fld \in FieldRec /\ fldOffset \in Nat
  BY <1>1 DEF FieldRec, PlaceOK
<1>3. /\ DOMAIN types' = DOMAIN types
      /\ types'[cls].name = types[cls].name /\ types'[cls].size = types[cls].size
      /\ types'[cls].fields = Append(fs, fld)
      /\ \A t \in DOMAIN types : t # cls => types'[t] = types[t]
  BY <1>1, <1>2, FieldAdded
<1>4. /\ Heaps' /\ Registered' /\ Untouched' /\ Fitted' /\ Held'
      /\ Once(cls)' <=> Once(cls)
  BY <1>3, LayoutStep DEF place
<1>5. \A t \in DOMAIN types : types[t].size \in Nat
  BY <1>1, FieldsTyped
<1>6. \A m \in MemberTypes :
        SizeOf[m] <= SizeOf'[m] /\ SizeOf[m] \in Nat /\ SizeOf'[m] \in Nat
  <2>1. \A t \in DOMAIN types : types'[t].name = types[t].name
                                  /\ types[t].size <= types'[t].size
    BY <1>3, <1>5
  <2>2. TablesOK'
    BY LayoutMemberType DEF TypeInv, TypeOK
  <2> QED BY <1>1, <1>3, <2>1, <2>2, SizesGrow
<1>7. Laid'
  <2> SUFFICES ASSUME Once(cls)
               PROVE  LET gs == types'[cls].fields IN
                      /\ types'[cls].size = 0
                      /\ Ordered(gs) /\ Tight(gs)
                      /\ \A i \in DOMAIN gs : gs[i].size <= SizeOf'[gs[i].type]
                      /\ \A i \in DOMAIN gs : End(gs[i]) <= fldOffset'
                      /\ fldOffset' <= IF Len(gs) = 0 THEN 0 ELSE End(gs[Len(gs)])
    BY <1>4 DEF Laid, Ordered, Tight, Recorded, place
  <2> DEFINE gs == Append(fs, fld)
  <2>1. /\ types[cls].size = 0 /\ Ordered(fs) /\ Tight(fs) /\ Recorded(fs)
        /\ \A i \in DOMAIN fs : End(fs[i]) <= fldOffset
        /\ fldOffset <= IF Len(fs) = 0 THEN 0 ELSE End(fs[Len(fs)])
    BY DEF LayoutInv, Laid
  <2>2. /\ fs \in Seq(FieldRec) /\ DOMAIN fs = 1 .. Len(fs) /\ Len(fs) \in Nat
        /\ \A i \in DOMAIN fs :
             fs[i].offset \in Nat /\ fs[i].size \in Nat /\ fs[i].type \in MemberTypes
    BY <1>1, FieldsTyped
  <2>3. /\ gs \in Seq(FieldRec) /\ Len(gs) = Len(fs) + 1 /\ gs[Len(fs) + 1] = fld
        /\ \A i \in 1 .. Len(fs) : gs[i] = fs[i]
    BY <1>2, <2>2, AppendProperties
  <2>4. DOMAIN gs = 1 .. Len(fs) + 1
    BY <2>3, LenProperties
  <2>5. /\ End(fld) = fldOffset + getSize(n) /\ fld.offset = fldOffset
        /\ fld.size = getSize(n) /\ fld.type = n /\ fldOffset' = End(fld)
    BY DEF End
  <2> HIDE DEF gs, fld, fs
  <2>6. \A i \in DOMAIN fs : End(fs[i]) \in Nat
    BY <2>2 DEF End
  <2>7. Ordered(gs)
    BY <2>1, <2>2, <2>3, <2>4, <2>5, <2>6, <1>2 DEF Ordered
  <2>8. Tight(gs)
    <3> SUFFICES ASSUME NEW i \in DOMAIN gs
                 PROVE  gs[i].offset <= IF i = 1 THEN 0 ELSE End(gs[i - 1])
      BY DEF Tight
    <3>1. CASE i \in DOMAIN fs
      <4>1. i = 1 \/ i - 1 \in 1 .. Len(fs)
        BY <2>2, <3>1
      <4> QED BY <2>1, <2>2, <2>3, <3>1, <4>1 DEF Tight
    <3>2. CASE i = Len(fs) + 1
      <4>1. CASE Len(fs) = 0
        BY <2>1, <2>3, <2>5, <3>2, <4>1
      <4>2. CASE Len(fs) # 0
        <5>1. i # 1 /\ i - 1 = Len(fs) /\ Len(fs) \in 1 .. Len(fs)
          BY <2>2, <3>2, <4>2
        <5> QED BY <2>1, <2>3, <2>5, <3>2, <4>2, <5>1
      <4> QED BY <4>1, <4>2
    <3> QED BY <2>2, <2>4, <3>1, <3>2
  <2>9. \A i \in DOMAIN gs : gs[i].size <= SizeOf'[gs[i].type]
    <3> SUFFICES ASSUME NEW i \in DOMAIN gs
                 PROVE  gs[i].size <= SizeOf'[gs[i].type]
      OBVIOUS
    <3>1. getSize(n) = SizeOf[n]
      BY DEF SizeOf
    <3>2. gs[i].size <= SizeOf[gs[i].type] /\ gs[i].size \in Nat /\ gs[i].type \in MemberTypes
      BY <1>1, <2>1, <2>2, <2>3, <2>4, <2>5, <3>1 DEF Recorded
    <3> QED BY <1>6, <3>2
  <2>10. ASSUME NEW i \in DOMAIN gs
         PROVE  End(gs[i]) <= fldOffset'
    <3>1. fldOffset <= fldOffset' /\ fldOffset' \in Nat
      BY <1>1, <1>2, <2>5
    <3>2. CASE i \in DOMAIN fs
      <4>1. End(gs[i]) <= fldOffset /\ End(gs[i]) \in Nat
        BY <2>1, <2>2, <2>3, <2>6, <3>2
      <4> QED BY <1>2, <3>1, <4>1
    <3>3. CASE i = Len(fs) + 1
      BY <2>3, <2>5, <3>1, <3>3
    <3> QED BY <2>2, <2>4, <3>2, <3>3
  <2>11. fldOffset' <= IF Len(gs) = 0 THEN 0 ELSE End(gs[Len(gs)])
    <3>1. End(fld) \in Nat
      BY <1>1, <1>2, <2>5
    <3> QED BY <2>2, <2>3, <2>5, <3>1
  <2>12. types'[cls].fields = gs /\ types'[cls].size = 0
    BY <1>3, <2>1 DEF gs, fs, fld
  <2> QED BY <2>7, <2>8, <2>9, <2>10, <2>11, <2>12
<1>8. Summed'
  BY DEF Summed
<1> QED BY <1>4, <1>7, <1>8 DEF LayoutInv

LEMMA EndMembersLayout ==
  ASSUME TypeInv, LayoutInv, EndMembers
  PROVE  LayoutInv'
<1> USE DEF EndMembers
<1> DEFINE fs   == types[cls].fields
           size == IF fs = <<>> THEN 1 ELSE 0
<1>1. TablesOK /\ TablesOK' /\ cls \in DOMAIN types
  BY EndMembersType DEF TypeInv, TypeOK, Begun, AtType
<1>2. types' = [types EXCEPT ![cls].size = size] /\ size \in {0, 1}
  OBVIOUS
<1> HIDE DEF size
<1>3. /\ DOMAIN types' = DOMAIN types
      /\ types'[cls].name = types[cls].name /\ types'[cls].fields = fs
      /\ types'[cls].size = size
      /\ \A t \in DOMAIN types : t # cls => types'[t] = types[t]
  BY <1>1, <1>2, SizeSet
<1>4. /\ Heaps' /\ Registered' /\ Untouched' /\ Fitted' /\ Held'
      /\ Once(cls)' <=> Once(cls)
  BY <1>3, LayoutStep
<1>5. Laid'
  BY DEF Laid
<1>6. Summed'
  <2> SUFFICES ASSUME Once(cls)
               PROVE  /\ Ordered(fs) /\ Tight(fs)
                      /\ \A i \in DOMAIN fs : fs[i].size <= SizeOf'[fs[i].type]
                      /\ \A i \in DOMAIN fs : i < 1 => End(fs[i]) <= size
                      /\ 1 \in DOMAIN fs => fs[1].offset <= size
    BY <1>3, <1>4 DEF Summed, Ordered, Tight, Recorded
  <2>1. types[cls].size = 0 /\ Ordered(fs) /\ Tight(fs) /\ Recorded(fs)
    BY DEF LayoutInv, Laid
  <2>2. /\ DOMAIN fs = 1 .. Len(fs) /\ Len(fs) \in Nat
        /\ \A i \in DOMAIN fs :
             fs[i].offset \in Nat /\ fs[i].size \in Nat /\ fs[i].type \in MemberTypes
    BY <1>1, FieldsTyped
  <2>3. \A t \in DOMAIN types : types[t].size \in Nat
    BY <1>1, FieldsTyped
  <2>4. \A t \in DOMAIN types : types'[t].name = types[t].name
                                  /\ types[t].size <= types'[t].size
    BY <1>2, <1>3, <2>1, <2>3
  <2>5. \A m \in MemberTypes :
          SizeOf[m] <= SizeOf'[m] /\ SizeOf[m] \in Nat /\ SizeOf'[m] \in Nat
    BY <1>1, <1>3, <2>4, SizesGrow
  <2>6. \A i \in DOMAIN fs : fs[i].size <= SizeOf'[fs[i].type]
    BY <2>1, <2>2, <2>5, SMTT(20) DEF Recorded
  <2>7. 1 \in DOMAIN fs => fs[1].offset <= size
    BY <1>2, <2>1, <2>2 DEF Tight
  <2> QED BY <2>1, <2>2, <2>6, <2>7
<1> QED BY <1>4, <1>5, <1>6 DEF LayoutInv

LEMMA AddSizeLayout ==
  ASSUME TypeInv, LayoutInv, AddSize
  PROVE  LayoutInv'
<1> USE DEF AddSize
<1> DEFINE fs   == types[cls].fields
           old  == types[cls].size
           size == old + SizeOf[fs[f].type]
<1>1. TablesOK /\ TablesOK' /\ cls \in DOMAIN types /\ f \in Nat \ {0} /\ SizesOK
  BY AddSizeType, SizesTyped DEF TypeInv, TypeOK, PlaceOK, Begun, AtType
<1>2. /\ DOMAIN fs = 1 .. Len(fs) /\ Len(fs) \in Nat
      /\ \A i \in DOMAIN fs :
           fs[i].offset \in Nat /\ fs[i].size \in Nat /\ fs[i].type \in MemberTypes
  BY <1>1, FieldsTyped
<1>3. f \in DOMAIN fs
  BY <1>1, <1>2
<1>4. types' = [types EXCEPT ![cls].size = size]
  BY <1>2, <1>3 DEF SizeOf
<1>5. old \in Nat /\ SizeOf[fs[f].type] \in Nat /\ size \in Nat /\ old <= size
  <2>1. old \in Nat
    BY <1>1, FieldsTyped
  <2>2. SizeOf[fs[f].type] \in Nat
    BY <1>1, <1>2, <1>3 DEF SizesOK
  <2> QED BY <2>1, <2>2
<1> HIDE DEF size
<1>6. /\ DOMAIN types' = DOMAIN types
      /\ types'[cls].name = types[cls].name /\ types'[cls].fields = fs
      /\ types'[cls].size = size
      /\ \A t \in DOMAIN types : t # cls => types'[t] = types[t]
  BY <1>1, <1>4, <1>5, SizeSet
<1>7. /\ Heaps' /\ Registered' /\ Untouched' /\ Fitted' /\ Held'
      /\ Once(cls)' <=> Once(cls)
  BY <1>6, LayoutStep
<1>8. Laid'
  BY DEF Laid
<1>9. Summed'
  <2> SUFFICES ASSUME Once(cls)
               PROVE  /\ Ordered(fs) /\ Tight(fs)
                      /\ \A i \in DOMAIN fs : fs[i].size <= SizeOf'[fs[i].type]
                      /\ \A i \in DOMAIN fs : i < f + 1 => End(fs[i]) <= size
                      /\ f + 1 \in DOMAIN fs => fs[f + 1].offset <= size
    BY <1>6, <1>7 DEF Summed, Ordered, Tight, Recorded
  <2>1. /\ Ordered(fs) /\ Tight(fs) /\ Recorded(fs)
        /\ \A i \in DOMAIN fs : i < f => End(fs[i]) <= old
        /\ fs[f].offset <= old
    BY <1>3 DEF LayoutInv, Summed
  <2>2. \A t \in DOMAIN types : types[t].size \in Nat
    BY <1>1, FieldsTyped
  <2>3. \A t \in DOMAIN types : types'[t].name = types[t].name
                                  /\ types[t].size <= types'[t].size
    BY <1>5, <1>6, <2>2
  <2>4. \A m \in MemberTypes :
          SizeOf[m] <= SizeOf'[m] /\ SizeOf[m] \in Nat /\ SizeOf'[m] \in Nat
    BY <1>1, <1>6, <2>3, SizesGrow
  <2>5. \A i \in DOMAIN fs : fs[i].size <= SizeOf'[fs[i].type]
    BY <1>2, <2>1, <2>4, SMTT(20) DEF Recorded
  <2>6. End(fs[f]) <= size
    <3>1. fs[f].size <= SizeOf[fs[f].type] /\ fs[f].size \in Nat /\ fs[f].offset \in Nat
      BY <1>2, <1>3, <2>1 DEF Recorded
    <3> DEFINE a == fs[f].offset
               b == fs[f].size
               d == SizeOf[fs[f].type]
    <3>2. a \in Nat /\ b \in Nat /\ d \in Nat /\ old \in Nat /\ b <= d /\ a <= old
      BY <1>5, <2>1, <3>1
    <3>3. size = old + d /\ End(fs[f]) = a + b
      BY DEF size, End
    <3> HIDE DEF a, b, d, old
    <3> QED BY <3>2, <3>3
  <2>7. \A i \in DOMAIN fs : End(fs[i]) \in Nat
    BY <1>2 DEF End
  <2>8. ASSUME NEW i \in DOMAIN fs, i < f + 1
        PROVE  End(fs[i]) <= size
    <3>1. i = f \/ i < f
      BY <1>1, <1>2, <2>8
    <3>2. CASE i < f
      BY <1>5, <2>1, <2>7, <3>2
    <3> QED BY <2>6, <3>1, <3>2
  <2>9. ASSUME f + 1 \in DOMAIN fs
        PROVE  fs[f + 1].offset <= size
    <3> DEFINE g == f + 1
    <3>1. g \in DOMAIN fs /\ g # 1 /\ g - 1 = f
      BY <1>1, <2>9
    <3> HIDE DEF g
    <3>2. fs[g].offset <= IF g = 1 THEN 0 ELSE End(fs[g - 1])
      BY <2>1, <3>1 DEF Tight
    <3>3. fs[g].offset <= End(fs[f])
      BY <3>1, <3>2
    <3>4. fs[g].offset \in Nat /\ End(fs[f]) \in Nat
      BY <1>2, <1>3, <2>7, <3>1
    <3>5. fs[g].offset <= size
      BY <1>5, <2>6, <3>3, <3>4
    <3> QED BY <3>5 DEF g
  <2> QED BY <2>1, <2>5, <2>8, <2>9
<1> QED BY <1>7, <1>8, <1>9 DEF LayoutInv

LEMMA emitClassConstructorsLayout ==
  ASSUME TypeInv, LayoutInv, emitClassConstructors
  PROVE  LayoutInv'
<1> USE DEF emitClassConstructors, tables
<1>1. TablesOK /\ cls \in DOMAIN types /\ f \in Nat
  BY DEF TypeInv, TypeOK, PlaceOK, Begun, AtType
<1>2. Heaps' /\ Registered' /\ Untouched' /\ Laid' /\ Summed'
  BY DEF LayoutInv, Heaps, Registered, Untouched, Laid, Summed, AtType
<1>3. \A t : Once(t)' <=> Once(t)
  BY DEF Once
<1>4. \A t : LaidOut(t) => LaidOut(t)'
  BY DEF LaidOut
<1>5. \A t : LaidOut(t)' => LaidOut(t) \/ t = cls
  BY DEF LaidOut
<1>6. Once(cls) => Fits(types[cls].fields, types[cls].size)
  <2>1. DOMAIN types[cls].fields = 1 .. Len(types[cls].fields) /\ Len(types[cls].fields) \in Nat
    BY <1>1, FieldsTyped
  <2>2. \A i \in DOMAIN types[cls].fields : i < f
    BY <1>1, <2>1
  <2> QED BY <2>2 DEF LayoutInv, Summed, Fits
<1>7. Fitted'
  BY <1>3, <1>5, <1>6 DEF LayoutInv, Fitted, Fits, Ordered
<1>8. Held'
  BY <1>3, <1>4 DEF LayoutInv, Held
<1> QED BY <1>2, <1>7, <1>8 DEF LayoutInv

LEMMA CreateObjectLayout ==
  ASSUME TypeInv, LayoutInv, NEW n \in Classes, CreateObject(n)
  PROVE  LayoutInv'
<1> USE DEF CreateObject, tables, place
<1> DEFINE t == getType(object_heaps, n)
<1>1. TablesOK
  BY DEF TypeInv, TypeOK
<1>2. t \in ToSet(typedb)
  <2>1. \E i \in DOMAIN object_heaps : t = object_heaps[i]
    BY <1>1, TypeFound DEF TablesOK
  <2> QED BY <2>1 DEF LayoutInv, Heaps, ToSet
<1>3. objects' = objects \cup {[type |-> t, size |-> types[t].size]}
  OBVIOUS
<1> HIDE DEF t
<1>4. Heaps' /\ Registered' /\ Untouched' /\ Laid' /\ Summed'
  BY DEF LayoutInv, Heaps, Registered, Untouched, Laid, Summed, AtType
<1>5. \A s : (Once(s)' <=> Once(s)) /\ (LaidOut(s)' <=> LaidOut(s))
  BY DEF Once, LaidOut
<1>6. Fitted'
  BY <1>5 DEF LayoutInv, Fitted, Fits, Ordered
<1>7. LaidOut(t)
  BY <1>2 DEF LaidOut
<1>8. Held'
  BY <1>2, <1>3, <1>5, <1>7 DEF LayoutInv, Held
<1> QED BY <1>4, <1>6, <1>8 DEF LayoutInv

-----------------------------------------------------------------------------

LEMMA LayoutInit == Init => LayoutInv
<1> SUFFICES ASSUME Init PROVE LayoutInv
  OBVIOUS
<1> USE DEF Init
<1>1. DOMAIN <<>> = {}
  OBVIOUS
<1> QED BY <1>1 DEF LayoutInv, Heaps, Registered, Untouched, Laid, Summed, Fitted, Held,
                    AtType

LEMMA LayoutBuild ==
  ASSUME TypeInv, LayoutInv, Build
  PROVE  LayoutInv'
<1> USE DEF tables, place, AtType
<1>1. CASE CollectClass
  BY <1>1, CollectClassLayout
<1>2. CASE NextTree
  BY <1>2, LayoutFrame DEF NextTree
<1>3. CASE EndCollect
  BY <1>3, LayoutFrame DEF EndCollect
<1>4. CASE BeginUnit
  BY <1>4, LayoutFrame DEF BeginUnit
<1>5. CASE \E m \in Modules : Import(m)
  BY <1>5, LayoutFrame DEF Import
<1>6. CASE RejectImport
  BY <1>6, LayoutFrame DEF RejectImport
<1>7. CASE EndImports
  BY <1>7, LayoutFrame DEF EndImports
<1>8. CASE RejectInheritance
  BY <1>8, LayoutFrame DEF RejectInheritance
<1>9. CASE BeginClass
  BY <1>9, BeginClassLayout
<1>10. CASE \E n \in MemberTypes : LayoutMember(n)
  BY <1>10, LayoutMemberLayout
<1>11. CASE EndMembers \/ AddSize \/ emitClassConstructors
  BY <1>11, EndMembersLayout, AddSizeLayout, emitClassConstructorsLayout
<1>12. CASE \E b \in BOOLEAN : CompileFunction(b)
  BY <1>12, LayoutFrame DEF CompileFunction
<1>13. CASE Crash
  BY <1>13, LayoutFrame DEF Crash
<1>14. CASE \E b \in BOOLEAN : CheckBindings(b)
  BY <1>14, LayoutFrame DEF CheckBindings
<1>15. CASE EmitIR
  BY <1>15, LayoutFrame DEF EmitIR
<1>16. CASE EndClass
  BY <1>16, LayoutFrame DEF EndClass
<1>17. CASE EndUnit
  BY <1>17, LayoutFrame DEF EndUnit
<1>18. CASE Generate
  BY <1>18, LayoutFrame DEF Generate
<1>19. CASE FinishBuild
  BY <1>19, LayoutFrame DEF FinishBuild
<1> QED BY <1>1, <1>2, <1>3, <1>4, <1>5, <1>6, <1>7, <1>8, <1>9, <1>10, <1>11, <1>12, <1>13,
           <1>14, <1>15, <1>16, <1>17, <1>18, <1>19 DEF Build

LEMMA LayoutNext == TypeInv /\ LayoutInv /\ [Next]_vars => LayoutInv'
<1> SUFFICES ASSUME TypeInv, LayoutInv, [Next]_vars
             PROVE  LayoutInv'
  OBVIOUS
<1> USE DEF tables, place, AtType
<1>1. CASE UNCHANGED vars
  <2>1. UNCHANGED <<types, m_types, typedb, object_heaps, objects, cls, phase, fldOffset, f>>
    BY <1>1 DEF vars, layout
  <2>2. \A t : (Once(t)' <=> Once(t)) /\ (LaidOut(t)' <=> LaidOut(t))
    BY <2>1 DEF Once, LaidOut
  <2>3. SizeOf' = SizeOf
    BY <2>1 DEF SizeOf, getSize, Known, HasType, getTypeInfo, getType
  <2>4. \A fs : Recorded(fs)' <=> Recorded(fs)
    BY <2>3 DEF Recorded
  <2>5. Laid' /\ Summed'
    BY <2>1, <2>2, <2>3 DEF LayoutInv, Laid, Summed, Ordered, Tight, Recorded, Once
  <2>6. Heaps' /\ Registered' /\ Untouched' /\ Fitted' /\ Held'
    BY <2>1, <2>2 DEF LayoutInv, Heaps, Registered, Untouched, Fitted, Fits, Ordered, Held
  <2> QED BY <2>5, <2>6 DEF LayoutInv
<1>2. CASE RejectBatch
  BY <1>2, LayoutFrame DEF RejectBatch
<1>3. CASE \E batch \in Batches : StartBuild(batch)
  BY <1>3, LayoutFrame DEF StartBuild
<1>4. CASE Build
  BY <1>4, LayoutBuild
<1>5. CASE \E n \in Classes : CreateObject(n)
  BY <1>5, CreateObjectLayout
<1> QED BY <1>1, <1>2, <1>3, <1>4, <1>5 DEF Next

LEMMA LayoutInvariant == Spec => []LayoutInv
BY LayoutInit, LayoutNext, TypeInvariant, PTL DEF Spec

(* The members of a class that was compiled once lie one after the other   *)
(* inside the size computeMetrics gave it.                                 *)
THEOREM MembersInsideObject == Spec => []SlotsInObject
<1>1. TypeInv /\ LayoutInv => SlotsInObject
  <2> SUFFICES ASSUME TypeInv, LayoutInv, NEW t \in DOMAIN types, Once(t), LaidOut(t)
               PROVE  LET fs == types[t].fields IN
                      \A i \in DOMAIN fs :
                        /\ fs[i].offset + fs[i].size <= types[t].size
                        /\ \A j \in i + 1 .. Len(fs) :
                             fs[i].offset + fs[i].size <= fs[j].offset
    BY DEF SlotsInObject
  <2> DEFINE fs == types[t].fields
  <2>1. DOMAIN fs = 1 .. Len(fs) /\ Len(fs) \in Nat
    BY FieldsTyped DEF TypeInv, TypeOK
  <2>2. Fits(fs, types[t].size)
    BY DEF LayoutInv, Fitted
  <2>3. \A i \in DOMAIN fs : \A j \in i + 1 .. Len(fs) : j \in DOMAIN fs /\ i < j
    BY <2>1
  <2> QED BY <2>2, <2>3 DEF Fits, Ordered, End
<1> QED BY <1>1, TypeInvariant, LayoutInvariant, PTL

(* The memory of an object holds every member of its class, unless the     *)
(* class was declared again.                                               *)
THEOREM ObjectsLargeEnough == Spec => []ObjectsHoldFields
<1>1. TypeInv /\ LayoutInv => ObjectsHoldFields
  <2> SUFFICES ASSUME TypeInv, LayoutInv, NEW o \in objects, Once(o.type),
                      NEW fld \in ToSet(types[o.type].fields)
               PROVE  fld.offset + fld.size <= o.size
    BY DEF ObjectsHoldFields
  <2>1. o.type \in DOMAIN types
    BY DEF TypeInv, TypeOK, TablesOK
  <2>2. LaidOut(o.type) /\ o.size = types[o.type].size
    BY DEF LayoutInv, Held
  <2>3. Fits(types[o.type].fields, types[o.type].size)
    BY <2>1, <2>2 DEF LayoutInv, Fitted
  <2> QED BY <2>2, <2>3 DEF Fits, End, ToSet
<1> QED BY <1>1, TypeInvariant, LayoutInvariant, PTL

=============================================================================
