----------------------- MODULE RequestPreparationProofs -----------------------
(***************************************************************************)
(* Proofs about RequestPreparation, for all schemas, parameters and        *)
(* limits: what validation accepts it accepts again as it is, the native   *)
(* builder accepts it, it is within the limits, whatever happens to the    *)
(* schema while the request is on its way, and the strict validation is    *)
(* what the published JSON Schema says.                                    *)
(*                                                                         *)
(* Unfolds is the hypothesis of these theorems, and Published that of the  *)
(* last one.                                                               *)
(***************************************************************************)
EXTENDS RequestPreparation, FiniteSetTheorems, SequenceTheorems,
        WellFoundedInduction, TLAPS

-----------------------------------------------------------------------------
(* One level of a validation                                               *)

\* Among the levels of a value one is the deepest.
LEMMA DeepestLevel ==
  ASSUME NEW N \in Nat, NEW T, T \subseteq 0..N, T # {}
  PROVE  \E k \in T : \A j \in T : j <= k
  <1> DEFINE From == {k..N : k \in T}
  <1>1. IsFiniteSet(0..N)
    BY FS_Interval
  <1>2. From \subseteq FiniteSubsetsOf(0..N) /\ From # {}
    <2>1. ASSUME NEW k \in T
          PROVE  k..N \subseteq 0..N /\ IsFiniteSet(k..N)
      BY FS_Interval
    <2> QED
      BY <2>1 DEF FiniteSubsetsOf
  <1>3. PICK s \in From :
          \A t \in From : ~(<<t, s>> \in StrictSubsetOrdering(0..N))
    <2>1. IsWellFoundedOn(StrictSubsetOrdering(0..N), FiniteSubsetsOf(0..N))
      BY <1>1, FS_StrictSubsetOrderingWellFounded
    <2> HIDE DEF From
    <2> QED
      BY <1>2, <2>1, WFMin
  <1>4. PICK k \in T : s = k..N
    OBVIOUS
  <1>5. ASSUME NEW j \in T, k < j
        PROVE  FALSE
    <2>1. j..N \in From
      OBVIOUS
    <2>2. j..N \subseteq k..N /\ j..N # k..N
      <3>1. k \in k..N /\ k \notin j..N
        BY <1>5
      <3> QED
        BY <1>5, <3>1
    <2>3. j..N \subseteq 0..N /\ k..N \subseteq 0..N
      OBVIOUS
    <2> QED
      BY <1>3, <1>4, <2>1, <2>2, <2>3 DEF StrictSubsetOrdering
  <1> QED
    BY <1>5

\* The equations, one by one.
LEMMA ValidatedUnfolds ==
  ASSUME Unfolds, NEW d, NEW v, NEW m, NEW depth \in Nat
  PROVE  Validated(d, v, m, depth) = ValidObject(d, v, m, depth)
  BY DEF Unfolds

LEMMA PopulatedUnfolds ==
  ASSUME Unfolds, NEW d, NEW v
  PROVE  Populated(d, v) = Built(d, v)
  BY DEF Unfolds

LEMMA ShallowUnfolds ==
  ASSUME Unfolds, NEW v, NEW n \in Nat
  PROVE  Shallow(v, n) = Nested(v, n)
  BY DEF Unfolds

\* What an accepted object is made of: every entry is the accepted value of an
\* element of the definition.
FromElements(d, r, m, depth) ==
  \A n \in Keys(r) :
    /\ r.map[n] # Invalid
    /\ \E p \in Parts(d), w \in Values :
         /\ p.name = n
         /\ r.map[n] = ValidElement(p, w, m, depth)

AcceptedObject(d, r, m, depth) ==
  /\ depth <= MaxNesting
  /\ r = Object(r.map) /\ IsObject(r) /\ ~IsList(r)
  /\ r.map = [n \in Keys(r) |-> r.map[n]]
  /\ Required(d) \subseteq Keys(r)
  /\ FromElements(d, r, m, depth)

LEMMA ObjectShape ==
  ASSUME Unfolds, NEW d, NEW v \in Values, NEW m, NEW depth \in Nat,
         NEW r, r = Validated(d, v, m, depth), r # Invalid
  PROVE  AcceptedObject(d, r, m, depth)
  <1> DEFINE Entry(n) == ValidElement(Target(d, Source(d, v, n)),
                                      v.map[Source(d, v, n)], m, depth)
             result == [n \in Given(d, v) |-> Entry(n)]
  <1>1. Validated(d, v, m, depth) = ValidObject(d, v, m, depth)
    BY ValidatedUnfolds
  <1>2. /\ depth <= MaxNesting /\ Required(d) \subseteq Given(d, v)
        /\ \A n \in Given(d, v) : result[n] # Invalid
        /\ r = Object(result) /\ IsObject(v)
    BY <1>1, Zenon DEF ValidObject
  <1>3. ASSUME NEW n \in Given(d, v)
        PROVE  /\ Target(d, Source(d, v, n)) \in Parts(d)
               /\ Target(d, Source(d, v, n)).name = n
               /\ v.map[Source(d, v, n)] \in Values
    <2>1. /\ Source(d, v, n) \in Known(d, v)
          /\ Target(d, Source(d, v, n)).name = n
      BY DEF Given, Source
    <2>2. Target(d, Source(d, v, n)) \in Meant(d, Source(d, v, n))
      BY <2>1 DEF Known, Target
    <2>3. Meant(d, Source(d, v, n)) \subseteq Parts(d)
      BY DEF Meant, Parts
    <2>4. v.map[Source(d, v, n)] \in Values
      BY <1>2, <2>1, ValuesAssumption DEF Known
    <2> QED
      BY <2>1, <2>2, <2>3, <2>4
  <1>4. \A n \in Given(d, v) : \E p \in Parts(d), w \in Values :
          /\ p.name = n
          /\ Entry(n) = ValidElement(p, w, m, depth)
    BY <1>3
  <1> HIDE DEF Entry
  <1>5. /\ r.map = result /\ Keys(r) = Given(d, v)
        /\ IsObject(r) /\ ~IsList(r)
    BY <1>2 DEF Object, Keys, IsObject, IsList
  <1> QED
    BY <1>2, <1>4, <1>5 DEF FromElements, AcceptedObject

\* An object whose entries are accepted as they are is accepted as it is.
LEMMA ObjectAgain ==
  ASSUME Unfolds, NEW d, NEW v, NEW m, NEW depth \in Nat, depth <= MaxNesting,
         \A p, q \in Parts(d) : p.name = q.name => p = q,
         v = Object(v.map), v.map = [n \in Keys(v) |-> v.map[n]],
         Required(d) \subseteq Keys(v),
         \A n \in Keys(v) : \E p \in Parts(d) :
           /\ p.name = n /\ v.map[n] # Invalid
           /\ ValidElement(p, v.map[n], m, depth)
                = v.map[n]
  PROVE  Validated(d, v, m, depth) = v
  <1> DEFINE Entry(n) == ValidElement(Target(d, Source(d, v, n)),
                                      v.map[Source(d, v, n)], m, depth)
             result == [n \in Given(d, v) |-> Entry(n)]
  <1>1. ASSUME NEW n \in Keys(v)
        PROVE  /\ Meant(d, n) # {} /\ Target(d, n) \in Parts(d)
               /\ Target(d, n).name = n
    <2>1. PICK p \in Parts(d) : p.name = n
      OBVIOUS
    <2>2. Meant(d, n) = {p}
      BY <2>1 DEF Meant, Names
    <2> QED
      BY <2>1, <2>2 DEF Target
  <1>2. Known(d, v) = Keys(v)
    BY <1>1 DEF Known
  <1>3. Given(d, v) = Keys(v)
    BY <1>1, <1>2 DEF Given
  <1>4. ASSUME NEW n \in Keys(v)
        PROVE  Source(d, v, n) = n
    BY <1>1, <1>2 DEF Source
  <1>5. ASSUME NEW n \in Keys(v)
        PROVE  Entry(n) = v.map[n] /\ v.map[n] # Invalid
    <2>1. PICK p \in Parts(d) :
            /\ p.name = n /\ v.map[n] # Invalid
            /\ ValidElement(p, v.map[n], m, depth)
                 = v.map[n]
      OBVIOUS
    <2>2. Target(d, n) = p
      BY <1>1, <2>1
    <2> QED
      BY <1>4, <2>1, <2>2, Zenon
  <1>6. Validated(d, v, m, depth)
          = ValidObject(d, v, m, depth)
    <2> HIDE DEF Entry, result
    <2> QED
      BY ONLY Unfolds, ValidatedUnfolds, depth \in Nat
  <1>7. IsObject(v)
    BY DEF IsObject, Object
  <1>8. \A n \in Given(d, v) : result[n] # Invalid
    BY <1>3, <1>5
  <1>9. Validated(d, v, m, depth) = Object(result)
    <2>1. Cardinality(Given(d, v)) = Cardinality(Known(d, v))
      BY <1>2, <1>3
    <2>2. Required(d) \subseteq Given(d, v)
      BY <1>3
    <2> QED
      BY <1>2, <1>6, <1>7, <1>8, <2>1, <2>2, Zenon DEF ValidObject
  <1>10. result = v.map
    <2> HIDE DEF Entry
    <2> QED
      BY <1>3, <1>5
  <1> QED
    BY <1>9, <1>10

-----------------------------------------------------------------------------
(* From one level to the next                                              *)

\* Descriptors with those of their elements; branches of choices are scalars.
Closed(N) == \A d \in N : Parts(d) \subseteq N
FlatNodes(N) ==
  \A d \in N : d.kind = "CHOICE" => \A p \in Parts(d) : p.kind \notin Compound

\* What is accepted of d is an object that is accepted as it is, and built.
Stable(d, depth) ==
  \A v \in Values : \A m : LET r == Validated(d, v, m, depth) IN
    r # Invalid =>
      /\ IsObject(r) /\ Populated(d, r)
      /\ \A m2 : Validated(d, r, m2, depth) = r

LEMMA ScalarAgain ==
  ASSUME NEW kind, NEW v, NEW e, e = ValidScalar(kind, v), e # Invalid
  PROVE  e.kind = "SCALAR" /\ ValidScalar(kind, e) = e
  BY DEF ValidScalar

LEMMA ItemAgain ==
  ASSUME NEW d, NEW w \in Values \cup {Invalid}, NEW m, NEW depth \in Nat,
         Stable(d, depth + 1),
         NEW e, e = ValidItem(d, w, m, depth), e # Invalid
  PROVE  /\ e.kind \in {"SCALAR", "OBJECT"}
         /\ d.kind = "SEQUENCE" => IsObject(e) /\ Populated(d, e)
         /\ \A m2 : ValidItem(d, e, m2, depth) = e
  <1>1. CASE d.kind # "SEQUENCE"
    <2>1. e = ValidScalar(d.kind, w)
      BY <1>1 DEF ValidItem
    <2>2. e.kind = "SCALAR" /\ ValidScalar(d.kind, e) = e
      BY <2>1, ScalarAgain
    <2> QED
      BY <1>1, <2>2, Zenon DEF ValidItem
  <1>2. CASE d.kind = "SEQUENCE"
    <2>1. IsObject(w) /\ e = Validated(d, w, m, depth + 1)
      BY <1>2, Zenon DEF ValidItem, Deeper
    <2>4. w \in Values
      BY <2>1 DEF IsObject, Invalid
    <2>2. /\ IsObject(e) /\ Populated(d, e)
          /\ \A m2 : Validated(d, e, m2, depth + 1) = e
      BY <2>1, <2>4, Zenon DEF Stable
    <2>3. ASSUME NEW m2
          PROVE  ValidItem(d, e, m2, depth) = e
      BY <1>2, <2>2, Zenon DEF ValidItem, Deeper
    <2> QED
      BY <2>2, <2>3, Zenon DEF IsObject
  <1> QED
    BY <1>1, <1>2

\* What values are made of.
LEMMA ListValue ==
  ASSUME NEW w \in Values, IsList(w)
  PROVE  w = List(w.items) /\ w.items \in Seq(Values)
  BY Zenon, ValuesAssumption

LEMMA ObjectValue ==
  ASSUME NEW w \in Values, IsObject(w)
  PROVE  /\ w = Object([k \in Keys(w) |-> w.map[k]]) /\ IsFiniteSet(Keys(w))
         /\ \A k \in Keys(w) : w.map[k] \in Values /\ k # NoAlias
  BY Zenon, ValuesAssumption

LEMMA SingleIsValue ==
  ASSUME NEW w \in Values, NEW strict
  PROVE  Single(w, strict) \in Values \cup {Invalid}
  <1>1. CASE IsList(w)
    <2>1. w.items \in Seq(Values)
      BY <1>1, ListValue
    <2>2. Len(w.items) = 1 => w.items[1] \in Values
      BY <2>1
    <2> QED
      BY <1>1, <2>2, Zenon DEF Single
  <1>2. CASE ~IsList(w)
    BY <1>2, Zenon DEF Single
  <1> QED
    BY <1>1, <1>2

\* The values an array is validated from.
LEMMA ItemsAreValues ==
  ASSUME NEW d, NEW w \in Values, NEW strict
  PROVE  Items(d, w, strict) \in Seq(Values \cup {Invalid})
  <1>1. CASE IsList(w)
    <2>1. w.items \in Seq(Values)
      BY <1>1, ValuesAssumption
    <2>2. w.items \in Seq(Values \cup {Invalid})
      BY <2>1, SeqMonotonic
    <2> QED
      BY <1>1, <2>2 DEF Items
  <1>2. CASE ~IsList(w)
    <2>1. <<Invalid>> \in Seq(Values \cup {Invalid})
      OBVIOUS
    <2>2. <<w>> \in Seq(Values \cup {Invalid})
      OBVIOUS
    <2>3. Items(d, w, strict) = <<Invalid>> \/ Items(d, w, strict) = <<w>>
      BY <1>2, Zenon DEF Items
    <2> QED
      BY <2>1, <2>2, <2>3, Zenon
  <1> QED
    BY <1>1, <1>2

LEMMA SameLength ==
  ASSUME NEW S, NEW s \in Seq(S), NEW t, t = [i \in DOMAIN s |-> t[i]]
  PROVE  Len(t) = Len(s)
  <1> DEFINE T == {t[i] : i \in DOMAIN s}
  <1>1. DOMAIN s = 1..Len(s) /\ Len(s) \in Nat
    BY LenProperties
  <1>2. t \in [1..Len(s) -> T]
    BY <1>1
  <1>3. t \in Seq(T)
    BY <1>1, <1>2, SeqDef
  <1>4. DOMAIN t = 1..Len(t) /\ Len(t) \in Nat
    BY <1>3, LenProperties
  <1>5. 1..Len(t) = 1..Len(s)
    BY <1>1, <1>2, <1>4
  <1> QED
    BY <1>1, <1>4, <1>5

LEMMA ArrayAgain ==
  ASSUME NEW d, NEW w \in Values, NEW m, NEW depth \in Nat,
         Stable(d, depth + 1), d.kind # "CHOICE",
         NEW e, e = ValidArray(d, w, m, depth), e # Invalid
  PROVE  /\ BuiltElement(d, e)
         /\ \A m2 : ValidArray(d, e, m2, depth) = e
  <1> DEFINE items == Items(d, w, m.strict)
             Item(i) == ValidItem(d, items[i], m, depth)
             valid == [i \in DOMAIN items |-> Item(i)]
  <1>5. items \in Seq(Values \cup {Invalid})
    BY ItemsAreValues
  <1>1. /\ ~TooMany(d, items) /\ ~TooFew(d, items)
        /\ \A i \in DOMAIN items : valid[i] # Invalid
        /\ e = List(valid)
    BY Zenon DEF ValidArray
  <1>2. IsList(e) /\ e.items = valid
    BY <1>1 DEF List, IsList
  <1>3. ASSUME NEW i \in DOMAIN items
        PROVE  /\ d.kind = "SEQUENCE" => IsObject(valid[i])
                                          /\ Populated(d, valid[i])
               /\ \A m2 : ValidItem(d, valid[i], m2, depth)
                           = valid[i]
    <2>1. Item(i) # Invalid
      BY <1>1
    <2>2. /\ d.kind = "SEQUENCE" => IsObject(Item(i))
                                    /\ Populated(d, Item(i))
          /\ \A m2 : ValidItem(d, Item(i), m2, depth) = Item(i)
      <3>1. items[i] \in Values \cup {Invalid}
        BY <1>5, LenProperties
      <3> QED
        BY <2>1, <3>1, ItemAgain
    <2>3. valid[i] = Item(i)
      OBVIOUS
    <2> HIDE DEF valid, Item
    <2> QED
      BY <2>2, <2>3, Zenon
  <1>4. DOMAIN valid = DOMAIN items /\ Len(valid) = Len(items)
    <2>1. valid = [i \in DOMAIN items |-> valid[i]]
      OBVIOUS
    <2> HIDE DEF valid
    <2>2. DOMAIN valid = DOMAIN items
      BY <2>1
    <2> QED
      BY <1>5, <2>1, <2>2, SameLength
  <1>6. ~TooMany(d, valid) /\ ~TooFew(d, valid)
    BY <1>1, <1>4 DEF TooMany, TooFew
  <1>7. BuiltElement(d, e)
    <2> HIDE DEF valid
    <2>1. CASE d.kind = "SEQUENCE"
      BY <1>2, <1>3, <1>4, <2>1, Zenon DEF BuiltElement
    <2>2. CASE d.kind # "SEQUENCE"
      BY <2>2 DEF BuiltElement
    <2> QED
      BY <2>1, <2>2
  <1>8. ASSUME NEW m2
        PROVE  ValidArray(d, e, m2, depth) = e
    <2> DEFINE again == [i \in DOMAIN valid |->
                           ValidItem(d, valid[i], m2, depth)]
    <2>1. Items(d, e, m2.strict) = valid
      BY <1>2, Zenon DEF Items
    <2>2. again = valid
      <3>1. valid = [i \in DOMAIN valid |-> valid[i]]
        OBVIOUS
      <3> HIDE DEF valid
      <3> QED
        BY <1>3, <1>4, <3>1
    <2>3. \A i \in DOMAIN valid : again[i] # Invalid
      <3> HIDE DEF valid, again
      <3> QED
        BY <1>1, <1>4, <2>2, Zenon
    <2> HIDE DEF valid
    <2>4. ValidArray(d, e, m2, depth) = List(again)
      BY <1>6, <2>1, <2>3, Zenon DEF ValidArray
    <2> QED
      BY <1>1, <2>2, <2>4, Zenon
  <1> QED
    BY <1>7, <1>8

\* Of a choice of scalars one branch is taken, which is built.
LEMMA ChoiceAgain ==
  ASSUME NEW d, NEW w, NEW m, NEW depth \in Nat, d.kind = "CHOICE", Unfolds,
         \A p \in Parts(d) : p.kind \notin Compound,
         NEW e, e = ValidChoice(d, w, m, depth), e # Invalid
  PROVE  /\ BuiltElement(d, e)
         /\ \A m2 : ValidChoice(d, e, m2, depth) = e
  <1> DEFINE name == CHOOSE k \in Keys(w) : TRUE
             branches == {p \in Parts(d) : p.name = name}
             branch == CHOOSE p \in branches : TRUE
             scalar == ValidScalar(branch.kind, w.map[name])
  <1>1. branches # {} /\ branch \in branches
    BY Zenon DEF ValidChoice
  <1>2. branch \in Parts(d) /\ branch.name = name /\ branch.kind # "SEQUENCE"
    BY <1>1 DEF Compound
  <1>3. scalar # Invalid /\ e = Object([k \in {name} |-> scalar])
    BY <1>2, Zenon DEF ValidChoice
  <1> HIDE DEF name, branches, scalar
  <1>4. IsObject(e) /\ Keys(e) = {name} /\ e.map[name] = scalar
    BY <1>3 DEF IsObject, Object, Keys
  <1>5. Cardinality(Keys(e)) = 1
    BY <1>4, FS_Singleton
  <1>6. (CHOOSE k \in Keys(e) : TRUE) = name
    BY <1>4
  <1>7. ValidScalar(branch.kind, scalar) = scalar
    BY <1>3, ScalarAgain DEF scalar
  <1>8. ASSUME NEW m2
        PROVE  ValidChoice(d, e, m2, depth) = e
    BY <1>1, <1>2, <1>3, <1>4, <1>5, <1>6, <1>7, Zenon
       DEF ValidChoice, branches
  <1>9. BuiltElement(branch, scalar)
    BY <1>2 DEF BuiltElement, Compound
  <1>10. Populated(d, e)
    <2>1. Built(d, e)
      BY <1>2, <1>4, <1>9, Zenon DEF Built
    <2> QED
      BY <2>1, PopulatedUnfolds
  <1>11. BuiltElement(d, e)
    BY <1>4, <1>5, <1>10 DEF BuiltElement
  <1> QED
    BY <1>8, <1>11

LEMMA ElementAgain ==
  ASSUME Unfolds, NEW d, NEW w \in Values, NEW m, NEW depth \in Nat,
         Stable(d, depth + 1),
         d.kind = "CHOICE" => \A p \in Parts(d) : p.kind \notin Compound,
         NEW e, e = ValidElement(d, w, m, depth), e # Invalid
  PROVE  /\ BuiltElement(d, e)
         /\ \A m2 : ValidElement(d, e, m2, depth) = e
  <1>1. CASE d.kind = "CHOICE"
    <2>1. e = ValidChoice(d, w, m, depth)
      BY <1>1, Zenon DEF ValidElement
    <2>2. /\ BuiltElement(d, e)
          /\ \A m2 : ValidChoice(d, e, m2, depth) = e
      BY <1>1, <2>1, ChoiceAgain
    <2> QED
      BY <1>1, <2>2, Zenon DEF ValidElement
  <1>2. CASE d.kind # "CHOICE" /\ d.max = 1
    <2> DEFINE single == Single(w, m.strict)
    <2>1. e = ValidItem(d, single, m, depth)
      BY <1>2, Zenon DEF ValidElement
    <2>2. single \in Values \cup {Invalid}
      BY SingleIsValue
    <2> HIDE DEF single
    <2>3. /\ e.kind \in {"SCALAR", "OBJECT"}
          /\ d.kind = "SEQUENCE" => IsObject(e) /\ Populated(d, e)
          /\ \A m2 : ValidItem(d, e, m2, depth) = e
      BY <2>1, <2>2, ItemAgain
    <2>4. ~IsList(e)
      BY <2>3 DEF IsList
    <2>5. ASSUME NEW m2
          PROVE  ValidElement(d, e, m2, depth) = e
      BY <1>2, <2>3, <2>4, Zenon DEF ValidElement, Single
    <2>6. BuiltElement(d, e)
      <3>1. CASE d.kind = "SEQUENCE"
        <4>1. \A i \in DOMAIN <<e>> : IsObject(<<e>>[i])
                                      /\ Populated(d, <<e>>[i])
          BY <2>3, <3>1
        <4> QED
          BY <2>4, <3>1, <4>1, Zenon DEF BuiltElement
      <3>2. CASE d.kind # "SEQUENCE"
        BY <1>2, <3>2 DEF BuiltElement
      <3> QED
        BY <3>1, <3>2
    <2> QED
      BY <2>5, <2>6
  <1>3. CASE d.kind # "CHOICE" /\ d.max # 1
    <2>1. e = ValidArray(d, w, m, depth)
      BY <1>3, Zenon DEF ValidElement
    <2>2. /\ BuiltElement(d, e)
          /\ \A m2 : ValidArray(d, e, m2, depth) = e
      BY <1>3, <2>1, ArrayAgain
    <2> QED
      BY <1>3, <2>2, Zenon DEF ValidElement
  <1> QED
    BY <1>1, <1>2, <1>3

\* One level up: the entries are stable, and so is the object.
LEMMA StableAbove ==
  ASSUME Unfolds, NEW d, NEW depth \in Nat,
         \A p, q \in Parts(d) : p.name = q.name => p = q,
         \A p \in Parts(d) :
           /\ Stable(p, depth + 1)
           /\ p.kind = "CHOICE" => \A q \in Parts(p) : q.kind \notin Compound
  PROVE  Stable(d, depth)
  <1> SUFFICES ASSUME NEW v \in Values, NEW m,
                      NEW r, r = Validated(d, v, m, depth), r # Invalid
               PROVE  /\ IsObject(r) /\ Populated(d, r)
                      /\ \A m2 : Validated(d, r, m2, depth) = r
    BY Zenon DEF Stable
  <1>0. AcceptedObject(d, r, m, depth)
    BY ONLY ObjectShape, Unfolds, v \in Values, depth \in Nat,
            r = Validated(d, v, m, depth), r # Invalid
  <1>1. /\ depth <= MaxNesting
        /\ r = Object(r.map) /\ IsObject(r) /\ ~IsList(r)
        /\ r.map = [n \in Keys(r) |-> r.map[n]]
        /\ Required(d) \subseteq Keys(r)
        /\ FromElements(d, r, m, depth)
    BY <1>0 DEF AcceptedObject
  <1>2. ASSUME NEW n \in Keys(r)
        PROVE  \E p \in Parts(d) :
                 /\ p.name = n /\ r.map[n] # Invalid
                 /\ BuiltElement(p, r.map[n])
                 /\ \A m2 : ValidElement(p, r.map[n], m2, depth)
                             = r.map[n]
    <2>1. /\ r.map[n] # Invalid
          /\ \E p \in Parts(d), w \in Values :
               /\ p.name = n
               /\ r.map[n] = ValidElement(p, w, m, depth)
      BY <1>1, Zenon DEF FromElements
    <2>2. PICK p \in Parts(d), w \in Values :
            /\ p.name = n
            /\ r.map[n] = ValidElement(p, w, m, depth)
      BY <2>1, Zenon
    <2>3. /\ BuiltElement(p, r.map[n])
          /\ \A m2 : ValidElement(p, r.map[n], m2, depth)
                      = r.map[n]
      BY <2>1, <2>2, ElementAgain
    <2> QED
      BY <2>1, <2>2, <2>3, Zenon
  <1>3. IsObject(r)
    BY <1>1 DEF IsObject, Object
  <1>4. Populated(d, r)
    <2>1. Built(d, r)
      BY <1>2, Zenon DEF Built
    <2> QED
      BY <2>1, PopulatedUnfolds
  <1>5. ASSUME NEW m2
        PROVE  Validated(d, r, m2, depth) = r
    <2>1. \A n \in Keys(r) : \E p \in Parts(d) :
            /\ p.name = n /\ r.map[n] # Invalid
            /\ ValidElement(p, r.map[n], m2, depth) = r.map[n]
      BY <1>2
    <2> QED
      BY <1>1, <2>1, ObjectAgain
  <1> QED
    BY <1>3, <1>4, <1>5

\* Below the deepest level nothing is accepted.
LEMMA NothingBelow ==
  ASSUME Unfolds, NEW d, NEW v, NEW m, NEW depth \in Nat, depth > MaxNesting
  PROVE  Validated(d, v, m, depth) = Invalid
  <1>1. Validated(d, v, m, depth) = ValidObject(d, v, m, depth)
    BY ValidatedUnfolds
  <1>2. ~(depth <= MaxNesting)
    BY LimitsAssumption
  <1> QED
    BY <1>1, <1>2, Zenon DEF ValidObject

\* So all levels are stable where every branch of every choice is a scalar.
LEMMA FlatIsStable ==
  ASSUME Unfolds, NEW v \in FlatVersions
  PROVE  \A d \in Nodes[v], depth \in 0..MaxNesting : Stable(d, depth)
  <1> DEFINE Bad == {depth \in 0..MaxNesting :
                       \E d \in Nodes[v] : ~Stable(d, depth)}
  <1> SUFFICES ASSUME Bad # {} PROVE FALSE
    OBVIOUS
  <1>1. v \in Versions /\ FlatNodes(Nodes[v]) /\ Closed(Nodes[v])
    BY TreesAssumption DEF FlatVersions, FlatNodes, Closed
  <1>2. PICK depth \in Bad : \A deeper \in Bad : deeper <= depth
    <2>1. Bad \subseteq 0..MaxNesting
      OBVIOUS
    <2> HIDE DEF Bad
    <2> QED
      BY <2>1, DeepestLevel, LimitsAssumption
  <1>3. PICK d \in Nodes[v] : ~Stable(d, depth)
    OBVIOUS
  <1>4. depth \in Nat /\ depth <= MaxNesting
    BY LimitsAssumption
  <1>5. ASSUME NEW p \in Nodes[v]
        PROVE  Stable(p, depth + 1)
    <2>1. CASE depth + 1 <= MaxNesting
      <3>1. depth + 1 \in 0..MaxNesting /\ ~(depth + 1 <= depth)
        BY <1>4, <2>1, LimitsAssumption
      <3> QED
        BY <1>2, <3>1
    <2>2. CASE depth + 1 > MaxNesting
      BY <1>4, <2>2, NothingBelow DEF Stable
    <2> QED
      BY <1>4, <2>1, <2>2, LimitsAssumption
  <1>6. \A p, q \in Parts(d) : p.name = q.name => p = q
    BY <1>1, TreesAssumption
  <1>7. \A p \in Parts(d) :
          /\ Stable(p, depth + 1)
          /\ p.kind = "CHOICE" => \A q \in Parts(p) : q.kind \notin Compound
    BY <1>1, <1>5 DEF Closed, FlatNodes
  <1> HIDE DEF Bad
  <1> QED
    BY <1>3, <1>4, <1>6, <1>7, StableAbove

\* What is accepted is accepted again as it is, and built.
LEMMA CanonicalAgain ==
  ASSUME Unfolds, NEW v \in FlatVersions, NEW p \in Values, NEW m,
         NEW c, c = Canonical(Tree[v], p, m), c # Invalid
  PROVE  /\ Populated(Tree[v], c)
         /\ \A m2 : Canonical(Tree[v], c, m2) = c
  <1>1. Tree[v] \in Nodes[v] /\ 0 \in 0..MaxNesting
    BY TreesAssumption, LimitsAssumption DEF FlatVersions
  <1>2. Stable(Tree[v], 0)
    BY <1>1, FlatIsStable
  <1>3. /\ c = Validated(Tree[v], p, m, 0)
        /\ ArrayElements(c) <= MaxArrayElements
    BY Zenon DEF Canonical
  <1>4. Populated(Tree[v], c) /\ \A m2 : Validated(Tree[v], c, m2, 0) = c
    BY <1>2, <1>3, Zenon DEF Stable
  <1> QED
    <2> SUFFICES ASSUME NEW m2 PROVE Canonical(Tree[v], c, m2) = c
      BY <1>4
    <2>1. Validated(Tree[v], c, m2, 0) = c
      BY <1>4, Zenon
    <2> QED
      BY <1>3, <2>1, Zenon DEF Canonical

-----------------------------------------------------------------------------
(* The depth of what is accepted                                           *)

\* What is accepted of d nests no deeper than its place in the tree allows.
Bounded(d, depth) ==
  \A v \in Values : \A m : LET r == Validated(d, v, m, depth) IN
    r # Invalid => Shallow(r, MaxNesting + 2 - depth)

LEMMA ScalarIsShallow ==
  ASSUME Unfolds, NEW e, e.kind = "SCALAR", NEW n \in Nat
  PROVE  Shallow(e, n)
  <1>1. Nested(e, n)
    BY DEF Nested, IsObject, IsList
  <1> QED
    BY <1>1, ShallowUnfolds

LEMMA ObjectIsShallow ==
  ASSUME Unfolds, NEW v, NEW n \in Nat, n > 0, IsObject(v), ~IsList(v),
         \A k \in Keys(v) : Shallow(v.map[k], n - 1)
  PROVE  Shallow(v, n)
  <1>1. Nested(v, n)
    BY DEF Nested
  <1> QED
    BY <1>1, ShallowUnfolds

LEMMA ItemIsShallow ==
  ASSUME Unfolds, NEW d, NEW w \in Values \cup {Invalid}, NEW m,
         NEW depth \in Nat, depth <= MaxNesting, Bounded(d, depth + 1),
         NEW e, e = ValidItem(d, w, m, depth), e # Invalid
  PROVE  Shallow(e, MaxNesting + 1 - depth)
  <1>1. CASE d.kind # "SEQUENCE"
    <2>1. e = ValidScalar(d.kind, w)
      BY <1>1 DEF ValidItem
    <2>2. e.kind = "SCALAR"
      BY <2>1, ScalarAgain
    <2>3. MaxNesting + 1 - depth \in Nat
      BY LimitsAssumption
    <2> QED
      BY <2>2, <2>3, ScalarIsShallow
  <1>2. CASE d.kind = "SEQUENCE"
    <2>1. IsObject(w) /\ e = Validated(d, w, m, depth + 1)
      BY <1>2, Zenon DEF ValidItem, Deeper
    <2>2. w \in Values
      BY <2>1 DEF IsObject, Invalid
    <2>3. Shallow(e, MaxNesting + 2 - (depth + 1))
      BY <2>1, <2>2, Zenon DEF Bounded
    <2>4. MaxNesting + 2 - (depth + 1) = MaxNesting + 1 - depth
      BY LimitsAssumption
    <2> QED
      BY <2>3, <2>4
  <1> QED
    BY <1>1, <1>2

LEMMA ArrayIsShallow ==
  ASSUME Unfolds, NEW d, NEW w \in Values, NEW m,
         NEW depth \in Nat, depth <= MaxNesting, Bounded(d, depth + 1),
         NEW e, e = ValidArray(d, w, m, depth), e # Invalid
  PROVE  Shallow(e, MaxNesting + 1 - depth)
  <1> DEFINE items == Items(d, w, m.strict)
             Item(i) == ValidItem(d, items[i], m, depth)
             valid == [i \in DOMAIN items |-> Item(i)]
  <1>1. /\ \A i \in DOMAIN items : valid[i] # Invalid
        /\ e = List(valid)
    BY Zenon DEF ValidArray
  <1>2. ASSUME NEW i \in DOMAIN items
        PROVE  Shallow(valid[i], MaxNesting + 1 - depth)
    <2>1. items[i] \in Values \cup {Invalid}
      <3>1. items \in Seq(Values \cup {Invalid})
        BY ItemsAreValues
      <3> QED
        BY <3>1, LenProperties
    <2>2. Item(i) # Invalid /\ valid[i] = Item(i)
      BY <1>1
    <2>3. Shallow(Item(i), MaxNesting + 1 - depth)
      BY <2>1, <2>2, ItemIsShallow
    <2> QED
      BY <2>2, <2>3
  <1>3. DOMAIN valid = DOMAIN items
    OBVIOUS
  <1> HIDE DEF valid
  <1>4. IsList(e) /\ ~IsObject(e) /\ e.items = valid
    BY <1>1 DEF List, IsList, IsObject
  <1>5. Nested(e, MaxNesting + 1 - depth)
    BY <1>2, <1>3, <1>4, Zenon DEF Nested
  <1>6. MaxNesting + 1 - depth \in Nat
    BY LimitsAssumption
  <1> QED
    BY <1>5, <1>6, ShallowUnfolds

LEMMA ChoiceIsShallow ==
  ASSUME Unfolds, NEW d, NEW w \in Values, NEW m,
         NEW depth \in Nat, depth <= MaxNesting,
         \A p \in Parts(d) : Bounded(p, depth + 1),
         NEW e, e = ValidChoice(d, w, m, depth), e # Invalid
  PROVE  Shallow(e, MaxNesting + 1 - depth)
  <1> DEFINE name == CHOOSE k \in Keys(w) : TRUE
             branches == {p \in Parts(d) : p.name = name}
             branch == CHOOSE p \in branches : TRUE
             value == w.map[name]
             scalar == ValidScalar(branch.kind, value)
  <1>1. /\ IsObject(w) /\ Cardinality(Keys(w)) = 1
        /\ branches # {} /\ branch \in branches
    BY Zenon DEF ValidChoice
  <1>2. branch \in Parts(d)
    BY <1>1
  <1>3. value \in Values
    <2>1. Keys(w) # {}
      BY <1>1, FS_EmptySet
    <2> QED
      BY <1>1, <2>1, ValuesAssumption
  <1>4. CASE branch.kind = "SEQUENCE" /\ IsObject(value)
    <2>1. e = Validated(branch, value, m, depth + 1)
      BY <1>1, <1>4, Zenon DEF ValidChoice, Deeper
    <2>2. Shallow(e, MaxNesting + 2 - (depth + 1))
      BY <1>2, <1>3, <2>1, Zenon DEF Bounded
    <2>3. MaxNesting + 2 - (depth + 1) = MaxNesting + 1 - depth
      BY LimitsAssumption
    <2> QED
      BY <2>2, <2>3
  <1>5. CASE ~(branch.kind = "SEQUENCE" /\ IsObject(value))
    <2>1. scalar # Invalid /\ e = Object([k \in {name} |-> scalar])
      BY <1>1, <1>5, Zenon DEF ValidChoice
    <2>2. scalar.kind = "SCALAR"
      BY <2>1, ScalarAgain
    <2> HIDE DEF name, scalar
    <2>3. /\ IsObject(e) /\ ~IsList(e)
          /\ Keys(e) = {name} /\ e.map[name] = scalar
      BY <2>1 DEF IsObject, IsList, Object, Keys
    <2>4. PICK n \in Nat : n = MaxNesting + 1 - depth /\ n > 0
      BY LimitsAssumption
    <2>5. n - 1 \in Nat
      BY <2>4
    <2>6. Shallow(scalar, n - 1)
      BY <2>2, <2>5, ScalarIsShallow
    <2>7. \A k \in Keys(e) : Shallow(e.map[k], n - 1)
      BY <2>3, <2>6, Zenon
    <2>8. Shallow(e, n)
      BY ONLY <2>3, <2>4, <2>7, Unfolds, ObjectIsShallow
    <2> QED
      BY <2>4, <2>8
  <1> QED
    BY <1>4, <1>5

LEMMA ElementIsShallow ==
  ASSUME Unfolds, NEW d, NEW w \in Values, NEW m,
         NEW depth \in Nat, depth <= MaxNesting, Bounded(d, depth + 1),
         \A p \in Parts(d) : Bounded(p, depth + 1),
         NEW e, e = ValidElement(d, w, m, depth), e # Invalid
  PROVE  Shallow(e, MaxNesting + 1 - depth)
  <1>1. CASE d.kind = "CHOICE"
    <2>1. e = ValidChoice(d, w, m, depth)
      BY <1>1, Zenon DEF ValidElement
    <2> QED
      BY <2>1, ChoiceIsShallow
  <1>2. CASE d.kind # "CHOICE" /\ d.max = 1
    <2> DEFINE single == Single(w, m.strict)
    <2>1. e = ValidItem(d, single, m, depth)
      BY <1>2, Zenon DEF ValidElement
    <2>2. single \in Values \cup {Invalid}
      BY SingleIsValue
    <2> HIDE DEF single
    <2> QED
      BY <2>1, <2>2, ItemIsShallow
  <1>3. CASE d.kind # "CHOICE" /\ d.max # 1
    <2>1. e = ValidArray(d, w, m, depth)
      BY <1>3, Zenon DEF ValidElement
    <2> QED
      BY <2>1, ArrayIsShallow
  <1> QED
    BY <1>1, <1>2, <1>3

LEMMA BoundedAbove ==
  ASSUME Unfolds, NEW d, NEW depth \in Nat, depth <= MaxNesting,
         \A p \in Parts(d) :
           /\ Bounded(p, depth + 1)
           /\ \A q \in Parts(p) : Bounded(q, depth + 1)
  PROVE  Bounded(d, depth)
  <1> SUFFICES ASSUME NEW v \in Values, NEW m,
                      NEW r, r = Validated(d, v, m, depth), r # Invalid
               PROVE  Shallow(r, MaxNesting + 2 - depth)
    BY Zenon DEF Bounded
  <1>0. AcceptedObject(d, r, m, depth)
    BY ONLY ObjectShape, Unfolds, v \in Values, depth \in Nat,
            r = Validated(d, v, m, depth), r # Invalid
  <1>1. IsObject(r) /\ ~IsList(r)
    BY <1>0 DEF AcceptedObject
  <1>2. FromElements(d, r, m, depth)
    BY <1>0 DEF AcceptedObject
  <1>3. ASSUME NEW n \in Keys(r)
        PROVE  Shallow(r.map[n], MaxNesting + 1 - depth)
    <2>1. r.map[n] # Invalid
      BY <1>2, Zenon DEF FromElements
    <2>2. PICK p \in Parts(d), w \in Values :
            r.map[n] = ValidElement(p, w, m, depth)
      BY <1>2, Zenon DEF FromElements
    <2> QED
      BY <2>1, <2>2, ElementIsShallow
  <1>4. PICK n \in Nat : n = MaxNesting + 2 - depth /\ n > 0
    BY LimitsAssumption
  <1>5. n - 1 = MaxNesting + 1 - depth
    BY <1>4, LimitsAssumption
  <1>6. \A k \in Keys(r) : Shallow(r.map[k], n - 1)
    BY <1>3, <1>5, Zenon
  <1>7. Shallow(r, n)
    BY ONLY <1>1, <1>4, <1>6, Unfolds, ObjectIsShallow
  <1> QED
    BY <1>4, <1>7

LEMMA AllAreBounded ==
  ASSUME Unfolds, NEW v \in Versions
  PROVE  \A d \in Nodes[v], depth \in 0..MaxNesting : Bounded(d, depth)
  <1> DEFINE Bad == {depth \in 0..MaxNesting :
                       \E d \in Nodes[v] : ~Bounded(d, depth)}
  <1> SUFFICES ASSUME Bad # {} PROVE FALSE
    OBVIOUS
  <1>1. Closed(Nodes[v])
    BY TreesAssumption DEF Closed
  <1>2. PICK depth \in Bad : \A deeper \in Bad : deeper <= depth
    <2>1. Bad \subseteq 0..MaxNesting
      OBVIOUS
    <2> HIDE DEF Bad
    <2> QED
      BY <2>1, DeepestLevel, LimitsAssumption
  <1>3. PICK d \in Nodes[v] : ~Bounded(d, depth)
    OBVIOUS
  <1>4. depth \in Nat /\ depth <= MaxNesting
    BY LimitsAssumption
  <1>5. ASSUME NEW p \in Nodes[v]
        PROVE  Bounded(p, depth + 1)
    <2>1. CASE depth + 1 <= MaxNesting
      <3>1. depth + 1 \in 0..MaxNesting /\ ~(depth + 1 <= depth)
        BY <1>4, <2>1, LimitsAssumption
      <3> QED
        BY <1>2, <3>1
    <2>2. CASE depth + 1 > MaxNesting
      BY <1>4, <2>2, NothingBelow DEF Bounded
    <2> QED
      BY <1>4, <2>1, <2>2, LimitsAssumption
  <1>6. \A p \in Parts(d) :
          /\ Bounded(p, depth + 1)
          /\ \A q \in Parts(p) : Bounded(q, depth + 1)
    BY <1>1, <1>5 DEF Closed
  <1> HIDE DEF Bad
  <1> QED
    BY <1>3, <1>4, <1>6, BoundedAbove

\* No accepted request exceeds the limits of the policy: the array elements are
\* counted at the end, the objects on the way down.
THEOREM LimitsKept ==
  ASSUME Unfolds
  PROVE  WithinLimits
  <1> SUFFICES ASSUME NEW v \in Versions, NEW p \in RawParameters,
                      NEW m \in Modes,
                      NEW c, c = Canonical(Tree[v], p, m), c # Invalid
               PROVE  /\ ArrayElements(c) <= MaxArrayElements
                      /\ Shallow(c, MaxNesting + 2)
    BY Zenon DEF WithinLimits
  <1>1. /\ c = Validated(Tree[v], p, m, 0)
        /\ ArrayElements(c) <= MaxArrayElements
    BY Zenon DEF Canonical
  <1>2. Tree[v] \in Nodes[v] /\ 0 \in 0..MaxNesting /\ p \in Values
    BY TreesAssumption, LimitsAssumption, ValuesAssumption
  <1>3. Bounded(Tree[v], 0)
    BY <1>2, AllAreBounded
  <1>4. Shallow(c, MaxNesting + 2 - 0)
    BY <1>1, <1>2, <1>3, Zenon DEF Bounded
  <1>5. MaxNesting + 2 - 0 = MaxNesting + 2
    BY LimitsAssumption
  <1> QED
    BY <1>1, <1>4, <1>5

-----------------------------------------------------------------------------
(* Strict validation and the published JSON Schema                         *)

\* A descriptor of a plain schema, and its entry in the $defs.
PlainNode(d) ==
  /\ d.kind \notin {"REF", "ANY_OBJECT"} /\ d.min \in Nat /\ d.max \in Nat
  /\ \A p, q \in Parts(d) : p.name = q.name => p = q
  /\ \A i \in DOMAIN d.parts : d.parts[i].alias = NoAlias
  /\ d.kind = "CHOICE" =>
       d.max = 1 /\ \A p \in Parts(d) :
                      p.kind \notin Compound \cup {"REF", "ANY_OBJECT"}

Entry(d) == Schema(d.kind, [i \in DOMAIN d.parts |->
                     Property(d, d.parts[i], SchemaFor(d.parts[i]))])
Defined(d, defs) == d.kind \in Compound => defs[d.type] = Entry(d)

Strict(m) == m.strict /\ m.reject

\* What is accepted is admitted, and validation leaves it alone; what is
\* admitted is accepted if its scalars are within the ranges.
Same(answer, v, admitted) ==
  /\ answer # Invalid => admitted /\ answer = v
  /\ admitted /\ InRange(v) => answer # Invalid

ObjectsAgree(d, defs, depth) ==
  \A v \in Values : \A m :
    Strict(m) => Same(Validated(d, v, m, depth), v,
                      Admitted(SchemaFor(d), defs, v, MaxNesting + 1 - depth))

ElementsAgree(d, p, defs, depth) ==
  \A v \in Values : \A m :
    Strict(m) => Same(ValidElement(p, v, m, depth), v,
                      AdmitsProperty(Property(d, p, SchemaFor(p)), defs, v,
                                     MaxNesting - depth))

LEMMA AdmittedUnfolds ==
  ASSUME Unfolds, NEW schema, NEW defs, NEW v, NEW n \in Nat
  PROVE  Admitted(schema, defs, v, n) = AdmitsValue(schema, defs, v, n)
  BY Zenon DEF Unfolds

LEMMA PropsOfEntry ==
  ASSUME NEW d
  PROVE  Props(Entry(d)) = {Property(d, p, SchemaFor(p)) : p \in Parts(d)}
  <1> DEFINE props == [i \in DOMAIN d.parts |->
                         Property(d, d.parts[i], SchemaFor(d.parts[i]))]
  <1>1. Entry(d).props = props
    BY DEF Entry, Schema
  <1>2. \A i \in DOMAIN d.parts :
          props[i] = Property(d, d.parts[i], SchemaFor(d.parts[i]))
    OBVIOUS
  <1>3. DOMAIN props = DOMAIN d.parts
    OBVIOUS
  <1> HIDE DEF props
  <1> QED
    BY <1>1, <1>2, <1>3, Zenon DEF Props, Parts

LEMMA TextsUnfold ==
  ASSUME Unfolds, NEW v
  PROVE  Texts(v) = TextsOf(v)
  BY Zenon DEF Unfolds

\* The parts of a value that is within the ranges are within them.
LEMMA InRangeBelow ==
  ASSUME Unfolds, NEW v, InRange(v)
  PROVE  /\ IsObject(v) => \A k \in Keys(v) : InRange(v.map[k])
         /\ IsList(v) => \A i \in DOMAIN v.items : InRange(v.items[i])
  <1>1. CASE IsObject(v)
    <2>1. Texts(v) = UNION {Texts(v.map[k]) : k \in Keys(v)}
      BY <1>1, TextsUnfold DEF TextsOf, IsObject, IsList
    <2>2. ~IsList(v)
      BY <1>1 DEF IsObject, IsList
    <2> QED
      BY <2>1, <2>2 DEF InRange
  <1>2. CASE IsList(v)
    <2>1. Texts(v) = UNION {Texts(v.items[i]) : i \in DOMAIN v.items}
      BY <1>2, TextsUnfold DEF TextsOf, IsObject, IsList
    <2>2. ~IsObject(v)
      BY <1>2 DEF IsObject, IsList
    <2> QED
      BY <2>1, <2>2 DEF InRange
  <1> QED
    BY <1>1, <1>2

\* A JSON type admits every scalar of its datatype, and beyond them only what
\* is out of a range.
LEMMA TypesAdmit ==
  ASSUME NEW kind
  PROVE  /\ JsonType(kind) \notin Compound \cup {"REF", "ANY_OBJECT"}
         /\ Legal(kind) \subseteq Fitting(JsonType(kind))
         /\ Fitting(JsonType(kind)) \subseteq Legal(kind) \cup {"HUGE", "EMPTY"}
  BY DEF JsonType, Legal, Fitting, Compound

\* A scalar.
LEMMA ScalarsAgree ==
  ASSUME Unfolds, NEW kind, NEW defs, NEW v, NEW n \in Nat
  PROVE  Same(ValidScalar(kind, v), v,
              Admitted(Schema(JsonType(kind), <<>>), defs, v, n))
  <1> DEFINE schema == Schema(JsonType(kind), <<>>)
  <1>1. Admitted(schema, defs, v, n) = AdmitsValue(schema, defs, v, n)
    BY AdmittedUnfolds
  <1>2. schema.kind = JsonType(kind)
    BY DEF Schema
  <1> HIDE DEF schema
  <1>3. AdmitsValue(schema, defs, v, n)
          <=> v.kind = "SCALAR" /\ v.text \in Fitting(JsonType(kind))
    BY <1>2, TypesAdmit DEF AdmitsValue, Compound
  <1>4. v.kind = "SCALAR" => v # Invalid
    BY DEF Invalid
  <1>5. ASSUME v.kind = "SCALAR", InRange(v)
        PROVE  v.text \notin {"HUGE", "EMPTY"}
    <2>1. Texts(v) = {v.text}
      BY <1>5, TextsUnfold DEF TextsOf, IsObject, IsList
    <2> QED
      BY <1>5, <2>1 DEF InRange
  <1>6. /\ v.text \in Legal(kind) => v.text \in Fitting(JsonType(kind))
        /\ v.text \in Fitting(JsonType(kind)) =>
             v.text \in Legal(kind) \/ v.text \in {"HUGE", "EMPTY"}
    BY TypesAdmit
  <1> QED
    BY <1>1, <1>3, <1>4, <1>5, <1>6, Zenon DEF Same, ValidScalar, schema

\* A reference leads to the entry of its type.
LEMMA ReferenceAdmits ==
  ASSUME Unfolds, NEW d, d.kind \in Compound, NEW defs, Defined(d, defs),
         NEW v, NEW n \in Nat
  PROVE  Admitted(SchemaFor(d), defs, v, n)
           <=> IF d.kind = "SEQUENCE"
               THEN AdmitsSequence(Entry(d), defs, v, n)
               ELSE AdmitsChoice(Entry(d), defs, v, n)
  <1>1. SchemaFor(d) = Reference(d.type) /\ defs[d.type] = Entry(d)
    BY DEF SchemaFor, Defined
  <1>2. Reference(d.type).kind = "REF" /\ Reference(d.type).type = d.type
    BY DEF Reference
  <1>3. Entry(d).kind = d.kind
    BY DEF Entry, Schema
  <1>4. Admitted(SchemaFor(d), defs, v, n) = Admitted(Entry(d), defs, v, n)
    <2>1. AdmitsValue(SchemaFor(d), defs, v, n)
            = Admitted(Entry(d), defs, v, n)
      BY <1>1, <1>2 DEF AdmitsValue
    <2> QED
      BY <2>1, AdmittedUnfolds
  <1>5. AdmitsValue(Entry(d), defs, v, n)
           <=> IF d.kind = "SEQUENCE"
               THEN AdmitsSequence(Entry(d), defs, v, n)
               ELSE AdmitsChoice(Entry(d), defs, v, n)
    BY <1>3 DEF AdmitsValue, Compound
  <1> QED
    BY <1>4, <1>5, AdmittedUnfolds

\* One value of an element that is no choice.
LEMMA ItemsAgree ==
  ASSUME Unfolds, NEW p, PlainNode(p), p.kind # "CHOICE",
         NEW defs, Defined(p, defs), NEW depth \in Nat, depth <= MaxNesting,
         p.kind = "SEQUENCE" => ObjectsAgree(p, defs, depth + 1),
         NEW v \in Values, NEW m, Strict(m)
  PROVE  Same(ValidItem(p, v, m, depth), v,
              Admitted(SchemaFor(p), defs, v, MaxNesting - depth))
  <1>1. PICK n \in Nat : n = MaxNesting - depth /\ n = MaxNesting + 1 - (depth + 1)
    BY LimitsAssumption
  <1>2. CASE p.kind # "SEQUENCE"
    <2>1. p.kind \notin Compound \cup {"REF", "ANY_OBJECT"}
      BY <1>2 DEF PlainNode, Compound
    <2>2. SchemaFor(p) = Schema(JsonType(p.kind), <<>>)
      BY <2>1 DEF SchemaFor
    <2>3. ValidItem(p, v, m, depth) = ValidScalar(p.kind, v)
      BY <1>2 DEF ValidItem
    <2>4. Same(ValidScalar(p.kind, v), v,
               Admitted(Schema(JsonType(p.kind), <<>>), defs, v, n))
      BY ScalarsAgree
    <2> QED
      BY <1>1, <2>2, <2>3, <2>4, Zenon
  <1>3. CASE p.kind = "SEQUENCE"
    <2>1. CASE IsObject(v)
      <3>1. ValidItem(p, v, m, depth) = Validated(p, v, m, depth + 1)
        BY <1>3, <2>1, Zenon DEF ValidItem, Deeper
      <3>2. Same(Validated(p, v, m, depth + 1), v,
                 Admitted(SchemaFor(p), defs, v, MaxNesting + 1 - (depth + 1)))
        BY <1>3, Zenon DEF ObjectsAgree
      <3> QED
        BY <1>1, <3>1, <3>2, Zenon
    <2>2. CASE ~IsObject(v)
      <3>1. ValidItem(p, v, m, depth) = Invalid
        BY <1>3, <2>2, Zenon DEF ValidItem
      <3>2. ~AdmitsSequence(Entry(p), defs, v, n)
        BY <2>2, Zenon DEF AdmitsSequence
      <3>3. ~Admitted(SchemaFor(p), defs, v, n)
        BY <1>3, <3>2, ReferenceAdmits DEF Compound
      <3> QED
        BY <1>1, <3>1, <3>3, Zenon DEF Same
    <2> QED
      BY <2>1, <2>2
  <1> QED
    BY <1>2, <1>3

\* What is no value is no item either.
LEMMA InvalidIsNoItem ==
  ASSUME NEW p, NEW m, NEW depth
  PROVE  ValidItem(p, Invalid, m, depth) = Invalid
  <1>1. ~IsObject(Invalid) /\ ValidScalar(p.kind, Invalid) = Invalid
    BY DEF IsObject, ValidScalar, Invalid
  <1> QED
    BY <1>1, Zenon DEF ValidItem

ListAdmitted(p, defs, v, n) ==
  /\ IsList(v)
  /\ Len(v.items) >= p.min
  /\ p.max # Unbounded => Len(v.items) <= p.max
  /\ \A i \in DOMAIN v.items : Admitted(SchemaFor(p), defs, v.items[i], n)

LEMMA ArraysAgree ==
  ASSUME Unfolds, NEW p, PlainNode(p), p.kind # "CHOICE",
         NEW defs, Defined(p, defs), NEW depth \in Nat, depth <= MaxNesting,
         p.kind = "SEQUENCE" => ObjectsAgree(p, defs, depth + 1),
         NEW v \in Values, NEW m, Strict(m)
  PROVE  Same(ValidArray(p, v, m, depth), v,
              ListAdmitted(p, defs, v, MaxNesting - depth))
  <1> DEFINE items == Items(p, v, m.strict)
             valid == [i \in DOMAIN items |-> ValidItem(p, items[i], m, depth)]
  <1>1. CASE ~IsList(v)
    <2>1. items = <<Invalid>>
      BY <1>1, Zenon DEF Items, Strict
    <2>2. 1 \in DOMAIN items /\ items[1] = Invalid
      BY <2>1
    <2>3. valid[1] = Invalid
      BY <2>2, InvalidIsNoItem
    <2> HIDE DEF items
    <2>4. ValidArray(p, v, m, depth) = Invalid
      BY <2>2, <2>3, Zenon DEF ValidArray, items
    <2> QED
      BY <1>1, <2>4, Zenon DEF Same, ListAdmitted
  <1>2. CASE IsList(v)
    <2>1. items = v.items
      BY <1>2, Zenon DEF Items
    <2>2. v = List(v.items) /\ v.items \in Seq(Values)
      BY <1>2, ListValue
    <2>3. ASSUME NEW i \in DOMAIN v.items
          PROVE  Same(valid[i], v.items[i],
                      Admitted(SchemaFor(p), defs, v.items[i],
                               MaxNesting - depth))
      <3>1. v.items[i] \in Values
        BY <2>2
      <3>2. Same(ValidItem(p, v.items[i], m, depth), v.items[i],
                 Admitted(SchemaFor(p), defs, v.items[i], MaxNesting - depth))
        BY <3>1, ItemsAgree
      <3>3. valid[i] = ValidItem(p, v.items[i], m, depth)
        BY <2>1
      <3> HIDE DEF valid
      <3> QED
        BY <3>2, <3>3, Zenon
    <2>4. DOMAIN valid = DOMAIN v.items
      BY <2>1
    <2>5. /\ TooFew(p, v.items) <=> ~(Len(v.items) >= p.min)
          /\ TooMany(p, v.items)
               <=> ~(p.max # Unbounded => Len(v.items) <= p.max)
      <3>1. Len(v.items) \in Nat /\ p.min \in Nat /\ p.max \in Nat
        BY <2>2 DEF PlainNode
      <3> HIDE DEF items, valid
      <3> QED
        BY <3>1 DEF TooFew, TooMany
    <2>6. valid = [i \in DOMAIN valid |-> valid[i]]
      OBVIOUS
    <2>7. ValidArray(p, v, m, depth)
            = IF TooMany(p, v.items) \/ TooFew(p, v.items)
                 \/ \E i \in DOMAIN v.items : valid[i] = Invalid
              THEN Invalid ELSE List(valid)
      <3>1. ValidArray(p, v, m, depth)
              = IF TooMany(p, items) \/ TooFew(p, items)
                   \/ \E i \in DOMAIN items : valid[i] = Invalid
                THEN Invalid ELSE List(valid)
        BY Zenon DEF ValidArray
      <3> HIDE DEF valid, items
      <3> QED
        BY <2>1, <3>1, Zenon
    <2> HIDE DEF valid
    <2>8. List(valid) # Invalid
      BY DEF List, Invalid
    <2>9. ASSUME \A i \in DOMAIN v.items : valid[i] # Invalid
          PROVE  List(valid) = v
      <3>1. \A i \in DOMAIN v.items : valid[i] = v.items[i]
        BY <2>3, <2>9, Zenon DEF Same
      <3>2. v.items = [i \in DOMAIN v.items |-> v.items[i]]
        BY <2>2
      <3>3. valid = v.items
        BY <2>4, <2>6, <3>1, <3>2
      <3> QED
        BY <2>2, <3>3, Zenon
    <2> DEFINE Fits(i) == Admitted(SchemaFor(p), defs, v.items[i],
                                   MaxNesting - depth)
    <2>10. ASSUME NEW i \in DOMAIN v.items
           PROVE  valid[i] # Invalid => Fits(i)
      BY <2>3, Zenon DEF Same
    <2>11. ASSUME NEW i \in DOMAIN v.items, InRange(v), Fits(i)
           PROVE  valid[i] # Invalid
      <3>1. InRange(v.items[i])
        BY <1>2, <2>11, InRangeBelow
      <3> QED
        BY <2>3, <2>11, <3>1, Zenon DEF Same
    <2>12. ListAdmitted(p, defs, v, MaxNesting - depth)
             <=> /\ ~TooFew(p, v.items) /\ ~TooMany(p, v.items)
                 /\ \A i \in DOMAIN v.items : Fits(i)
      BY <1>2, <2>5, Zenon DEF ListAdmitted
    <2> HIDE DEF Fits
    <2> QED
      BY <2>7, <2>8, <2>9, <2>10, <2>11, <2>12, Zenon DEF Same
  <1> QED
    BY <1>1, <1>2

\* A choice of scalars.
LEMMA ChoicesAgree ==
  ASSUME Unfolds, NEW p, PlainNode(p), p.kind = "CHOICE",
         NEW defs, Defined(p, defs), NEW depth \in Nat, NEW n \in Nat,
         NEW v \in Values, NEW m
  PROVE  Same(ValidChoice(p, v, m, depth), v,
              Admitted(SchemaFor(p), defs, v, n))
  <1> DEFINE name == CHOOSE k \in Keys(v) : TRUE
             branches == {q \in Parts(p) : q.name = name}
             branch == CHOOSE q \in branches : TRUE
             scalar == ValidScalar(branch.kind, v.map[name])
  <1>1. Admitted(SchemaFor(p), defs, v, n)
          <=> AdmitsChoice(Entry(p), defs, v, n)
    BY ReferenceAdmits DEF Compound
  <1>2. CASE ~IsObject(v) \/ Cardinality(Keys(v)) # 1
    BY <1>1, <1>2, Zenon DEF Same, ValidChoice, AdmitsChoice
  <1>3. CASE IsObject(v) /\ Cardinality(Keys(v)) = 1
    <2>1. Keys(v) = {name}
      <3>1. Keys(v) # {}
        BY <1>3, FS_EmptySet
      <3>2. name \in Keys(v)
        BY <3>1
      <3>3. PICK k : Keys(v) = {k}
        <4>1. IsFiniteSet(Keys(v))
          BY <1>3, ObjectValue
        <4> QED
          BY <1>3, <4>1, FS_Singleton
      <3> HIDE DEF name
      <3> QED
        BY <3>2, <3>3
    <2>2. v = Object([k \in {name} |-> v.map[name]])
      <3>1. v = Object([k \in Keys(v) |-> v.map[k]])
        BY <1>3, ObjectValue
      <3> HIDE DEF name
      <3>2. [k \in Keys(v) |-> v.map[k]] = [k \in {name} |-> v.map[name]]
        BY <2>1
      <3> QED
        BY <3>1, <3>2, Zenon
    <2>3. ASSUME NEW q \in Parts(p)
          PROVE  LET admitted == AdmitsProperty(Property(p, q, SchemaFor(q)),
                                                defs, v.map[name], n)
                     valid == ValidScalar(q.kind, v.map[name]) # Invalid
                 IN  /\ valid => admitted
                     /\ admitted /\ InRange(v) => valid
      <3>1. q.kind \notin Compound \cup {"REF", "ANY_OBJECT"}
        BY DEF PlainNode
      <3>2. SchemaFor(q) = Schema(JsonType(q.kind), <<>>)
        BY <3>1 DEF SchemaFor
      <3>3. /\ Property(p, q, SchemaFor(q)).many = FALSE
            /\ Property(p, q, SchemaFor(q)).schema = SchemaFor(q)
        BY DEF Property
      <3>4. Same(ValidScalar(q.kind, v.map[name]), v.map[name],
                 Admitted(Schema(JsonType(q.kind), <<>>), defs, v.map[name], n))
        BY ScalarsAgree
      <3>5. InRange(v) => InRange(v.map[name])
        BY <1>3, <2>1, InRangeBelow
      <3> HIDE DEF name
      <3> QED
        BY <3>2, <3>3, <3>4, <3>5, Zenon DEF AdmitsProperty, Same
    <2>4. /\ (\E q \in branches : ValidScalar(q.kind, v.map[name]) # Invalid)
               => AdmitsChoice(Entry(p), defs, v, n)
          /\ AdmitsChoice(Entry(p), defs, v, n) /\ InRange(v) =>
               \E q \in branches : ValidScalar(q.kind, v.map[name]) # Invalid
      <3>1. Props(Entry(p)) = {Property(p, q, SchemaFor(q)) : q \in Parts(p)}
        BY PropsOfEntry
      <3>2. \A q : Property(p, q, SchemaFor(q)).name = q.name
        BY DEF Property
      <3> HIDE DEF name
      <3>3. AdmitsChoice(Entry(p), defs, v, n)
              <=> \E q \in Parts(p) :
                    /\ q.name = name
                    /\ AdmitsProperty(Property(p, q, SchemaFor(q)), defs,
                                      v.map[name], n)
        <4>1. AdmitsChoice(Entry(p), defs, v, n)
                <=> \E x \in Props(Entry(p)) :
                      /\ x.name = name
                      /\ AdmitsProperty(x, defs, v.map[name], n)
          BY <1>3, <2>1, Zenon DEF AdmitsChoice
        <4> QED
          BY <3>1, <3>2, <4>1, Zenon
      <3> QED
        BY <2>3, <3>3, Zenon
    <2>5. CASE branches = {}
      <3>1. ValidChoice(p, v, m, depth) = Invalid
        BY <2>5, Zenon DEF ValidChoice
      <3> HIDE DEF branches
      <3> QED
        BY <1>1, <2>4, <2>5, <3>1, Zenon DEF Same
    <2>6. CASE branches # {}
      <3>1. branch \in branches
        BY <2>6
      <3>2. \A q \in branches : q = branch
        BY <3>1, Zenon DEF PlainNode
      <3>3. branch.kind # "SEQUENCE"
        BY <3>1 DEF PlainNode, Compound
      <3>4. ValidChoice(p, v, m, depth)
              = IF scalar = Invalid THEN Invalid
                ELSE Object([k \in {name} |-> scalar])
        BY <1>3, <2>6, <3>3, Zenon DEF ValidChoice
      <3>5. scalar # Invalid => scalar = v.map[name]
        BY Zenon DEF ValidScalar
      <3>6. /\ scalar # Invalid => AdmitsChoice(Entry(p), defs, v, n)
            /\ AdmitsChoice(Entry(p), defs, v, n) /\ InRange(v) =>
                 scalar # Invalid
        BY <2>4, <3>1, <3>2, Zenon
      <3> HIDE DEF name, branch, branches, scalar
      <3>7. CASE scalar = Invalid
        BY <1>1, <3>4, <3>6, <3>7, Zenon DEF Same
      <3>8. CASE scalar # Invalid
        <4>1. ValidChoice(p, v, m, depth) = v
          BY <2>2, <3>4, <3>5, <3>8, Zenon
        <4>2. v # Invalid
          BY <1>3 DEF IsObject, Invalid
        <4> QED
          BY <1>1, <3>6, <3>8, <4>1, <4>2, Zenon DEF Same
      <3> QED
        BY <3>7, <3>8
    <2> QED
      BY <2>5, <2>6
  <1> QED
    BY <1>2, <1>3

\* An element of a sequence.
LEMMA ElementAgrees ==
  ASSUME Unfolds, NEW d, d.kind = "SEQUENCE", NEW p, PlainNode(p),
         NEW defs, Defined(p, defs), NEW depth \in Nat, depth <= MaxNesting,
         p.kind = "SEQUENCE" => ObjectsAgree(p, defs, depth + 1)
  PROVE  ElementsAgree(d, p, defs, depth)
  <1> SUFFICES ASSUME NEW v \in Values, NEW m, Strict(m)
               PROVE  Same(ValidElement(p, v, m, depth), v,
                           AdmitsProperty(Property(d, p, SchemaFor(p)), defs,
                                          v, MaxNesting - depth))
    BY Zenon DEF ElementsAgree
  <1> DEFINE property == Property(d, p, SchemaFor(p))
             n == MaxNesting - depth
  <1>1. /\ property.many <=> p.max # 1
        /\ property.min = p.min /\ property.max = p.max
        /\ property.schema = SchemaFor(p)
    BY DEF Property
  <1>2. n \in Nat
    BY LimitsAssumption
  <1> HIDE DEF property, n
  <1>3. CASE p.kind = "CHOICE"
    <2>1. p.max = 1
      BY <1>3 DEF PlainNode
    <2>2. AdmitsProperty(property, defs, v, n)
            <=> Admitted(SchemaFor(p), defs, v, n)
      BY <1>1, <2>1, Zenon DEF AdmitsProperty
    <2>3. ValidElement(p, v, m, depth) = ValidChoice(p, v, m, depth)
      BY <1>3, Zenon DEF ValidElement
    <2>4. Same(ValidChoice(p, v, m, depth), v,
               Admitted(SchemaFor(p), defs, v, n))
      BY <1>2, <1>3, ChoicesAgree
    <2> QED
      BY <2>2, <2>3, <2>4, Zenon DEF Same, property, n
  <1>4. CASE p.kind # "CHOICE" /\ p.max = 1
    <2>1. ValidElement(p, v, m, depth)
            = ValidItem(p, Single(v, m.strict), m, depth)
      BY <1>4, Zenon DEF ValidElement
    <2>2. AdmitsProperty(property, defs, v, n)
            <=> Admitted(SchemaFor(p), defs, v, n)
      BY <1>1, <1>4, Zenon DEF AdmitsProperty
    <2>3. Same(ValidItem(p, v, m, depth), v,
               Admitted(SchemaFor(p), defs, v, n))
      BY <1>4, ItemsAgree DEF n
    <2>4. CASE ~IsList(v)
      <3>1. Single(v, m.strict) = v
        BY <2>4, Zenon DEF Single
      <3> QED
        BY <2>1, <2>2, <2>3, <3>1, Zenon DEF Same, property, n
    <2>5. CASE IsList(v)
      <3>1. Single(v, m.strict) = Invalid
        BY <2>5, Zenon DEF Single, Strict
      <3>2. ValidElement(p, v, m, depth) = Invalid
        BY <2>1, <3>1, InvalidIsNoItem, Zenon
      <3>3. ValidItem(p, v, m, depth) = Invalid
        <4>1. ~IsObject(v) /\ v.kind # "SCALAR"
          BY <2>5 DEF IsList, IsObject
        <4> QED
          BY <4>1, Zenon DEF ValidItem, ValidScalar
      <3> QED
        BY <2>2, <2>3, <3>2, <3>3, Zenon DEF Same, property, n
    <2> QED
      BY <2>4, <2>5
  <1>5. CASE p.kind # "CHOICE" /\ p.max # 1
    <2>1. ValidElement(p, v, m, depth) = ValidArray(p, v, m, depth)
      BY <1>5, Zenon DEF ValidElement
    <2>2. AdmitsProperty(property, defs, v, n) <=> ListAdmitted(p, defs, v, n)
      BY <1>1, <1>5, Zenon DEF AdmitsProperty, ListAdmitted
    <2>3. Same(ValidArray(p, v, m, depth), v, ListAdmitted(p, defs, v, n))
      BY <1>5, ArraysAgree DEF n
    <2> QED
      BY <2>1, <2>2, <2>3, Zenon DEF Same, property, n
  <1> QED
    BY <1>3, <1>4, <1>5

\* The keys of an object of a descriptor without aliases.
LEMMA PlainKeys ==
  ASSUME NEW d, PlainNode(d), NEW v \in Values, IsObject(v)
  PROVE  /\ Known(d, v) = Keys(v) \cap Names(d)
         /\ Given(d, v) = Known(d, v)
         /\ \A k \in Known(d, v) :
              /\ Target(d, k) \in Parts(d) /\ Target(d, k).name = k
              /\ Source(d, v, k) = k
  <1>1. ASSUME NEW k \in Keys(v), k \in Names(d)
        PROVE  /\ Meant(d, k) # {}
               /\ Target(d, k) \in Parts(d) /\ Target(d, k).name = k
    <2>1. PICK p \in Parts(d) : p.name = k
      BY <1>1 DEF Names
    <2>2. Meant(d, k) = {q \in Parts(d) : q.name = k}
      BY <1>1, Zenon DEF Meant
    <2>3. Meant(d, k) # {}
      BY <2>1, <2>2
    <2> QED
      BY <2>2, <2>3 DEF Target
  <1>2. ASSUME NEW k \in Keys(v), k \notin Names(d)
        PROVE  Meant(d, k) = {}
    <2>1. k # NoAlias
      BY ObjectValue
    <2>2. {i \in DOMAIN d.parts : d.parts[i].alias = k} = {}
      BY <2>1 DEF PlainNode
    <2> QED
      BY <1>2, <2>2 DEF Meant
  <1>3. Known(d, v) = Keys(v) \cap Names(d)
    BY <1>1, <1>2, Zenon DEF Known
  <1>4. Given(d, v) = Known(d, v)
    BY <1>1, <1>3 DEF Given
  <1>5. ASSUME NEW k \in Known(d, v)
        PROVE  Source(d, v, k) = k
    <2>1. \A j \in Known(d, v) : Target(d, j).name = j
      BY <1>1, <1>3
    <2> QED
      BY <2>1 DEF Source
  <1> QED
    BY <1>1, <1>3, <1>4, <1>5

\* An object, if its elements agree.
LEMMA ObjectAgrees ==
  ASSUME Unfolds, NEW d, d.kind = "SEQUENCE", PlainNode(d),
         NEW defs, Defined(d, defs), NEW depth \in Nat, depth <= MaxNesting,
         \A p \in Parts(d) : ElementsAgree(d, p, defs, depth)
  PROVE  ObjectsAgree(d, defs, depth)
  <1> SUFFICES ASSUME NEW v \in Values, NEW m, Strict(m)
               PROVE  Same(Validated(d, v, m, depth), v,
                           Admitted(SchemaFor(d), defs, v,
                                    MaxNesting + 1 - depth))
    BY Zenon DEF ObjectsAgree
  <1> DEFINE Prop(p) == Property(d, p, SchemaFor(p))
             Fits(p) == AdmitsProperty(Prop(p), defs, v.map[p.name],
                                       MaxNesting - depth)
  <1>1. PICK n \in Nat : /\ n = MaxNesting + 1 - depth /\ n > 0
                         /\ n - 1 = MaxNesting - depth
    BY LimitsAssumption
  <1>2. Validated(d, v, m, depth) = ValidObject(d, v, m, depth)
    BY ValidatedUnfolds
  <1>3. Admitted(SchemaFor(d), defs, v, n)
          <=> AdmitsSequence(Entry(d), defs, v, n)
    BY ReferenceAdmits DEF Compound
  <1>4. CASE ~IsObject(v)
    BY <1>1, <1>2, <1>3, <1>4, Zenon DEF Same, ValidObject, AdmitsSequence
  <1>5. CASE IsObject(v)
    <2>1. AdmitsSequence(Entry(d), defs, v, n)
            <=> /\ Keys(v) \subseteq Names(d)
                /\ Required(d) \subseteq Keys(v)
                /\ \A p \in Parts(d) : p.name \in Keys(v) => Fits(p)
      <3>1. Props(Entry(d)) = {Prop(p) : p \in Parts(d)}
        BY PropsOfEntry
      <3>2. \A p : Prop(p).name = p.name /\ (Prop(p).required <=> p.min >= 1)
        BY DEF Property
      <3> HIDE DEF Prop
      <3>3. {x.name : x \in Props(Entry(d))} = Names(d)
        BY <3>1, <3>2 DEF Names
      <3>4. (\A x \in Props(Entry(d)) :
               /\ x.required => x.name \in Keys(v)
               /\ x.name \in Keys(v) =>
                    AdmitsProperty(x, defs, v.map[x.name], MaxNesting - depth))
              <=> /\ \A p \in Parts(d) : p.min >= 1 => p.name \in Keys(v)
                  /\ \A p \in Parts(d) : p.name \in Keys(v) => Fits(p)
        BY <3>1, <3>2, Zenon
      <3>5. Required(d) \subseteq Keys(v)
              <=> \A p \in Parts(d) : p.min >= 1 => p.name \in Keys(v)
        BY DEF Required
      <3> HIDE DEF Fits
      <3> QED
        BY <1>1, <1>5, <3>3, <3>4, <3>5, Zenon DEF AdmitsSequence
    <2> DEFINE Answer(k) == ValidElement(Target(d, Source(d, v, k)),
                                         v.map[Source(d, v, k)], m, depth)
               result == [k \in Given(d, v) |-> Answer(k)]
    <2>2. /\ Known(d, v) = Keys(v) \cap Names(d) /\ Given(d, v) = Known(d, v)
          /\ \A k \in Known(d, v) :
               /\ Target(d, k) \in Parts(d) /\ Target(d, k).name = k
               /\ Source(d, v, k) = k
      BY <1>5, PlainKeys
    <2>3. ASSUME NEW p \in Parts(d), p.name \in Keys(v)
          PROVE  /\ p.name \in Given(d, v)
                 /\ Fits(p) /\ InRange(v) => result[p.name] # Invalid
                 /\ result[p.name] # Invalid =>
                      Fits(p) /\ result[p.name] = v.map[p.name]
      <3>1. p.name \in Known(d, v)
        BY <2>2, <2>3 DEF Names
      <3>2. Target(d, p.name) = p /\ Source(d, v, p.name) = p.name
        BY <2>2, <3>1 DEF PlainNode
      <3>3. result[p.name] = ValidElement(p, v.map[p.name], m, depth)
        <4>1. result[p.name] = Answer(p.name)
          BY <2>2, <3>1
        <4> HIDE DEF result
        <4> QED
          BY <3>2, <4>1, Zenon
      <3>4. v.map[p.name] \in Values
        BY <1>5, <2>3, ObjectValue
      <3>5. Same(ValidElement(p, v.map[p.name], m, depth), v.map[p.name],
                 Fits(p))
        BY <3>4, Zenon DEF ElementsAgree
      <3>6. InRange(v) => InRange(v.map[p.name])
        BY <1>5, <2>3, InRangeBelow
      <3> HIDE DEF result, Fits
      <3> QED
        BY <2>2, <3>1, <3>3, <3>5, <3>6, Zenon DEF Same
    <2>4. Validated(d, v, m, depth)
            = IF /\ Keys(v) \subseteq Names(d)
                 /\ Required(d) \subseteq Keys(v)
                 /\ \A k \in Given(d, v) : result[k] # Invalid
              THEN Object(result) ELSE Invalid
      <3>1. ValidObject(d, v, m, depth)
              = IF /\ Known(d, v) = Keys(v)
                   /\ Cardinality(Given(d, v)) = Cardinality(Known(d, v))
                   /\ Required(d) \subseteq Given(d, v)
                   /\ \A k \in Given(d, v) : result[k] # Invalid
                THEN Object(result) ELSE Invalid
        BY <1>5, Zenon DEF ValidObject, Strict
      <3>2. Known(d, v) = Keys(v) <=> Keys(v) \subseteq Names(d)
        BY <2>2
      <3>3. Cardinality(Given(d, v)) = Cardinality(Known(d, v))
        BY <2>2, Zenon
      <3>4. Known(d, v) = Keys(v) =>
              (Required(d) \subseteq Given(d, v)
                 <=> Required(d) \subseteq Keys(v))
        BY <2>2, Zenon
      <3> HIDE DEF result
      <3> QED
        BY <1>2, <3>1, <3>2, <3>3, <3>4, Zenon
    <2>5. LET valid == \A k \in Given(d, v) : result[k] # Invalid
              fit == \A p \in Parts(d) : p.name \in Keys(v) => Fits(p)
          IN  (valid => fit) /\ (fit /\ InRange(v) => valid)
      <3>1. \A k \in Given(d, v) :
              \E p \in Parts(d) : p.name = k /\ p.name \in Keys(v)
        BY <2>2
      <3> HIDE DEF result, Fits
      <3> QED
        BY <2>3, <3>1, Zenon
    <2>6. ASSUME Keys(v) \subseteq Names(d),
                 \A k \in Given(d, v) : result[k] # Invalid
          PROVE  Object(result) = v
      <3>1. Given(d, v) = Keys(v)
        BY <2>2, <2>6
      <3>2. \A k \in Keys(v) : result[k] = v.map[k]
        <4>1. \A k \in Keys(v) :
                \E p \in Parts(d) : p.name = k /\ p.name \in Keys(v)
          BY <2>6 DEF Names
        <4> HIDE DEF result
        <4> QED
          BY <2>3, <2>6, <3>1, <4>1, Zenon
      <3>3. result = [k \in Given(d, v) |-> result[k]]
        OBVIOUS
      <3> HIDE DEF result
      <3>4. result = [k \in Keys(v) |-> v.map[k]]
        BY <3>1, <3>2, <3>3
      <3> QED
        BY <1>5, <3>4, ObjectValue
    <2>7. Object(result) # Invalid
      <3> HIDE DEF result
      <3> QED
        BY DEF Object, Invalid
    <2> HIDE DEF result, Fits
    <2>8. LET valid == /\ Keys(v) \subseteq Names(d)
                       /\ Required(d) \subseteq Keys(v)
                       /\ \A k \in Given(d, v) : result[k] # Invalid
              admitted == Admitted(SchemaFor(d), defs, v, n)
          IN  (valid => admitted) /\ (admitted /\ InRange(v) => valid)
      BY <1>3, <2>1, <2>5, Zenon
    <2>9. Same(Validated(d, v, m, depth), v, Admitted(SchemaFor(d), defs, v, n))
      BY <2>4, <2>6, <2>7, <2>8, Zenon DEF Same
    <2> QED
      BY <1>1, <2>9, Zenon
  <1> QED
    BY <1>4, <1>5

\* On the deepest level nothing is left.
LEMMA NothingLeft ==
  ASSUME Unfolds, NEW d, d.kind = "SEQUENCE", NEW defs, Defined(d, defs)
  PROVE  ObjectsAgree(d, defs, MaxNesting + 1)
  <1> SUFFICES ASSUME NEW v \in Values, NEW m
               PROVE  Same(Validated(d, v, m, MaxNesting + 1), v,
                           Admitted(SchemaFor(d), defs, v,
                                    MaxNesting + 1 - (MaxNesting + 1)))
    BY Zenon DEF ObjectsAgree
  <1>1. /\ MaxNesting + 1 - (MaxNesting + 1) = 0 /\ 0 \in Nat /\ ~(0 > 0)
        /\ MaxNesting + 1 \in Nat /\ MaxNesting + 1 > MaxNesting
    BY LimitsAssumption
  <1>2. Validated(d, v, m, MaxNesting + 1) = Invalid
    BY <1>1, NothingBelow
  <1>3. ~AdmitsSequence(Entry(d), defs, v, 0)
    BY <1>1, Zenon DEF AdmitsSequence
  <1>4. ~Admitted(SchemaFor(d), defs, v, 0)
    BY <1>1, <1>3, ReferenceAdmits DEF Compound
  <1> QED
    BY <1>1, <1>2, <1>4, Zenon DEF Same

LEMMA AllAgree ==
  ASSUME Unfolds, Published, NEW v \in PlainVersions
  PROVE  \A d \in Nodes[v], depth \in 0..MaxNesting :
           d.kind = "SEQUENCE" => ObjectsAgree(d, SchemaOf[v].defs, depth)
  <1> DEFINE defs == SchemaOf[v].defs
             Bad == {depth \in 0..MaxNesting : \E d \in Nodes[v] :
                       d.kind = "SEQUENCE" /\ ~ObjectsAgree(d, defs, depth)}
  <1> SUFFICES ASSUME Bad # {} PROVE FALSE
    OBVIOUS
  <1>1. v \in Versions /\ v \in FlatVersions /\ Closed(Nodes[v])
    BY TreesAssumption DEF PlainVersions, FlatVersions, Closed
  <1>2. ASSUME NEW d \in Nodes[v]
        PROVE  PlainNode(d) /\ Defined(d, defs)
    <2>1. Defined(d, defs)
      BY Zenon DEF Published, Defined, Entry
    <2>2. /\ d.kind \notin {"REF", "ANY_OBJECT"} /\ d.min \in Nat /\ d.max \in Nat
          /\ \A p, q \in Parts(d) : p.name = q.name => p = q
      BY <1>1, TreesAssumption
    <2>3. ASSUME NEW i \in DOMAIN d.parts
          PROVE  d.parts[i].alias = NoAlias
      <3>1. d.parts[i] \in Nodes[v]
        BY <1>1 DEF Closed, Parts
      <3> QED
        BY <3>1, Zenon DEF PlainVersions
    <2>4. ASSUME d.kind = "CHOICE"
          PROVE  d.max = 1 /\ \A p \in Parts(d) :
                   p.kind \notin Compound \cup {"REF", "ANY_OBJECT"}
      <3>1. d.max = 1
        BY <2>4, Zenon DEF PlainVersions
      <3>2. ASSUME NEW p \in Parts(d)
            PROVE  p.kind \notin Compound /\ p.kind \notin {"REF", "ANY_OBJECT"}
        <4>1. p \in Nodes[v]
          BY <1>1 DEF Closed
        <4>2. p.kind \notin {"REF", "ANY_OBJECT"}
          BY <1>1, <4>1, TreesAssumption
        <4>3. p.kind \notin Compound
          BY <1>1, <2>4, Zenon DEF FlatVersions
        <4> QED
          BY <4>2, <4>3
      <3> QED
        BY <3>1, <3>2
    <2> QED
      BY <2>1, <2>2, <2>3, <2>4, Zenon DEF PlainNode
  <1>3. PICK depth \in Bad : \A deeper \in Bad : deeper <= depth
    <2>1. Bad \subseteq 0..MaxNesting
      OBVIOUS
    <2> HIDE DEF Bad
    <2> QED
      BY <2>1, DeepestLevel, LimitsAssumption
  <1>4. PICK d \in Nodes[v] :
          d.kind = "SEQUENCE" /\ ~ObjectsAgree(d, defs, depth)
    OBVIOUS
  <1>5. depth \in Nat /\ depth <= MaxNesting
    BY LimitsAssumption
  <1>6. ASSUME NEW p \in Nodes[v], p.kind = "SEQUENCE"
        PROVE  ObjectsAgree(p, defs, depth + 1)
    <2>1. CASE depth + 1 <= MaxNesting
      <3>1. depth + 1 \in 0..MaxNesting /\ ~(depth + 1 <= depth)
        BY <1>5, <2>1, LimitsAssumption
      <3> QED
        BY <1>3, <1>6, <3>1
    <2>2. CASE depth + 1 = MaxNesting + 1
      <3>1. ObjectsAgree(p, defs, MaxNesting + 1)
        BY <1>2, <1>6, NothingLeft
      <3> QED
        BY <2>2, <3>1, Zenon
    <2> QED
      BY <1>5, <2>1, <2>2, LimitsAssumption
  <1> HIDE DEF Bad, defs
  <1>7. ASSUME NEW p \in Parts(d)
        PROVE  ElementsAgree(d, p, defs, depth)
    <2>1. p \in Nodes[v]
      BY <1>1 DEF Closed
    <2> QED
      BY <1>2, <1>4, <1>5, <1>6, <2>1, ElementAgrees
  <1> QED
    BY <1>2, <1>4, <1>5, <1>7, ObjectAgrees

-----------------------------------------------------------------------------
(* The way of the request                                                  *)

\* What the registry and the client hold are schemas of the operation.
TypeInvariant ==
  /\ native \in Versions /\ former \in Versions
  /\ cached \in Versions \cup {NoVersion}
  /\ hash \in Versions \cup {NoVersion}

\* What the validation returned, it returned for the schema of the hash.
AskedOfHash ==
  asked # Invalid =>
    /\ hash \in Versions /\ raw \in RawParameters
    /\ asked = Canonical(Tree[hash], raw, mode)

\* What is sent was accepted for the schema of the hash: the validated
\* parameters where there are any, else the raw ones.
SentOfHash ==
  canonical # Invalid =>
    /\ hash \in Versions
    /\ IF asked # Invalid
       THEN canonical = Canonical(Tree[hash], asked, PolicyMode)
       ELSE /\ raw \in RawParameters
            /\ canonical = Canonical(Tree[hash], raw, PolicyMode)

\* How far the request has come says what it carries.
StageTells ==
  /\ stage \in {"IDLE", "DESCRIBED"} => asked = Invalid
  /\ stage \in {"IDLE", "DESCRIBED", "VALIDATED"} => canonical = Invalid
  /\ stage = "VALIDATED" => asked # Invalid
  /\ stage = "RETURNED" =>
       asked # Invalid /\ Canonical(Tree[hash], asked, PolicyMode) = Invalid
  /\ stage \in {"QUEUED", "CHECKED", "MALFORMED"} => canonical # Invalid
  /\ stage = "MALFORMED" => ~Populated(Tree[hash], canonical)

\* What was refused under strict_types, a validation refused for this hash.
RefusedOfHash ==
  /\ stage \in {"IDLE", "DESCRIBED"} => mode = PolicyMode
  /\ stage = "REFUSED" /\ mode.strict =>
       /\ hash \in Versions /\ raw \in RawParameters
       /\ Canonical(Tree[hash], raw, mode) = Invalid

IInv ==
  TypeInvariant /\ AskedOfHash /\ SentOfHash /\ StageTells /\ RefusedOfHash

LEMMA InitHolds == Init => IInv
  BY TreesAssumption
     DEF Init, IInv, TypeInvariant, AskedOfHash, SentOfHash, StageTells,
         RefusedOfHash

\* What no step of the request touches stays as it was.
LEMMA SchemaSteps ==
  ASSUME IInv, SchemaChanges \/ SchemaStored
  PROVE  IInv'
  <1>1. /\ native' \in Versions /\ former' \in Versions
        /\ cached' \in Versions \cup {NoVersion}
        /\ UNCHANGED <<stage, raw, mode, hash, asked, canonical>>
    BY DEF SchemaChanges, SchemaStored, IInv, TypeInvariant
  <1>2. TypeInvariant'
    BY <1>1 DEF IInv, TypeInvariant
  <1>3. AskedOfHash' /\ SentOfHash'
    BY <1>1 DEF IInv, AskedOfHash, SentOfHash
  <1>4. StageTells' /\ RefusedOfHash'
    BY <1>1 DEF IInv, StageTells, RefusedOfHash
  <1> QED
    BY <1>2, <1>3, <1>4 DEF IInv

LEMMA DescribeStep ==
  ASSUME IInv, Describe
  PROVE  IInv'
  <1>1. /\ asked = Invalid /\ canonical = Invalid
        /\ stage' = "DESCRIBED" /\ hash' \in Versions
        /\ UNCHANGED <<native, former, cached, raw, mode, asked, canonical>>
    BY DEF Describe, IInv, TypeInvariant, StageTells, schemaVars
  <1>2. RefusedOfHash'
    BY <1>1 DEF Describe, IInv, RefusedOfHash, PolicyMode
  <1> QED
    BY <1>1, <1>2 DEF IInv, TypeInvariant, AskedOfHash, SentOfHash, StageTells

LEMMA ValidateStep ==
  ASSUME IInv, NEW p \in RawParameters, NEW options \in Modes,
         Validate(p, options)
  PROVE  IInv'
  <1> DEFINE m == Tightened(options)
             v == Canonical(Tree[cached], p, m)
  <1>1. /\ asked = Invalid /\ canonical = Invalid /\ canonical' = Invalid
        /\ cached \in Versions
        /\ UNCHANGED <<native, former, cached>>
    BY DEF Validate, IInv, TypeInvariant, StageTells, schemaVars
  <1>2. CASE Drifted
    <2>1. stage' = "DRIFT" /\ UNCHANGED <<raw, mode, hash, asked>>
      BY <1>2 DEF Validate
    <2> QED
      BY <1>1, <2>1
         DEF IInv, TypeInvariant, AskedOfHash, SentOfHash, StageTells,
             RefusedOfHash
  <1>3. CASE ~Drifted
    <2>1. /\ raw' = p /\ mode' = m /\ hash' = cached /\ asked' = v
          /\ stage' = IF v = Invalid THEN "REFUSED" ELSE "VALIDATED"
      BY <1>3 DEF Validate
    <2> HIDE DEF m, v
    <2>2. TypeInvariant'
      BY <1>1, <2>1 DEF IInv, TypeInvariant
    <2>3. AskedOfHash'
      BY <1>1, <2>1 DEF AskedOfHash, m, v
    <2>4. SentOfHash' /\ StageTells'
      BY <1>1, <2>1 DEF SentOfHash, StageTells
    <2>5. RefusedOfHash'
      BY <1>1, <2>1 DEF RefusedOfHash, m, v
    <2> QED
      BY <2>2, <2>3, <2>4, <2>5 DEF IInv
  <1> QED
    BY <1>2, <1>3

LEMMA SendStep ==
  ASSUME IInv, Send
  PROVE  IInv'
  <1>1. /\ stage = "VALIDATED" /\ asked # Invalid /\ canonical = Invalid
        /\ hash \in Versions
        /\ UNCHANGED <<native, former, cached, raw, mode, hash, asked>>
    BY DEF Send, IInv, AskedOfHash, StageTells, schemaVars
  <1>2. TypeInvariant' /\ AskedOfHash'
    BY <1>1 DEF IInv, TypeInvariant, AskedOfHash
  <1>3. CASE Drifted
    <2>1. stage' = "DRIFT" /\ canonical' = Invalid
      BY <1>1, <1>3 DEF Send
    <2> QED
      BY <1>1, <1>2, <2>1 DEF IInv, SentOfHash, StageTells, RefusedOfHash
  <1>4. CASE ~Drifted
    <2>1. hash = cached
      BY <1>1, <1>4, TreesAssumption DEF Drifted
    <2>2. /\ canonical' = Canonical(Tree[hash], asked, PolicyMode)
          /\ stage' = IF canonical' = Invalid THEN "RETURNED" ELSE "QUEUED"
      BY <1>4, <2>1 DEF Send
    <2>3. SentOfHash'
      BY <1>1, <2>2 DEF SentOfHash, PolicyMode
    <2>4. StageTells' /\ RefusedOfHash'
      BY <1>1, <2>2 DEF StageTells, RefusedOfHash, PolicyMode
    <2> QED
      BY <1>2, <2>3, <2>4 DEF IInv
  <1> QED
    BY <1>3, <1>4

LEMMA SendRawStep ==
  ASSUME IInv, NEW p \in RawParameters, SendRaw(p)
  PROVE  IInv'
  <1>1. /\ asked = Invalid /\ asked' = Invalid /\ cached \in Versions
        /\ raw' = p /\ hash' = cached
        /\ canonical' = Canonical(Tree[cached], p, PolicyMode)
        /\ stage' = IF canonical' = Invalid THEN "REFUSED" ELSE "QUEUED"
        /\ UNCHANGED <<native, former, cached>>
    BY DEF SendRaw, IInv, TypeInvariant, StageTells, schemaVars
  <1>2. TypeInvariant'
    BY <1>1 DEF IInv, TypeInvariant
  <1>3. AskedOfHash'
    BY <1>1 DEF AskedOfHash
  <1>4. SentOfHash'
    BY <1>1 DEF SentOfHash, PolicyMode
  <1>5. StageTells'
    BY <1>1 DEF StageTells
  <1>6. RefusedOfHash'
    <2>1. mode' = PolicyMode /\ ~PolicyMode.strict
      BY DEF SendRaw, IInv, RefusedOfHash, PolicyMode
    <2> QED
      BY <1>1, <2>1 DEF RefusedOfHash
  <1> QED
    BY <1>2, <1>3, <1>4, <1>5, <1>6 DEF IInv

LEMMA SubmitStep ==
  ASSUME IInv, Submit
  PROVE  IInv'
  <1>1. /\ canonical # Invalid /\ stage' \in {"CHECKED", "DRIFT"}
        /\ hash' = hash
        /\ UNCHANGED <<native, former, cached, raw, mode, asked, canonical>>
    BY DEF Submit, Recheck, IInv, StageTells, schemaVars
  <1>2. TypeInvariant' /\ StageTells' /\ RefusedOfHash'
    BY <1>1 DEF IInv, TypeInvariant, StageTells, RefusedOfHash
  <1>3. AskedOfHash' /\ SentOfHash'
    BY <1>1 DEF IInv, AskedOfHash, SentOfHash
  <1> QED
    BY <1>2, <1>3 DEF IInv

LEMMA BuildStep ==
  ASSUME IInv, Build
  PROVE  IInv'
  <1>1. /\ canonical # Invalid /\ stage' \in {"BUILT", "MALFORMED", "FAILED"}
        /\ stage' = "MALFORMED" => ~Populated(Tree[hash], canonical)
        /\ UNCHANGED <<native, former, cached, raw, mode, hash, asked,
                       canonical>>
    BY DEF Build, BuildTree, IInv, StageTells, schemaVars
  <1>2. TypeInvariant'
    BY <1>1 DEF IInv, TypeInvariant
  <1>3. AskedOfHash' /\ SentOfHash'
    BY <1>1 DEF IInv, AskedOfHash, SentOfHash
  <1>4. StageTells' /\ RefusedOfHash'
    BY <1>1 DEF StageTells, RefusedOfHash
  <1> QED
    BY <1>2, <1>3, <1>4 DEF IInv

LEMMA StepsPreserve == IInv /\ [Next]_vars => IInv'
  <1> SUFFICES ASSUME IInv, [Next]_vars PROVE IInv'
    OBVIOUS
  <1>1. CASE SchemaChanges \/ SchemaStored
    BY <1>1, SchemaSteps
  <1>2. CASE Describe
    BY <1>2, DescribeStep
  <1>3. CASE \E p \in RawParameters, m \in Modes : Validate(p, m)
    BY <1>3, ValidateStep
  <1>4. CASE Send
    BY <1>4, SendStep
  <1>5. CASE \E p \in RawParameters : SendRaw(p)
    BY <1>5, SendRawStep
  <1>6. CASE Submit
    BY <1>6, SubmitStep
  <1>7. CASE Build
    BY <1>7, BuildStep
  <1>8. CASE UNCHANGED vars
    <2>1. UNCHANGED <<native, former, cached, stage, raw, mode, hash, asked,
                      canonical>>
      BY <1>8 DEF vars, schemaVars
    <2>2. TypeInvariant' /\ AskedOfHash' /\ SentOfHash'
      BY <2>1 DEF IInv, TypeInvariant, AskedOfHash, SentOfHash
    <2>3. StageTells' /\ RefusedOfHash'
      BY <2>1 DEF IInv, StageTells, RefusedOfHash
    <2> QED
      BY <2>2, <2>3 DEF IInv
  <1> QED
    BY <1>1, <1>2, <1>3, <1>4, <1>5, <1>6, <1>7, <1>8 DEF Next

LEMMA AlwaysIInv == Spec => []IInv
  BY InitHolds, StepsPreserve, PTL DEF Spec

-----------------------------------------------------------------------------
(* Theorems *)

\* Of a schema of which every branch of every choice is a scalar, what was
\* validated is what is sent.
LEMMA SentAsAsked ==
  ASSUME Unfolds, IInv, hash \in FlatVersions, asked # Invalid
  PROVE  /\ Canonical(Tree[hash], asked, PolicyMode) = asked
         /\ Populated(Tree[hash], asked)
  <1>1. raw \in Values /\ asked = Canonical(Tree[hash], raw, mode)
    BY ValuesAssumption DEF IInv, AskedOfHash
  <1>2. /\ Populated(Tree[hash], asked)
        /\ \A m2 : Canonical(Tree[hash], asked, m2) = asked
    BY <1>1, CanonicalAgain
  <1> QED
    BY <1>2, Zenon

LEMMA SentIsBuilt ==
  ASSUME Unfolds, IInv, hash \in FlatVersions, canonical # Invalid
  PROVE  /\ Populated(Tree[hash], canonical)
         /\ asked # Invalid => canonical = asked
  <1>1. CASE asked # Invalid
    <2>1. canonical = Canonical(Tree[hash], asked, PolicyMode)
      BY <1>1 DEF IInv, SentOfHash
    <2>2. canonical = asked /\ Populated(Tree[hash], asked)
      BY <1>1, <2>1, SentAsAsked
    <2> QED
      BY <2>2, Zenon
  <1>2. CASE asked = Invalid
    <2>1. /\ raw \in Values
          /\ canonical = Canonical(Tree[hash], raw, PolicyMode)
      BY <1>2, ValuesAssumption DEF IInv, SentOfHash
    <2>2. Populated(Tree[hash], canonical)
      BY <2>1, CanonicalAgain
    <2> QED
      BY <1>2, <2>2
  <1> QED
    BY <1>1, <1>2

\* An accepted request is never malformed, however often the schema changes
\* while it waits: the builder walks the tree the request was checked with.
THEOREM AcceptedSafe ==
  ASSUME Unfolds
  PROVE  Spec => []AcceptedIsBuilt
  <1>1. IInv => AcceptedIsBuilt
    BY SentIsBuilt DEF IInv, StageTells, AcceptedIsBuilt
  <1> QED
    BY <1>1, AlwaysIInv, PTL

\* What blpapi_validate_request returned, blpapi_send_request accepts as it is,
\* or it tells of a drift.
THEOREM ValidatedSafe ==
  ASSUME Unfolds
  PROVE  Spec => []ValidatedIsAccepted
  <1>1. ASSUME IInv PROVE ValidatedIsAccepted
    <2>1. ASSUME stage = "RETURNED" PROVE hash \notin FlatVersions
      BY <1>1, <2>1, SentAsAsked DEF IInv, StageTells
    <2>2. ASSUME asked # Invalid, canonical # Invalid, hash \in FlatVersions
          PROVE  canonical = asked
      BY <1>1, <2>2, SentIsBuilt
    <2> QED
      BY <2>1, <2>2 DEF ValidatedIsAccepted
  <1>2. IInv => ValidatedIsAccepted
    BY <1>1
  <1> QED
    BY <1>2, AlwaysIInv, PTL

\* What the strict validation accepts the published JSON Schema of a plain
\* operation admits, and a client that follows the schema is refused only for a
\* scalar that is beyond the range of its datatype: for all schemas, parameters
\* and limits.
THEOREM StrictSafe ==
  ASSUME Unfolds, Published
  PROVE  Spec => []StrictIsJsonSchema
  <1>1. ASSUME IInv PROVE StrictIsJsonSchema
    <2> DEFINE json == SchemaOf[hash]
    <2> SUFFICES ASSUME stage \in {"VALIDATED", "REFUSED"}, Strict(mode),
                        hash \in PlainVersions
                 PROVE  /\ stage = "VALIDATED" => Follows
                        /\ Follows /\ InRange(raw) => stage = "VALIDATED"
      BY Zenon DEF StrictIsJsonSchema, Checked, Strict
    <2>1. hash \in Versions /\ raw \in RawParameters
      BY <1>1 DEF IInv, AskedOfHash, StageTells, RefusedOfHash, Strict
    <2>2. Tree[hash] \in Nodes[hash] /\ raw \in Values /\ 0 \in 0..MaxNesting
      BY <2>1, TreesAssumption, ValuesAssumption, LimitsAssumption
    <2>3. Tree[hash].kind = "SEQUENCE" /\ json.schema = SchemaFor(Tree[hash])
      BY <2>1, TreesAssumption, Zenon DEF Published
    <2>4. ObjectsAgree(Tree[hash], json.defs, 0)
      BY <2>2, <2>3, AllAgree
    <2>5. Same(Validated(Tree[hash], raw, mode, 0), raw,
               Admitted(json.schema, json.defs, raw, MaxNesting + 1))
      <3>1. Same(Validated(Tree[hash], raw, mode, 0), raw,
                 Admitted(SchemaFor(Tree[hash]), json.defs, raw,
                          MaxNesting + 1 - 0))
        BY <2>2, <2>4, Zenon DEF ObjectsAgree
      <3>2. MaxNesting + 1 - 0 = MaxNesting + 1
        BY LimitsAssumption
      <3> QED
        BY <2>3, <3>1, <3>2, Zenon
    <2>6. LET valid == Canonical(Tree[hash], raw, mode) # Invalid
          IN  (valid => Follows) /\ (Follows /\ InRange(raw) => valid)
      BY <2>5, Zenon DEF Same, Canonical, Follows
    <2>7. CASE stage = "VALIDATED"
      <3>1. Canonical(Tree[hash], raw, mode) # Invalid
        BY <1>1, <2>7 DEF IInv, AskedOfHash, StageTells
      <3> QED
        BY <2>6, <2>7, <3>1, Zenon
    <2>8. CASE stage = "REFUSED"
      <3>1. Canonical(Tree[hash], raw, mode) = Invalid /\ stage # "VALIDATED"
        BY <1>1, <2>8 DEF IInv, RefusedOfHash, Strict
      <3> QED
        BY <2>6, <3>1, Zenon
    <2> QED
      BY <2>7, <2>8
  <1>2. IInv => StrictIsJsonSchema
    BY <1>1
  <1> QED
    BY <1>2, AlwaysIInv, PTL
=============================================================================
