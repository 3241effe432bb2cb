----------------------------- MODULE SumTheorems -----------------------------
(***************************************************************************)
(* Sums of a function over a finite set: what MapThenSumSet computes, for  *)
(* the specifications that count bytes or admissions with it.  Each proof  *)
(* by induction looks at a smallest set for which the claim would fail.    *)
(***************************************************************************)
EXTENDS FiniteSetsExt, FiniteSetTheorems, TLAPS

SumOver(f, S) == MapThenSumSet(LAMBDA x : f[x], S)

Picked(s) == CHOOSE x \in s : TRUE

\* The table of partial sums that MapThenSumSet builds for S.
PartialSums(f, S, g) ==
  g = [s \in SUBSET S |->
         IF s = {} THEN 0 ELSE f[Picked(s)] + g[s \ {Picked(s)}]]

-----------------------------------------------------------------------------
\* Among sets of finite sets one is smallest.
LEMMA SmallestSet ==
  ASSUME NEW S, IsFiniteSet(S), NEW Bad, Bad \subseteq SUBSET S, Bad # {}
  PROVE  \E s \in Bad : \A t \in Bad : ~(t \subseteq s /\ t # s)
  <1>1. IsWellFoundedOn(StrictSubsetOrdering(S), FiniteSubsetsOf(S))
    BY FS_StrictSubsetOrderingWellFounded
  <1>2. Bad \subseteq FiniteSubsetsOf(S)
    BY FS_Subset DEF FiniteSubsetsOf
  <1>3. PICK s \in Bad : \A t \in Bad : ~(<<t, s>> \in StrictSubsetOrdering(S))
    BY <1>1, <1>2, WFMin
  <1> QED
    BY <1>3 DEF StrictSubsetOrdering

\* Two such tables agree where both are defined.
LEMMA PartialSumsAgree ==
  ASSUME NEW S, IsFiniteSet(S), NEW f, NEW T \in SUBSET S,
         NEW g, PartialSums(f, S, g), NEW h, PartialSums(f, T, h)
  PROVE  \A s \in SUBSET T : g[s] = h[s]
  <1> DEFINE Bad == {s \in SUBSET T : g[s] # h[s]}
  <1> SUFFICES ASSUME Bad # {} PROVE FALSE
    OBVIOUS
  <1>1. Bad \subseteq SUBSET S
    OBVIOUS
  <1>2. PICK s \in Bad : \A t \in Bad : ~(t \subseteq s /\ t # s)
    <2> HIDE DEF Bad
    <2> QED
      BY <1>1, SmallestSet
  <1>3. s # {}
    BY DEF PartialSums
  <1>4. Picked(s) \in s
    BY <1>3 DEF Picked
  <1>5. g[s \ {Picked(s)}] = h[s \ {Picked(s)}]
    BY <1>2, <1>4
  <1>6. g[s] = f[Picked(s)] + g[s \ {Picked(s)}]
    BY <1>3 DEF PartialSums
  <1>7. h[s] = f[Picked(s)] + h[s \ {Picked(s)}]
    BY <1>3 DEF PartialSums
  <1> QED
    BY <1>5, <1>6, <1>7

\* There is one for every finite set.
LEMMA PartialSumsExist ==
  ASSUME NEW S, IsFiniteSet(S), NEW f
  PROVE  \E g : PartialSums(f, S, g)
  <1> DEFINE Bad == {s \in SUBSET S : ~\E g : PartialSums(f, s, g)}
  <1> SUFFICES ASSUME Bad # {} PROVE FALSE
    OBVIOUS
  <1>1. PICK T \in Bad : \A t \in Bad : ~(t \subseteq T /\ t # T)
    <2>1. Bad \subseteq SUBSET S
      OBVIOUS
    <2> HIDE DEF Bad
    <2> QED
      BY <2>1, SmallestSet
  <1> DEFINE Table(t) == CHOOSE h : PartialSums(f, t, h)
             p == Picked(T)
             g == [s \in SUBSET T |->
                     IF s = {} THEN 0
                     ELSE IF s = T THEN f[p] + Table(T \ {p})[T \ {p}]
                     ELSE Table(s)[s]]
  <1>2. ASSUME NEW t \in SUBSET T, t # T
        PROVE  PartialSums(f, t, Table(t))
    BY <1>1, <1>2
  <1>3. ASSUME NEW s \in SUBSET T
        PROVE  g[s] = IF s = {} THEN 0
                      ELSE f[Picked(s)] + g[s \ {Picked(s)}]
    <2>1. CASE s = {}
      BY <2>1
    <2>2. CASE s # {}
      <3> DEFINE r == s \ {Picked(s)}
      <3>1. Picked(s) \in s /\ r \in SUBSET T /\ r # T /\ r # s
        BY <2>2 DEF Picked
      <3>2. g[r] = Table(r)[r]
        <4>1. CASE r = {}
          <5>1. PartialSums(f, r, Table(r))
            BY <1>2, <3>1
          <5>2. Table(r)[r] = 0
            BY <5>1, <4>1 DEF PartialSums
          <5> QED
            BY <4>1, <5>2
        <4>2. CASE r # {}
          BY <4>2, <3>1
        <4> QED
          BY <4>1, <4>2
      <3>3. CASE s = T
        BY <2>2, <3>2, <3>3
      <3>4. CASE s # T
        <4>1. PartialSums(f, s, Table(s)) /\ PartialSums(f, r, Table(r))
          BY <1>2, <3>1, <3>4
        <4>2. IsFiniteSet(s)
          BY FS_Subset
        <4>3. Table(s)[r] = Table(r)[r]
          <5> HIDE DEF Table, r
          <5>1. r \in SUBSET s
            BY DEF r
          <5> QED
            BY <4>1, <4>2, <5>1, PartialSumsAgree
        <4>4. Table(s)[s] = f[Picked(s)] + Table(s)[r]
          <5> HIDE DEF Table
          <5> QED
            BY <2>2, <4>1 DEF PartialSums
        <4>5. g[s] = Table(s)[s]
          BY <2>2, <3>4
        <4> HIDE DEF Table, g
        <4> QED
          BY <2>2, <3>2, <4>3, <4>4, <4>5
      <3> QED
        BY <3>3, <3>4
    <2> QED
      BY <2>1, <2>2
  <1>4. PartialSums(f, T, g)
    <2>1. g = [s \in SUBSET T |-> g[s]]
      OBVIOUS
    <2> HIDE DEF g
    <2> QED
      BY <1>3, <2>1 DEF PartialSums
  <1> HIDE DEF g
  <1> QED
    BY <1>1, <1>4

\* MapThenSumSet takes its value from the table.
LEMMA SumIsPartialSum ==
  ASSUME NEW S, IsFiniteSet(S), NEW f
  PROVE  \E g : PartialSums(f, S, g) /\ SumOver(f, S) = g[S]
  <1> DEFINE table == CHOOSE g : PartialSums(f, S, g)
  <1>1. PartialSums(f, S, table)
    BY PartialSumsExist
  <1>2. SumOver(f, S) = table[S]
    BY DEF SumOver, MapThenSumSet, MapThenFoldSet, PartialSums, Picked
  <1> QED
    BY <1>1, <1>2

-----------------------------------------------------------------------------
(* What a sum is. *)

\* Nothing is held: the sum is zero.
THEOREM SumEmpty ==
  ASSUME NEW f
  PROVE  SumOver(f, {}) = 0
  <1>1. IsFiniteSet({})
    BY FS_EmptySet
  <1>2. PICK g : PartialSums(f, {}, g) /\ SumOver(f, {}) = g[{}]
    BY <1>1, SumIsPartialSum
  <1> QED
    BY <1>2 DEF PartialSums

\* The element that is taken first.
LEMMA SumPicked ==
  ASSUME NEW S, IsFiniteSet(S), S # {}, NEW f
  PROVE  /\ Picked(S) \in S
         /\ SumOver(f, S) = f[Picked(S)] + SumOver(f, S \ {Picked(S)})
  <1> DEFINE r == S \ {Picked(S)}
  <1>1. Picked(S) \in S
    BY DEF Picked
  <1>2. IsFiniteSet(r)
    BY FS_Subset
  <1>3. PICK g : PartialSums(f, S, g) /\ SumOver(f, S) = g[S]
    BY SumIsPartialSum
  <1>4. PICK h : PartialSums(f, r, h) /\ SumOver(f, r) = h[r]
    BY <1>2, SumIsPartialSum
  <1>5. g[r] = h[r]
    BY <1>2, <1>3, <1>4, PartialSumsAgree
  <1>6. g[S] = f[Picked(S)] + g[r]
    BY <1>3 DEF PartialSums
  <1> QED
    BY <1>1, <1>3, <1>4, <1>5, <1>6

\* The sum of integers over a finite set is an integer.
THEOREM SumInteger ==
  ASSUME NEW S, IsFiniteSet(S), NEW f, \A x \in S : f[x] \in Int
  PROVE  SumOver(f, S) \in Int
  <1> DEFINE Bad == {s \in SUBSET S : SumOver(f, s) \notin Int}
  <1> SUFFICES ASSUME Bad # {} PROVE FALSE
    OBVIOUS
  <1>1. PICK s \in Bad : \A t \in Bad : ~(t \subseteq s /\ t # s)
    <2>1. Bad \subseteq SUBSET S
      OBVIOUS
    <2> HIDE DEF Bad
    <2> QED
      BY <2>1, SmallestSet
  <1>2. s # {}
    BY SumEmpty
  <1>3. IsFiniteSet(s)
    BY FS_Subset
  <1>4. /\ Picked(s) \in s
        /\ SumOver(f, s) = f[Picked(s)] + SumOver(f, s \ {Picked(s)})
    BY <1>2, <1>3, SumPicked
  <1>5. SumOver(f, s \ {Picked(s)}) \in Int
    BY <1>1, <1>4
  <1> QED
    BY <1>4, <1>5

\* Any element may be taken first.
THEOREM SumRemove ==
  ASSUME NEW S, IsFiniteSet(S), NEW f, \A y \in S : f[y] \in Int,
         NEW x \in S
  PROVE  SumOver(f, S) = f[x] + SumOver(f, S \ {x})
  <1> DEFINE Bad == {s \in SUBSET S :
               \E y \in s : SumOver(f, s) # f[y] + SumOver(f, s \ {y})}
  <1> SUFFICES ASSUME Bad # {} PROVE FALSE
    OBVIOUS
  <1>1. PICK s \in Bad : \A t \in Bad : ~(t \subseteq s /\ t # s)
    <2>1. Bad \subseteq SUBSET S
      OBVIOUS
    <2> HIDE DEF Bad
    <2> QED
      BY <2>1, SmallestSet
  <1>2. PICK y \in s : SumOver(f, s) # f[y] + SumOver(f, s \ {y})
    OBVIOUS
  <1> DEFINE p == Picked(s)
             both == (s \ {p}) \ {y}
  <1>3. IsFiniteSet(s)
    BY FS_Subset
  <1>4. p \in s /\ SumOver(f, s) = f[p] + SumOver(f, s \ {p})
    BY <1>2, <1>3, SumPicked
  <1>5. p # y
    BY <1>2, <1>4
  <1>6. SumOver(f, s \ {p}) = f[y] + SumOver(f, both)
    BY <1>1, <1>4, <1>5
  <1>7. SumOver(f, s \ {y}) = f[p] + SumOver(f, both)
    <2>1. s \ {y} \notin Bad /\ p \in s \ {y} /\ s \ {y} \in SUBSET S
      BY <1>1, <1>4, <1>5
    <2>2. (s \ {y}) \ {p} = both
      OBVIOUS
    <2> QED
      BY <2>1, <2>2
  <1>8. SumOver(f, both) \in Int /\ f[p] \in Int /\ f[y] \in Int
    <2>1. IsFiniteSet(both)
      BY <1>3, FS_Subset
    <2> QED
      BY <1>4, <2>1, SumInteger
  <1> HIDE DEF p, both
  <1> QED
    BY <1>2, <1>4, <1>6, <1>7, <1>8

\* A new element adds its value: what a store counts when it takes one in.
THEOREM SumAdd ==
  ASSUME NEW S, IsFiniteSet(S), NEW x, x \notin S,
         NEW f, \A y \in S \cup {x} : f[y] \in Int
  PROVE  SumOver(f, S \cup {x}) = f[x] + SumOver(f, S)
  <1>1. IsFiniteSet(S \cup {x})
    BY FS_AddElement
  <1>2. (S \cup {x}) \ {x} = S
    OBVIOUS
  <1> QED
    BY <1>1, <1>2, SumRemove

\* What is left when a subset is taken away.
THEOREM SumRest ==
  ASSUME NEW S, IsFiniteSet(S), NEW T \in SUBSET S,
         NEW f, \A x \in S : f[x] \in Int
  PROVE  SumOver(f, S \ T) = SumOver(f, S) - SumOver(f, T)
  <1> DEFINE Bad == {t \in SUBSET S :
               SumOver(f, S \ t) # SumOver(f, S) - SumOver(f, t)}
  <1> SUFFICES Bad = {}
    OBVIOUS
  <1> SUFFICES ASSUME Bad # {} PROVE FALSE
    OBVIOUS
  <1>1. PICK t \in Bad : \A u \in Bad : ~(u \subseteq t /\ u # t)
    <2>1. Bad \subseteq SUBSET S
      OBVIOUS
    <2> HIDE DEF Bad
    <2> QED
      BY <2>1, SmallestSet
  <1>2. SumOver(f, S) \in Int
    BY SumInteger
  <1>3. t # {}
    <2>1. SumOver(f, S \ {}) = SumOver(f, S) - SumOver(f, {})
      <3>1. S \ {} = S /\ SumOver(f, {}) = 0
        BY SumEmpty
      <3> QED
        BY <1>2, <3>1
    <2> QED
      BY <2>1
  <1>4. PICK x \in t : TRUE
    BY <1>3
  <1> DEFINE r == t \ {x}
  <1>5. /\ IsFiniteSet(t) /\ IsFiniteSet(r) /\ IsFiniteSet(S \ r)
        /\ IsFiniteSet(S \ t)
        /\ x \in S \ r /\ (S \ r) \ {x} = S \ t /\ r \in SUBSET S
    BY FS_Subset
  <1>6. SumOver(f, S \ r) = SumOver(f, S) - SumOver(f, r)
    BY <1>1
  <1>7. SumOver(f, S \ r) = f[x] + SumOver(f, S \ t)
    <2>1. \A y \in S \ r : f[y] \in Int
      OBVIOUS
    <2> HIDE DEF r
    <2> QED
      BY <1>5, <2>1, SumRemove
  <1>8. SumOver(f, t) = f[x] + SumOver(f, r)
    BY <1>5, SumRemove
  <1>9. /\ SumOver(f, r) \in Int /\ SumOver(f, S \ t) \in Int
        /\ f[x] \in Int
    <2>1. (\A y \in r : f[y] \in Int) /\ (\A y \in S \ t : f[y] \in Int)
      OBVIOUS
    <2> HIDE DEF r
    <2> QED
      BY <1>5, <2>1, SumInteger
  <1>10. SumOver(f, S \ t) # SumOver(f, S) - SumOver(f, t)
    OBVIOUS
  <1> HIDE DEF r, Bad
  <1> QED
    BY <1>2, <1>6, <1>7, <1>8, <1>9, <1>10

-----------------------------------------------------------------------------
(* How sums compare. *)

\* No value shrinks, and so the sum does not.
THEOREM SumMonotonic ==
  ASSUME NEW S, IsFiniteSet(S),
         NEW f, NEW g, \A x \in S : f[x] \in Int /\ g[x] \in Int,
         \A x \in S : f[x] <= g[x]
  PROVE  SumOver(f, S) <= SumOver(g, S)
  <1> DEFINE Bad == {s \in SUBSET S : ~(SumOver(f, s) <= SumOver(g, s))}
  <1> SUFFICES ASSUME Bad # {} PROVE FALSE
    OBVIOUS
  <1>1. PICK s \in Bad : \A t \in Bad : ~(t \subseteq s /\ t # s)
    <2>1. Bad \subseteq SUBSET S
      OBVIOUS
    <2> HIDE DEF Bad
    <2> QED
      BY <2>1, SmallestSet
  <1>2. s # {}
    <2>1. SumOver(f, {}) = 0 /\ SumOver(g, {}) = 0
      BY SumEmpty
    <2>2. SumOver(f, {}) <= SumOver(g, {})
      BY <2>1
    <2> QED
      BY <2>2
  <1>3. PICK x \in s : TRUE
    BY <1>2
  <1> DEFINE r == s \ {x}
  <1>4. IsFiniteSet(s) /\ IsFiniteSet(r)
    BY FS_Subset
  <1>5. /\ SumOver(f, s) = f[x] + SumOver(f, r)
        /\ SumOver(g, s) = g[x] + SumOver(g, r)
    BY <1>4, SumRemove
  <1>6. SumOver(f, r) \in Int /\ SumOver(g, r) \in Int
    BY <1>4, SumInteger
  <1>7. SumOver(f, r) <= SumOver(g, r)
    BY <1>1
  <1> HIDE DEF r
  <1> QED
    BY <1>5, <1>6, <1>7

\* A sum depends on the values over the set, and on no others.
THEOREM SumSame ==
  ASSUME NEW S, IsFiniteSet(S),
         NEW f, NEW g, \A x \in S : f[x] \in Int,
         \A x \in S : f[x] = g[x]
  PROVE  SumOver(f, S) = SumOver(g, S)
  <1>1. SumOver(f, S) <= SumOver(g, S) /\ SumOver(g, S) <= SumOver(f, S)
    <2>1. \A x \in S : g[x] \in Int /\ f[x] <= g[x] /\ g[x] <= f[x]
      OBVIOUS
    <2>2. SumOver(f, S) <= SumOver(g, S)
      BY <2>1, SumMonotonic
    <2>3. SumOver(g, S) <= SumOver(f, S)
      BY <2>1, SumMonotonic
    <2> QED
      BY <2>2, <2>3
  <1>2. SumOver(f, S) \in Int /\ SumOver(g, S) \in Int
    BY SumInteger
  <1> QED
    BY <1>1, <1>2

\* What is zero outside a subset may be left out, and what is not negative
\* only adds.
THEOREM SumSubset ==
  ASSUME NEW S, IsFiniteSet(S), NEW T \in SUBSET S,
         NEW f, \A x \in S : f[x] \in Nat
  PROVE  /\ SumOver(f, T) \in Nat
         /\ SumOver(f, T) <= SumOver(f, S)
         /\ (\A x \in S \ T : f[x] = 0) => SumOver(f, T) = SumOver(f, S)
  <1>1. ASSUME NEW U \in SUBSET S
        PROVE  SumOver(f, U) \in Nat
    <2> DEFINE none == [x \in S |-> 0]
    <2>1. IsFiniteSet(U) /\ \A x \in U : f[x] \in Int /\ none[x] \in Int
      BY FS_Subset
    <2>2. SumOver(none, U) <= SumOver(f, U)
      <3>1. \A x \in U : none[x] <= f[x]
        OBVIOUS
      <3> HIDE DEF none
      <3> QED
        BY <2>1, <3>1, SumMonotonic
    <2>3. SumOver(none, U) = 0
      <3> DEFINE Bad == {s \in SUBSET U : SumOver(none, s) # 0}
      <3> SUFFICES ASSUME Bad # {} PROVE FALSE
        OBVIOUS
      <3>1. PICK s \in Bad : \A t \in Bad : ~(t \subseteq s /\ t # s)
        <4>1. Bad \subseteq SUBSET U
          OBVIOUS
        <4> HIDE DEF Bad
        <4> QED
          BY <2>1, <4>1, SmallestSet
      <3>2. s # {} /\ IsFiniteSet(s)
        BY <2>1, FS_Subset, SumEmpty
      <3>3. /\ Picked(s) \in s
            /\ SumOver(none, s)
                 = none[Picked(s)] + SumOver(none, s \ {Picked(s)})
        BY <3>2, SumPicked
      <3>4. SumOver(none, s \ {Picked(s)}) = 0
        BY <3>1, <3>3
      <3>5. none[Picked(s)] = 0
        BY <3>3
      <3> QED
        BY <3>1, <3>3, <3>4, <3>5
    <2>4. SumOver(f, U) \in Int
      BY <2>1, SumInteger
    <2> HIDE DEF none
    <2> QED
      BY <2>2, <2>3, <2>4
  <1> DEFINE Bad == {s \in SUBSET (S \ T) :
               ~(/\ SumOver(f, T) <= SumOver(f, T \cup s)
                 /\ (\A x \in s : f[x] = 0)
                      => SumOver(f, T) = SumOver(f, T \cup s))}
  <1>2. Bad = {}
    <2> SUFFICES ASSUME Bad # {} PROVE FALSE
      OBVIOUS
    <2>1. PICK s \in Bad : \A t \in Bad : ~(t \subseteq s /\ t # s)
      <3>1. Bad \subseteq SUBSET S
        OBVIOUS
      <3> HIDE DEF Bad
      <3> QED
        BY <3>1, SmallestSet
    <2>2. s # {}
      <3>1. SumOver(f, T) \in Nat /\ T \cup {} = T
        BY <1>1
      <3> QED
        BY <3>1
    <2>3. PICK x \in s : TRUE
      BY <2>2
    <2> DEFINE r == s \ {x}
    <2>4. IsFiniteSet(T \cup r) /\ T \cup s = (T \cup r) \cup {x}
           /\ x \notin T \cup r
      BY FS_Subset
    <2>5. SumOver(f, T \cup s) = f[x] + SumOver(f, T \cup r)
      <3>1. \A y \in (T \cup r) \cup {x} : f[y] \in Int
        OBVIOUS
      <3> HIDE DEF r
      <3> QED
        BY <2>4, <3>1, SumAdd
    <2>6. r \notin Bad /\ r \in SUBSET (S \ T)
      BY <2>1
    <2>7. /\ SumOver(f, T) \in Nat /\ SumOver(f, T \cup r) \in Nat
          /\ f[x] \in Nat
      BY <1>1
    <2> QED
      BY <2>5, <2>6, <2>7
  <1>3. T \cup (S \ T) = S
    OBVIOUS
  <1>4. S \ T \notin Bad
    BY <1>2
  <1> QED
    BY <1>1, <1>3, <1>4

\* One value changes: the sum changes by the difference.
THEOREM SumChange ==
  ASSUME NEW S, IsFiniteSet(S), NEW x \in S,
         NEW f, NEW g, \A y \in S : f[y] \in Int /\ g[y] \in Int,
         \A y \in S \ {x} : g[y] = f[y]
  PROVE  SumOver(g, S) = SumOver(f, S) + g[x] - f[x]
  <1> DEFINE r == S \ {x}
  <1>1. IsFiniteSet(r)
    BY FS_Subset
  <1>2. /\ SumOver(f, S) = f[x] + SumOver(f, r)
        /\ SumOver(g, S) = g[x] + SumOver(g, r)
    BY SumRemove
  <1>3. SumOver(f, r) = SumOver(g, r)
    BY <1>1, SumSame
  <1>4. SumOver(f, r) \in Int /\ f[x] \in Int /\ g[x] \in Int
    BY <1>1, SumInteger
  <1> HIDE DEF r
  <1> QED
    BY <1>2, <1>3, <1>4
=============================================================================
