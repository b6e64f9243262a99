----------------------------- MODULE SumsProofs -----------------------------
(***************************************************************************)
(* Sums over finite sets, for any function and set: a sum is a number, the *)
(* sum of nothing is zero, and any element may be taken out of it.         *)
(*                                                                         *)
(* A recursive function is some function that satisfies its equation; that *)
(* there is one, and one only, is shown here.  Induction is by a smallest  *)
(* subset for which a statement would fail.                                *)
(***************************************************************************)
EXTENDS Sums, FiniteSetTheorems, TLAPS

\* Induction, without an operator that stands for the statement: the smallest
\* number, or the smallest subset, for which it would fail.
LEMMA SmallestNumber ==
    ASSUME NEW Bad, Bad \subseteq Nat, Bad # {}
    PROVE  \E n \in Bad : \A m \in Bad : n <= m
<1>1. PICK n \in Bad : \A m \in Bad : ~(<<m, n>> \in OpToRel(<, Nat))
  BY NatLessThanWellFounded, WFMin
<1>2. \A m \in Bad : ~(m < n)
  BY <1>1 DEF OpToRel
<1>3. QED
  BY <1>2

LEMMA SmallestSubset ==
    ASSUME NEW S, IsFiniteSet(S), NEW Bad, Bad \subseteq SUBSET S, Bad # {}
    PROVE  \E T \in Bad : \A U \in Bad : ~(U \subseteq T /\ U # T)
<1>1. Bad \subseteq FiniteSubsetsOf(S)
  BY FS_Subset DEF FiniteSubsetsOf
<1>2. \E T \in Bad : \A U \in Bad : ~(<<U, T>> \in StrictSubsetOrdering(S))
  BY <1>1, FS_StrictSubsetOrderingWellFounded, WFMin
<1>3. QED
  BY <1>1, <1>2 DEF StrictSubsetOrdering, FiniteSubsetsOf

-----------------------------------------------------------------------------
(* The function that the fold is defined by *)

Picked(s) == CHOOSE x \in s : TRUE

Rest(s) == s \ {Picked(s)}

\* g adds up f over every subset of S.
AddsUp(g, f, S) ==
    g = [s \in SUBSET S |-> IF s = {} THEN 0 ELSE f[Picked(s)] + g[Rest(s)]]

LEMMA SumIsChosen ==
    ASSUME NEW f, NEW S
    PROVE  SumOver(f, S) = (CHOOSE g : AddsUp(g, f, S))[S]
  BY DEF SumOver, FoldFunctionOnSet, MapThenFoldSet, AddsUp, Picked, Rest

LEMMA PickedIsIn ==
    ASSUME NEW s, s # {}
    PROVE  Picked(s) \in s /\ Rest(s) \subseteq s /\ Rest(s) # s
  BY DEF Picked, Rest

LEMMA AddsUpOnce ==
    ASSUME NEW f, NEW S, NEW U, NEW g, NEW h,
           AddsUp(g, f, S), AddsUp(h, f, U)
    PROVE  \A T : IsFiniteSet(T) /\ T \in SUBSET S /\ T \in SUBSET U
                     => g[T] = h[T]
<1> SUFFICES ASSUME NEW T \in SUBSET S, T \in SUBSET U, IsFiniteSet(T)
             PROVE  g[T] = h[T]
  OBVIOUS
<1> DEFINE Bad == {s \in SUBSET T : g[s] # h[s]}
<1>1. SUFFICES ASSUME Bad # {}
               PROVE  FALSE
  OBVIOUS
<1>2. PICK s \in Bad : \A u \in Bad : ~(u \subseteq s /\ u # s)
  <2>1. Bad \subseteq SUBSET T
    OBVIOUS
  <2> HIDE DEF Bad
  <2>2. QED
    BY <1>1, <2>1, SmallestSubset
<1>3. s \in SUBSET S /\ s \in SUBSET U /\ s \in SUBSET T
  OBVIOUS
<1>4. s # {}
  BY <1>3 DEF AddsUp
<1>5. Rest(s) \in SUBSET T /\ g[Rest(s)] = h[Rest(s)]
  BY <1>2, <1>3, <1>4, PickedIsIn
<1>6. /\ g[s] = f[Picked(s)] + g[Rest(s)]
      /\ h[s] = f[Picked(s)] + h[Rest(s)]
  BY <1>3, <1>4 DEF AddsUp
<1>7. QED
  BY <1>5, <1>6

LEMMA AddsUpBelow ==
    ASSUME NEW f, NEW S, NEW g, NEW h, NEW T, IsFiniteSet(T), T \subseteq S,
           AddsUp(g, f, S), AddsUp(h, f, T)
    PROVE  g[T] = h[T]
<1>1. T \in SUBSET S /\ T \in SUBSET T
  OBVIOUS
<1>2. QED
  BY <1>1, AddsUpOnce

LEMMA AddsUpExists ==
    ASSUME NEW f, NEW S, IsFiniteSet(S)
    PROVE  \E g : AddsUp(g, f, S)
<1> DEFINE Bad == {s \in SUBSET S : ~ \E g : AddsUp(g, f, s)}
<1>1. SUFFICES ASSUME Bad # {}
               PROVE  FALSE
  OBVIOUS
<1>2. PICK T \in Bad : \A u \in Bad : ~(u \subseteq T /\ u # T)
  <2>1. Bad \subseteq SUBSET S
    OBVIOUS
  <2> HIDE DEF Bad
  <2>2. QED
    BY <1>1, <2>1, SmallestSubset
<1> DEFINE G(s)   == CHOOSE g : AddsUp(g, f, s)
           At(s)  == IF s = {} THEN 0 ELSE f[Picked(s)] + G(Rest(s))[Rest(s)]
           h      == [s \in SUBSET T |-> At(s)]
<1>3. ASSUME NEW s \in SUBSET T, s # T
      PROVE  AddsUp(G(s), f, s) /\ IsFiniteSet(s)
  <2>1. s \notin Bad /\ s \in SUBSET S
    BY <1>2, <1>3
  <2>2. \E g : AddsUp(g, f, s)
    BY <2>1
  <2>3. IsFiniteSet(s)
    BY <2>1, FS_Subset
  <2>4. QED
    BY <2>2, <2>3
<1>4. ASSUME NEW s \in SUBSET T, s # T
      PROVE  G(s)[s] = At(s)
  <2>1. AddsUp(G(s), f, s)
    BY <1>3, <1>4
  <2>2. G(s)[s] = IF s = {} THEN 0 ELSE f[Picked(s)] + G(s)[Rest(s)]
    <3> HIDE DEF G
    <3>1. QED
      BY <2>1 DEF AddsUp
  <2>3. CASE s = {}
    BY <2>2, <2>3
  <2>4. CASE s # {}
    <3>1. Rest(s) \in SUBSET T /\ Rest(s) # T /\ Rest(s) \subseteq s
      BY <1>4, <2>4, PickedIsIn
    <3>2. AddsUp(G(Rest(s)), f, Rest(s)) /\ IsFiniteSet(Rest(s))
      BY <1>3, <3>1
    <3>3. G(s)[Rest(s)] = G(Rest(s))[Rest(s)]
      BY <2>1, <3>1, <3>2, AddsUpBelow
    <3>4. QED
      BY <2>2, <2>4, <3>3
  <2>5. QED
    BY <2>3, <2>4
<1>5. ASSUME NEW s \in SUBSET T
      PROVE  h[s] = IF s = {} THEN 0 ELSE f[Picked(s)] + h[Rest(s)]
  <2>1. CASE s = {}
    BY <2>1
  <2>2. CASE s # {}
    <3>1. Rest(s) \in SUBSET T /\ Rest(s) # T
      BY <2>2, PickedIsIn
    <3>2. h[Rest(s)] = G(Rest(s))[Rest(s)]
      BY <1>4, <3>1
    <3>3. QED
      BY <2>2, <3>2
  <2>3. QED
    BY <2>1, <2>2
<1>6. AddsUp(h, f, T)
  <2> HIDE DEF At
  <2>1. QED
    BY <1>5 DEF AddsUp
<1>7. QED
  BY <1>2, <1>6

-----------------------------------------------------------------------------
(* Sums *)

LEMMA SumUnfolds ==
    ASSUME NEW f, NEW S, IsFiniteSet(S)
    PROVE  /\ SumOver(f, {}) = 0
           /\ S # {} =>
                SumOver(f, S) = f[Picked(S)] + SumOver(f, Rest(S))
<1> DEFINE G(s) == CHOOSE g : AddsUp(g, f, s)
<1>1. ASSUME NEW s, IsFiniteSet(s)
      PROVE  AddsUp(G(s), f, s) /\ SumOver(f, s) = G(s)[s]
  BY <1>1, AddsUpExists, SumIsChosen
<1> HIDE DEF G
<1>2. SumOver(f, {}) = 0
  BY <1>1, FS_EmptySet DEF AddsUp
<1>3. ASSUME S # {}
      PROVE  SumOver(f, S) = f[Picked(S)] + SumOver(f, Rest(S))
  <2>1. Rest(S) \subseteq S /\ IsFiniteSet(Rest(S))
    BY <1>3, PickedIsIn, FS_Subset
  <2>2. G(S)[S] = f[Picked(S)] + G(S)[Rest(S)]
    BY <1>1, <1>3 DEF AddsUp
  <2>3. G(S)[Rest(S)] = G(Rest(S))[Rest(S)]
    BY <1>1, <2>1, AddsUpOnce
  <2>4. QED
    BY <1>1, <2>1, <2>2, <2>3
<1>4. QED
  BY <1>2, <1>3

LEMMA SumOfNothing == \A f : SumOver(f, {}) = 0
  BY SumUnfolds, FS_EmptySet

\* Whatever set adding a value does not lead out of, the sum is in it.
LEMMA SumStaysIn ==
    ASSUME NEW S, IsFiniteSet(S), NEW f, NEW T, 0 \in T,
           \A x \in S, sum \in T : f[x] + sum \in T
    PROVE  SumOver(f, S) \in T
<1> DEFINE Bad == {s \in SUBSET S : SumOver(f, s) \notin T}
<1>1. SUFFICES ASSUME Bad # {}
               PROVE  FALSE
  OBVIOUS
<1>2. PICK s \in Bad : \A u \in Bad : ~(u \subseteq s /\ u # s)
  <2>1. Bad \subseteq SUBSET S
    OBVIOUS
  <2> HIDE DEF Bad
  <2>2. QED
    BY <1>1, <2>1, SmallestSubset
<1>3. s \in SUBSET S /\ IsFiniteSet(s)
  BY FS_Subset
<1>4. s # {}
  BY SumOfNothing
<1>5. Picked(s) \in S /\ Rest(s) \in SUBSET S /\ Rest(s) \notin Bad
  BY <1>2, <1>3, <1>4, PickedIsIn
<1>6. SumOver(f, s) = f[Picked(s)] + SumOver(f, Rest(s))
  BY <1>3, <1>4, SumUnfolds
<1>7. QED
  BY <1>5, <1>6

LEMMA SumType ==
    ASSUME NEW S, IsFiniteSet(S), NEW f, \A x \in S : f[x] \in Int
    PROVE  SumOver(f, S) \in Int
<1>1. \A x \in S, sum \in Int : f[x] + sum \in Int
  OBVIOUS
<1>2. QED
  BY <1>1, SumStaysIn

LEMMA SumIsNatural ==
    ASSUME NEW S, IsFiniteSet(S), NEW f, \A x \in S : f[x] \in Nat
    PROVE  SumOver(f, S) \in Nat
<1>1. \A x \in S, sum \in Nat : f[x] + sum \in Nat
  OBVIOUS
<1>2. QED
  BY <1>1, SumStaysIn

LEMMA SumOfZeros ==
    ASSUME NEW S, IsFiniteSet(S), NEW f, \A x \in S : f[x] = 0
    PROVE  SumOver(f, S) = 0
<1>1. \A x \in S, sum \in {0} : f[x] + sum \in {0}
  OBVIOUS
<1>2. SumOver(f, S) \in {0}
  BY <1>1, SumStaysIn
<1>3. QED
  BY <1>2

\* The order in which a fold takes its elements does not matter.
LEMMA SumWithout ==
    ASSUME NEW S, IsFiniteSet(S), NEW f, \A x \in S : f[x] \in Int
    PROVE  \A e \in S : SumOver(f, S) = f[e] + SumOver(f, S \ {e})
<1> DEFINE Taken(s, e) == SumOver(f, s) = f[e] + SumOver(f, s \ {e})
           Bad == {s \in SUBSET S : ~ \A e \in s : Taken(s, e)}
<1>1. SUFFICES ASSUME Bad # {}
               PROVE  FALSE
  OBVIOUS
<1>2. PICK s \in Bad : \A u \in Bad : ~(u \subseteq s /\ u # s)
  <2>1. Bad \subseteq SUBSET S
    OBVIOUS
  <2> HIDE DEF Bad
  <2>2. QED
    BY <1>1, <2>1, SmallestSubset
<1>3. PICK e \in s : ~Taken(s, e)
  OBVIOUS
<1>4. s \in SUBSET S /\ IsFiniteSet(s) /\ s # {}
  BY FS_Subset
<1> DEFINE p == Picked(s)
           both == (s \ {e}) \ {p}
<1>5. p \in s /\ Rest(s) = s \ {p}
  BY <1>4, PickedIsIn DEF Rest
<1>6. Taken(s, p)
  BY <1>4, <1>5, SumUnfolds
<1> HIDE DEF p
<1>7. p # e
  BY <1>3, <1>6
<1>8. ASSUME NEW u \in SUBSET s, u # s, NEW x \in u
      PROVE  Taken(u, x)
  <2>1. u \in SUBSET S /\ u \notin Bad
    BY <1>2, <1>4, <1>8
  <2>2. QED
    BY <2>1
<1>9. Taken(s \ {p}, e) /\ Taken(s \ {e}, p)
  BY <1>5, <1>7, <1>8
<1>10. (s \ {p}) \ {e} = both
  OBVIOUS
<1>11. SumOver(f, both) \in Int /\ f[p] \in Int /\ f[e] \in Int
  <2>1. both \in SUBSET S /\ IsFiniteSet(both)
    BY <1>4, FS_Subset
  <2>2. \A x \in both : f[x] \in Int
    BY <2>1
  <2> HIDE DEF both
  <2>3. QED
    BY <1>4, <1>5, <2>1, <2>2, SumType
<1> HIDE DEF both
<1>12. SumOver(f, s) = f[p] + (f[e] + SumOver(f, both))
  BY <1>6, <1>9, <1>10
<1>13. SumOver(f, s \ {e}) = f[p] + SumOver(f, both)
  BY <1>9 DEF both
<1>14. Taken(s, e)
  BY <1>11, <1>12, <1>13
<1>15. QED
  BY <1>3, <1>14

LEMMA SameSum ==
    ASSUME NEW S, IsFiniteSet(S), NEW f, NEW g, \A x \in S : f[x] = g[x]
    PROVE  SumOver(f, S) = SumOver(g, S)
<1> DEFINE Bad == {s \in SUBSET S : SumOver(f, s) # SumOver(g, s)}
<1>1. SUFFICES ASSUME Bad # {}
               PROVE  FALSE
  OBVIOUS
<1>2. PICK s \in Bad : \A u \in Bad : ~(u \subseteq s /\ u # s)
  <2>1. Bad \subseteq SUBSET S
    OBVIOUS
  <2> HIDE DEF Bad
  <2>2. QED
    BY <1>1, <2>1, SmallestSubset
<1>3. s \in SUBSET S /\ IsFiniteSet(s)
  BY FS_Subset
<1>4. s # {}
  BY SumOfNothing
<1>5. Picked(s) \in S /\ Rest(s) \in SUBSET S /\ Rest(s) \notin Bad
  BY <1>2, <1>3, <1>4, PickedIsIn
<1>6. /\ SumOver(f, s) = f[Picked(s)] + SumOver(f, Rest(s))
      /\ SumOver(g, s) = g[Picked(s)] + SumOver(g, Rest(s))
  BY <1>3, <1>4, SumUnfolds
<1>7. QED
  BY <1>5, <1>6

\* What is added to one value is added to the sum.
LEMMA SumAdds ==
    ASSUME NEW S, IsFiniteSet(S), NEW f \in [S -> Int], NEW e \in S,
           NEW more \in Int
    PROVE  /\ SumOver(f, S) \in Int
           /\ SumOver([f EXCEPT ![e] = f[e] + more], S) = SumOver(f, S) + more
<1> DEFINE g == [f EXCEPT ![e] = f[e] + more]
<1>1. /\ \A x \in S : f[x] \in Int /\ g[x] \in Int
      /\ g[e] = f[e] + more
      /\ \A x \in S \ {e} : g[x] = f[x]
  OBVIOUS
<1> HIDE DEF g
<1>2. IsFiniteSet(S \ {e})
  BY FS_RemoveElement
<1>3. /\ SumOver(f, S) = f[e] + SumOver(f, S \ {e})
      /\ SumOver(g, S) = g[e] + SumOver(g, S \ {e})
  BY <1>1, SumWithout
<1>4. SumOver(g, S \ {e}) = SumOver(f, S \ {e})
  BY <1>1, <1>2, SameSum
<1>5. SumOver(f, S \ {e}) \in Int
  BY <1>1, <1>2, SumType
<1>6. /\ SumOver(f, S) \in Int
      /\ SumOver(g, S) = SumOver(f, S) + more
  BY <1>1, <1>3, <1>4, <1>5
<1>7. QED
  BY <1>6 DEF g
\* A sum may be taken of a part and of what is left of it.
LEMMA SumSplits ==
    ASSUME NEW S, IsFiniteSet(S), NEW f, \A x \in S : f[x] \in Int,
           NEW T, T \subseteq S
    PROVE  /\ SumOver(f, T) \in Int /\ SumOver(f, S \ T) \in Int
           /\ SumOver(f, S) = SumOver(f, T) + SumOver(f, S \ T)
<1> DEFINE Splits(u) == SumOver(f, S) = SumOver(f, u) + SumOver(f, S \ u)
           Bad == {u \in SUBSET S : ~Splits(u)}
<1>1. ASSUME NEW u, u \subseteq S
      PROVE  /\ IsFiniteSet(u) /\ SumOver(f, u) \in Int
             /\ \A e \in u : SumOver(f, u) = f[e] + SumOver(f, u \ {e})
  <2>1. IsFiniteSet(u) /\ \A x \in u : f[x] \in Int
    BY <1>1, FS_Subset
  <2>2. QED
    BY <2>1, SumType, SumWithout
<1>2. SUFFICES ASSUME Bad # {}
               PROVE  FALSE
  <2>1. Splits(T)
    BY <1>2
  <2>2. S \ T \subseteq S
    OBVIOUS
  <2>3. QED
    BY <1>1, <2>1, <2>2
<1>3. PICK s \in Bad : \A u \in Bad : ~(u \subseteq s /\ u # s)
  <2>1. Bad \subseteq SUBSET S
    OBVIOUS
  <2> HIDE DEF Bad
  <2>2. QED
    BY <1>2, <2>1, SmallestSubset
<1>4. s # {}
  <2>1. SumOver(f, {}) = 0 /\ S \ {} = S /\ SumOver(f, S) \in Int
    BY <1>1, SumOfNothing
  <2>2. Splits({})
    BY <2>1
  <2>3. QED
    BY <1>3, <2>2
<1>5. PICK e \in s : TRUE
  BY <1>4
<1> DEFINE u == s \ {e}
<1>6. u \subseteq S /\ u # s /\ Splits(u)
  BY <1>3, <1>5
<1>7. /\ S \ s \subseteq S /\ S \ u \subseteq S /\ e \in S \ u
      /\ (S \ u) \ {e} = S \ s /\ f[e] \in Int
  BY <1>3, <1>5
<1>8. /\ SumOver(f, s) = f[e] + SumOver(f, u)
      /\ SumOver(f, S \ u) = f[e] + SumOver(f, S \ s)
      /\ SumOver(f, u) \in Int /\ SumOver(f, S \ s) \in Int
  BY <1>1, <1>3, <1>5, <1>6, <1>7
<1>9. Splits(s)
  BY <1>6, <1>7, <1>8
<1>10. QED
  BY <1>3, <1>9

\* The sum of two functions' values.
LEMMA SumOfBoth ==
    ASSUME NEW S, IsFiniteSet(S), NEW f, NEW g, NEW h,
           \A x \in S : f[x] \in Int /\ g[x] \in Int /\ h[x] = f[x] + g[x]
    PROVE  SumOver(h, S) = SumOver(f, S) + SumOver(g, S)
<1> DEFINE Bad == {s \in SUBSET S :
                     SumOver(h, s) # SumOver(f, s) + SumOver(g, s)}
<1>1. SUFFICES ASSUME Bad # {}
               PROVE  FALSE
  OBVIOUS
<1>2. PICK s \in Bad : \A u \in Bad : ~(u \subseteq s /\ u # s)
  <2>1. Bad \subseteq SUBSET S
    OBVIOUS
  <2> HIDE DEF Bad
  <2>2. QED
    BY <1>1, <2>1, SmallestSubset
<1>3. s \in SUBSET S /\ IsFiniteSet(s)
  BY FS_Subset
<1>4. s # {}
  <2>1. /\ SumOver(f, {}) = 0 /\ SumOver(g, {}) = 0 /\ SumOver(h, {}) = 0
    BY SumOfNothing
  <2>2. 0 + 0 = 0
    OBVIOUS
  <2>3. SumOver(h, {}) = SumOver(f, {}) + SumOver(g, {})
    BY <2>1, <2>2
  <2>4. QED
    BY <2>3
<1> DEFINE e == Picked(s)
           r == Rest(s)
<1>5. e \in S /\ r \in SUBSET S /\ r \notin Bad
  BY <1>2, <1>3, <1>4, PickedIsIn
<1>6. /\ SumOver(f, s) = f[e] + SumOver(f, r)
      /\ SumOver(g, s) = g[e] + SumOver(g, r)
      /\ SumOver(h, s) = h[e] + SumOver(h, r)
  BY <1>3, <1>4, SumUnfolds
<1>7. SumOver(h, r) = SumOver(f, r) + SumOver(g, r)
  BY <1>5
<1>8. /\ SumOver(f, r) \in Int /\ SumOver(g, r) \in Int
      /\ f[e] \in Int /\ g[e] \in Int /\ h[e] = f[e] + g[e]
  <2>1. IsFiniteSet(r) /\ \A x \in r : f[x] \in Int /\ g[x] \in Int
    BY <1>5, FS_Subset
  <2> HIDE DEF r, e
  <2>2. QED
    BY <1>5, <2>1, SumType
<1> HIDE DEF e, r
<1>9. QED
  BY <1>2, <1>6, <1>7, <1>8

\* A sum of ones and zeros counts.
LEMMA SumCounts ==
    ASSUME NEW S, IsFiniteSet(S), NEW f, \A x \in S : f[x] \in {0, 1}
    PROVE  SumOver(f, S) \in 0 .. Cardinality(S)
<1> DEFINE Bad == {s \in SUBSET S : ~(SumOver(f, s) \in 0 .. Cardinality(s))}
<1>1. SUFFICES ASSUME Bad # {}
               PROVE  FALSE
  OBVIOUS
<1>2. PICK s \in Bad : \A u \in Bad : ~(u \subseteq s /\ u # s)
  <2>1. Bad \subseteq SUBSET S
    OBVIOUS
  <2> HIDE DEF Bad
  <2>2. QED
    BY <1>1, <2>1, SmallestSubset
<1>3. s \in SUBSET S /\ IsFiniteSet(s) /\ Cardinality(s) \in Nat
  BY FS_Subset, FS_CardinalityType
<1>4. s # {}
  <2>1. SumOver(f, {}) = 0 /\ Cardinality({}) = 0
    BY SumOfNothing, FS_EmptySet
  <2>2. SumOver(f, {}) \in 0 .. Cardinality({})
    BY <2>1
  <2>3. QED
    BY <2>2
<1> DEFINE e == Picked(s)
           r == Rest(s)
<1>5. e \in s /\ e \in S /\ r \in SUBSET S /\ r \notin Bad /\ r = s \ {e}
  BY <1>2, <1>3, <1>4, PickedIsIn DEF Rest
<1>6. SumOver(f, s) = f[e] + SumOver(f, r)
  BY <1>3, <1>4, SumUnfolds
<1>7. SumOver(f, r) \in 0 .. Cardinality(r)
  BY <1>5
<1> HIDE DEF e, r
<1>8. Cardinality(r) = Cardinality(s) - 1
  BY <1>3, <1>5, FS_RemoveElement
<1>9. f[e] \in {0, 1}
  BY <1>5
<1>10. QED
  BY <1>2, <1>3, <1>6, <1>7, <1>8, <1>9

\* Another numbering of the same values has the same sum.
LEMMA SumRenumbered ==
    ASSUME NEW S, IsFiniteSet(S), NEW f, NEW g, NEW b,
           \A x \in S : f[x] \in Int /\ g[b[x]] = f[x],
           \A x, y \in S : b[x] = b[y] => x = y
    PROVE  SumOver(g, {b[x] : x \in S}) = SumOver(f, S)
<1> DEFINE Of(s) == {b[x] : x \in s}
           Bad   == {s \in SUBSET S : SumOver(g, Of(s)) # SumOver(f, s)}
<1>1. SUFFICES ASSUME Bad # {}
               PROVE  FALSE
  OBVIOUS
<1>2. PICK s \in Bad : \A u \in Bad : ~(u \subseteq s /\ u # s)
  <2>1. Bad \subseteq SUBSET S
    OBVIOUS
  <2> HIDE DEF Bad
  <2>2. QED
    BY <1>1, <2>1, SmallestSubset
<1>3. s \in SUBSET S /\ IsFiniteSet(s)
  BY FS_Subset
<1>4. s # {}
  <2>1. Of({}) = {}
    OBVIOUS
  <2>2. QED
    BY <2>1, SumOfNothing
<1> DEFINE e == Picked(s)
           r == Rest(s)
<1>5. e \in s /\ e \in S /\ r \in SUBSET S /\ r \notin Bad /\ r = s \ {e}
  BY <1>2, <1>3, <1>4, PickedIsIn DEF Rest
<1>6. SumOver(f, s) = f[e] + SumOver(f, r)
  BY <1>3, <1>4, SumUnfolds
<1>7. SumOver(g, Of(r)) = SumOver(f, r)
  BY <1>5
<1> HIDE DEF e, r
<1>8. IsFiniteSet(Of(s)) /\ \A y \in Of(s) : g[y] \in Int
  <2> DEFINE c == [x \in s |-> b[x]]
  <2>1. c \in Surjection(s, Of(s))
    BY DEF Surjection
  <2> HIDE DEF c
  <2>2. IsFiniteSet(Of(s))
    BY <1>3, <2>1, FS_Surjection
  <2>3. \A x \in s : g[b[x]] \in Int
    BY <1>3
  <2>4. QED
    BY <2>2, <2>3
<1>9. b[e] \in Of(s) /\ Of(s) \ {b[e]} = Of(r)
  BY <1>3, <1>5
<1> HIDE DEF Of
<1>10. SumOver(g, Of(s)) = g[b[e]] + SumOver(g, Of(r))
  <2>1. \A y \in Of(s) :
          SumOver(g, Of(s)) = g[y] + SumOver(g, Of(s) \ {y})
    BY <1>8, SumWithout
  <2>2. QED
    BY <1>9, <2>1
<1>11. g[b[e]] = f[e]
  BY <1>5
<1>12. QED
  BY <1>2, <1>6, <1>7, <1>10, <1>11
=============================================================================
