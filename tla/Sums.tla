-------------------------------- MODULE Sums --------------------------------
(***************************************************************************)
(* Sums of natural numbers over finite sets, as MapThenSumSet and           *)
(* FoldFunction compute them: what the theorems about memories and streams  *)
(* need of them.  The library's induction theorems take an operator, which  *)
(* the provers cannot instantiate, so these lemmas argue by a smallest       *)
(* subset of which the claim would fail.                                     *)
(***************************************************************************)
EXTENDS Integers, FiniteSets, FiniteSetsExt, FiniteSetTheorems, WellFoundedInduction, TLAPS

NatLess == {ss \in Nat \X Nat : ss[1] < ss[2]}

LEMMA NatLessWellFounded == IsWellFoundedOn(NatLess, Nat)
BY NatLessThanWellFounded DEF OpToRel, NatLess

\* The smallest of a set of numbers.
LEMMA SmallestId ==
  ASSUME NEW S \in SUBSET Nat, S # {}
  PROVE  \E m \in S : \A i \in S : m <= i
<1>1. PICK m \in S : \A i \in S : <<i, m>> \notin NatLess
  BY NatLessWellFounded, WFMin
<1>2. ASSUME NEW i \in S PROVE m <= i
  <2>1. i \in Nat /\ m \in Nat
    OBVIOUS
  <2>2. i < m => <<i, m>> \in NatLess
    BY <2>1 DEF NatLess
  <2> QED BY <1>1, <2>1, <2>2
<1> QED BY <1>2

\* Induction, over a set of numbers in the place of a predicate.
LEMMA Inductive ==
  ASSUME NEW B \in SUBSET Nat, 0 \in B, \A n \in B : n + 1 \in B
  PROVE  B = Nat
<1> DEFINE Bad == Nat \ B
<1> SUFFICES ASSUME Bad # {} PROVE FALSE
  OBVIOUS
<1>1. PICK m \in Bad : \A n \in Bad : m <= n
  <2>1. Bad \in SUBSET Nat
    OBVIOUS
  <2> HIDE DEF Bad
  <2> QED BY <2>1, SmallestId
<1>2. m \in Nat /\ m \notin B /\ m # 0
  OBVIOUS
<1>3. m - 1 \in Nat /\ m - 1 \notin Bad
  BY <1>1, <1>2
<1>4. m - 1 \in B
  BY <1>3
<1>5. (m - 1) + 1 \in B /\ (m - 1) + 1 = m
  BY <1>2, <1>4
<1> QED BY <1>2, <1>5

-----------------------------------------------------------------------------
(* Sums over finite sets *)

SumOver(c, S) == MapThenSumSet(LAMBDA i : c[i], S)

AnyOf(S) == CHOOSE x \in S : TRUE

\* One step of the fold that MapThenSumSet is.
Adds(c, g, s) == IF s = {} THEN 0 ELSE c[AnyOf(s)] + g[s \ {AnyOf(s)}]

SumFcn(c, S) == CHOOSE g : g = [s \in SUBSET S |-> Adds(c, g, s)]

Counts(c, S) == \A x \in S : c[x] \in Nat

LEMMA SumIs ==
  ASSUME NEW c, NEW S
  PROVE  SumOver(c, S) = SumFcn(c, S)[S]
BY DEF SumOver, MapThenSumSet, MapThenFoldSet, Adds, AnyOf, SumFcn

LEMMA AnyIn == \A S : S # {} => AnyOf(S) \in S
BY DEF AnyOf

\* A set of subsets of a finite set has a smallest element: what fails of some subset
\* fails of one whose own subsets are well.
LEMMA SmallestSubset ==
  ASSUME NEW S, IsFiniteSet(S), NEW B \in SUBSET (SUBSET S), B # {}
  PROVE  \E s \in B : \A u \in B : u \subseteq s => u = s
<1>1. IsWellFoundedOn(StrictSubsetOrdering(S), FiniteSubsetsOf(S))
  BY FS_StrictSubsetOrderingWellFounded
<1>2. FiniteSubsetsOf(S) = SUBSET S
  BY FS_FiniteSubsetsOfFinite
<1>3. B \subseteq SUBSET S
  OBVIOUS
<1>4. PICK s \in B : \A u \in B : ~(<<u, s>> \in StrictSubsetOrdering(S))
  BY <1>1, <1>2, <1>3, WFMin
<1> QED BY <1>4 DEF StrictSubsetOrdering

FewOf(S, n) == {s \in SUBSET S : Cardinality(s) <= n}

\* The recursive function of the sum exists, on the subsets of a finite set.
LEMMA SumFcnExists ==
  ASSUME NEW c, NEW S, IsFiniteSet(S)
  PROVE  \A s \in SUBSET S : SumFcn(c, S)[s] = Adds(c, SumFcn(c, S), s)
<1> DEFINE Ok(n) == \E g : g = [s \in FewOf(S, n) |-> Adds(c, g, s)]
           Bad == {n \in Nat : ~Ok(n)}
<1>1. \A s \in SUBSET S : IsFiniteSet(s) /\ Cardinality(s) \in Nat
  BY FS_Subset, FS_CardinalityType
<1>2. Ok(0)
  <2>1. \A s \in FewOf(S, 0) : s = {}
    BY <1>1, FS_EmptySet DEF FewOf
  <2>2. [s \in FewOf(S, 0) |-> 0] = [s \in FewOf(S, 0) |-> Adds(c, [t \in FewOf(S, 0) |-> 0], s)]
    BY <2>1 DEF Adds
  <2> QED BY <2>2
<1>3. ASSUME NEW n \in Nat, Ok(n) PROVE Ok(n + 1)
  <2>1. PICK g : g = [s \in FewOf(S, n) |-> Adds(c, g, s)]
    BY <1>3
  <2>2. PICK h : h = [s \in FewOf(S, n + 1) |-> IF s \in FewOf(S, n) THEN g[s] ELSE Adds(c, g, s)]
    OBVIOUS
  <2>3. ASSUME NEW s \in FewOf(S, n + 1) PROVE h[s] = Adds(c, h, s)
    <3>1. h[s] = Adds(c, g, s)
      BY <2>1, <2>2, <2>3
    <3>2. CASE s = {}
      BY <3>1, <3>2 DEF Adds
    <3>3. CASE s # {}
      <4>1. AnyOf(s) \in s /\ s \in SUBSET S /\ Cardinality(s) <= n + 1
        BY <2>3, <3>3, AnyIn DEF FewOf
      <4>2. Cardinality(s \ {AnyOf(s)}) = Cardinality(s) - 1
        BY <1>1, <4>1, FS_RemoveElement
      <4>3. s \ {AnyOf(s)} \in FewOf(S, n) /\ s \ {AnyOf(s)} \in FewOf(S, n + 1)
        BY <1>1, <4>1, <4>2 DEF FewOf
      <4>4. h[s \ {AnyOf(s)}] = g[s \ {AnyOf(s)}]
        BY <2>2, <4>3
      <4> QED BY <3>1, <3>3, <4>4 DEF Adds
    <3> QED BY <3>2, <3>3
  <2>4. h = [s \in FewOf(S, n + 1) |-> Adds(c, h, s)]
    BY <2>2, <2>3
  <2> QED BY <2>4
<1>4. Bad = {}
  <2> SUFFICES ASSUME Bad # {} PROVE FALSE
    OBVIOUS
  <2>1. PICK m \in Bad : \A n \in Bad : m <= n
    <3>1. Bad \in SUBSET Nat
      OBVIOUS
    <3> HIDE DEF Bad
    <3> QED BY <3>1, SmallestId
  <2>2. m \in Nat /\ ~Ok(m)
    OBVIOUS
  <2>3. m # 0
    BY <1>2, <2>2
  <2>4. m - 1 \in Nat /\ m - 1 \notin Bad
    BY <2>1, <2>2, <2>3
  <2>5. Ok(m - 1)
    BY <2>4
  <2> HIDE DEF Ok
  <2>6. Ok((m - 1) + 1)
    BY <1>3, <2>4, <2>5
  <2> QED BY <2>2, <2>6
<1>5. Ok(Cardinality(S))
  <2>1. Cardinality(S) \in Nat
    BY FS_CardinalityType
  <2> HIDE DEF Ok
  <2> QED BY <1>4, <2>1
<1>6. FewOf(S, Cardinality(S)) = SUBSET S
  BY FS_Subset DEF FewOf
<1>7. \E g : g = [s \in SUBSET S |-> Adds(c, g, s)]
  BY <1>5, <1>6
<1>8. SumFcn(c, S) = [s \in SUBSET S |-> Adds(c, SumFcn(c, S), s)]
  BY <1>7 DEF SumFcn
<1> QED BY <1>8

\* The functions of a set and of a subset agree.
LEMMA SumFcnAgree ==
  ASSUME NEW c, NEW S, IsFiniteSet(S), NEW T \in SUBSET S
  PROVE  SumFcn(c, S)[T] = SumOver(c, T)
<1> DEFINE g == SumFcn(c, S)
           h == SumFcn(c, T)
           Bad == {s \in SUBSET T : g[s] # h[s]}
<1>1. IsFiniteSet(T)
  BY FS_Subset
<1>2. /\ \A s \in SUBSET S : g[s] = Adds(c, g, s)
      /\ \A s \in SUBSET T : h[s] = Adds(c, h, s)
  BY <1>1, SumFcnExists
<1> HIDE DEF g, h
<1>3. Bad = {}
  <2> SUFFICES ASSUME Bad # {} PROVE FALSE
    OBVIOUS
  <2>1. Bad \in SUBSET (SUBSET T)
    OBVIOUS
  <2>2. PICK s \in Bad : \A u \in Bad : u \subseteq s => u = s
    <3> HIDE DEF Bad
    <3> QED BY <1>1, <2>1, SmallestSubset
  <2>3. s \in SUBSET T /\ s \in SUBSET S /\ g[s] # h[s]
    OBVIOUS
  <2>4. g[s] = Adds(c, g, s) /\ h[s] = Adds(c, h, s)
    BY <1>2, <2>3
  <2>5. s # {}
    BY <2>3, <2>4 DEF Adds
  <2>6. AnyOf(s) \in s
    BY <2>5, AnyIn
  <2>7. s \ {AnyOf(s)} \notin Bad /\ s \ {AnyOf(s)} \in SUBSET T
    BY <2>2, <2>3, <2>6
  <2>8. g[s \ {AnyOf(s)}] = h[s \ {AnyOf(s)}]
    BY <2>7
  <2> QED BY <2>3, <2>4, <2>5, <2>8 DEF Adds
<1>4. T \in SUBSET T /\ T \notin Bad
  BY <1>3
<1> QED BY <1>4, SumIs DEF g, h

LEMMA SumStep ==
  ASSUME NEW c, NEW S, IsFiniteSet(S)
  PROVE  SumOver(c, S) = IF S = {} THEN 0 ELSE c[AnyOf(S)] + SumOver(c, S \ {AnyOf(S)})
<1>1. \A s \in SUBSET S : SumFcn(c, S)[s] = Adds(c, SumFcn(c, S), s)
  BY SumFcnExists
<1>2. SumFcn(c, S)[S] = Adds(c, SumFcn(c, S), S)
  BY <1>1
<1>3. SumFcn(c, S)[S \ {AnyOf(S)}] = SumOver(c, S \ {AnyOf(S)})
  BY SumFcnAgree
<1> QED BY <1>2, <1>3, SumIs DEF Adds

LEMMA SumNat ==
  ASSUME NEW c, NEW S, IsFiniteSet(S), Counts(c, S)
  PROVE  \A T \in SUBSET S : SumOver(c, T) \in Nat
<1> DEFINE Bad == {s \in SUBSET S : SumOver(c, s) \notin Nat}
<1> SUFFICES ASSUME Bad # {} PROVE FALSE
  OBVIOUS
<1>1. PICK s \in Bad : \A u \in Bad : u \subseteq s => u = s
  <2>1. Bad \in SUBSET (SUBSET S)
    OBVIOUS
  <2> HIDE DEF Bad
  <2> QED BY <2>1, SmallestSubset
<1>2. s \in SUBSET S /\ IsFiniteSet(s) /\ SumOver(c, s) \notin Nat
  BY FS_Subset
<1>3. s # {}
  <2>1. SumOver(c, {}) = 0
    BY FS_EmptySet, SumStep
  <2> QED BY <1>2, <2>1
<1>4. AnyOf(s) \in s
  BY <1>3, AnyIn
<1>5. SumOver(c, s \ {AnyOf(s)}) \in Nat
  BY <1>1, <1>2, <1>4
<1> QED BY <1>2, <1>3, <1>4, <1>5, SumStep DEF Counts

\* Any element can be taken out of a sum first.
LEMMA SumRemove ==
  ASSUME NEW c, NEW S, IsFiniteSet(S), Counts(c, S), NEW x \in S
  PROVE  SumOver(c, S) = c[x] + SumOver(c, S \ {x})
<1> DEFINE Bad == {s \in SUBSET S : \E y \in s : SumOver(c, s) # c[y] + SumOver(c, s \ {y})}
<1>1. Bad = {}
  <2> SUFFICES ASSUME Bad # {} PROVE FALSE
    OBVIOUS
  <2>1. PICK s \in Bad : \A u \in Bad : u \subseteq s => u = s
    <3>1. Bad \in SUBSET (SUBSET S)
      OBVIOUS
    <3> HIDE DEF Bad
    <3> QED BY <3>1, SmallestSubset
  <2>2. PICK y \in s : SumOver(c, s) # c[y] + SumOver(c, s \ {y})
    OBVIOUS
  <2>3. s \in SUBSET S /\ IsFiniteSet(s) /\ IsFiniteSet(s \ {y})
    BY FS_Subset
  <2>4. PICK z \in s : z = AnyOf(s)
    BY <2>2, AnyIn
  <2>5. SumOver(c, s) = c[z] + SumOver(c, s \ {z})
    BY <2>2, <2>3, <2>4, SumStep
  <2>6. z # y
    BY <2>2, <2>5
  <2>7. s \ {z} \notin Bad /\ s \ {y} \notin Bad
    BY <2>1, <2>2
  <2>8. y \in s \ {z} /\ z \in s \ {y} /\ s \ {z} \in SUBSET S /\ s \ {y} \in SUBSET S
    BY <2>3, <2>6
  <2>9. SumOver(c, s \ {z}) = c[y] + SumOver(c, (s \ {z}) \ {y})
    BY <2>7, <2>8
  <2>10. SumOver(c, s \ {y}) = c[z] + SumOver(c, (s \ {y}) \ {z})
    BY <2>7, <2>8
  <2>11. (s \ {y}) \ {z} = (s \ {z}) \ {y}
    OBVIOUS
  <2>12. c[y] \in Nat /\ c[z] \in Nat /\ SumOver(c, (s \ {z}) \ {y}) \in Nat
    <3>1. (s \ {z}) \ {y} \in SUBSET S /\ y \in S /\ z \in S
      BY <2>3
    <3> QED BY <3>1, SumNat DEF Counts
  <2>13. PICK both \in Nat : both = SumOver(c, (s \ {z}) \ {y})
    BY <2>12
  <2>14. /\ SumOver(c, s) = c[z] + (c[y] + both)
         /\ SumOver(c, s \ {y}) = c[z] + both
    BY <2>5, <2>9, <2>10, <2>11, <2>13
  <2>15. c[z] + (c[y] + both) = c[y] + (c[z] + both)
    BY <2>12
  <2> QED BY <2>2, <2>14, <2>15
<1>2. S \in SUBSET S /\ S \notin Bad
  BY <1>1
<1> QED BY <1>2
=============================================================================
