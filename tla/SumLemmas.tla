------------------------------ MODULE SumLemmas ------------------------------
(***************************************************************************)
(* Facts about SumFunctionOnSet and SumFunction of the Functions module,    *)
(* which the accounting invariants are stated with: a sum over a finite set *)
(* is a number, does not depend on the order of its terms, and follows a    *)
(* change of one term.  Induction is over a set of the cases already        *)
(* covered, from the least element of a set of naturals.                    *)
(***************************************************************************)
EXTENDS Integers, Sequences, FiniteSets, Functions, FiniteSetTheorems,
        WellFoundedInduction, TLAPS

\* The element a fold takes from a set, and the table of partial sums of f over
\* the members of D that a fold computes.
Pick(s) == CHOOSE x \in s : TRUE
SumTable(f, D, g) ==
  g = [s \in D |-> IF s = {} THEN 0 ELSE f[Pick(s)] + g[s \ {Pick(s)}]]

-----------------------------------------------------------------------------
(* Induction.                                                               *)

\* Every nonempty set of naturals has a least element.
LEMMA LeastNat ==
  ASSUME NEW T \in SUBSET Nat, T # {}
  PROVE  \E x \in T : \A y \in T : x <= y
<1> DEFINE R == {ss \in Nat \X Nat : ss[1] < ss[2]}
<1>1. IsWellFoundedOn(R, Nat)
  BY NatLessThanWellFounded DEF OpToRel
<1>2. \A x, y \in Nat : <<y, x>> \in R <=> y < x
  OBVIOUS
<1> HIDE DEF R
<1>3. PICK x \in T : \A y \in T : ~(<<y, x>> \in R)
  BY <1>1, WFMin
<1>4. \A y \in T : ~(y < x) /\ y \in Nat /\ x \in Nat
  BY <1>2, <1>3
<1>5. \A y \in T : x <= y
  BY <1>4
<1> QED BY <1>5

\* Induction on the naturals, for the set of the numbers that are covered.
LEMMA NatSetInduction ==
  ASSUME NEW T, 0 \in T, \A n \in Nat : n \in T => n + 1 \in T
  PROVE  \A n \in Nat : n \in T
<1> SUFFICES ASSUME Nat \ T # {} PROVE FALSE
  OBVIOUS
<1>1. PICK x \in Nat \ T : \A y \in Nat \ T : x <= y
  BY LeastNat
<1>2. x # 0 /\ x - 1 \in Nat /\ x - 1 \notin T
  BY <1>1
<1>3. x <= x - 1
  BY <1>1, <1>2
<1> QED BY <1>1, <1>3

-----------------------------------------------------------------------------
(* The table of partial sums exists and is unique.                          *)

\* The fold's choice from a nonempty set is one of its elements.
LEMMA PickIn == \A s : s # {} => Pick(s) \in s
  BY DEF Pick

\* The recursion of the fold has a solution over the subsets of a finite set.
LEMMA TableExists ==
  ASSUME NEW S, IsFiniteSet(S), NEW f
  PROVE  \E g : SumTable(f, SUBSET S, g)
<1> DEFINE Upto(n) == {s \in SUBSET S : Cardinality(s) <= n}
           N == {n \in Nat : \E g : SumTable(f, Upto(n), g)}
<1>1. \A s \in SUBSET S : IsFiniteSet(s) /\ Cardinality(s) \in Nat
  BY FS_Subset, FS_CardinalityType
<1>2. 0 \in N
  <2> DEFINE g == [s \in Upto(0) |-> 0]
  <2>1. \A s \in Upto(0) : s = {}
    BY <1>1, FS_EmptySet
  <2>2. SumTable(f, Upto(0), g)
    BY <2>1 DEF SumTable
  <2> QED BY <2>2
<1>3. ASSUME NEW n \in Nat, n \in N PROVE n + 1 \in N
  <2>1. PICK g : SumTable(f, Upto(n), g)
    BY <1>3
  <2> DEFINE h == [s \in Upto(n + 1) |->
                     IF s = {} THEN 0 ELSE f[Pick(s)] + g[s \ {Pick(s)}]]
  <2>2. \A s \in Upto(n) :
          s \in Upto(n + 1) /\ h[s] = g[s]
    <3>1. \A s \in Upto(n) : s \in Upto(n + 1)
      BY <1>1
    <3>2. \A s \in Upto(n) : g[s] = IF s = {} THEN 0 ELSE f[Pick(s)] + g[s \ {Pick(s)}]
      BY <2>1, Zenon DEF SumTable
    <3> HIDE DEF Upto
    <3> QED BY <3>1, <3>2
  <2>3. \A s \in Upto(n + 1) : s # {} => s \ {Pick(s)} \in Upto(n)
    <3> SUFFICES ASSUME NEW s \in Upto(n + 1), s # {}
                 PROVE  Cardinality(s \ {Pick(s)}) <= n
      OBVIOUS
    <3>1. Cardinality(s \ {Pick(s)}) = Cardinality(s) - 1
      BY <1>1, PickIn, FS_RemoveElement
    <3> QED BY <1>1, <3>1
  <2>4. \A s \in Upto(n + 1) : s # {} => g[s \ {Pick(s)}] = h[s \ {Pick(s)}]
    BY <2>2, <2>3
  <2> HIDE DEF Upto
  <2>5. SumTable(f, Upto(n + 1), h)
    BY <2>4 DEF SumTable
  <2> QED BY <2>5
<1> HIDE DEF N
<1>4. Cardinality(S) \in N
  BY <1>1, <1>2, <1>3, NatSetInduction
<1>5. Upto(Cardinality(S)) = SUBSET S
  BY <1>1, FS_Subset
<1> QED BY <1>4, <1>5 DEF N

\* What SumFunctionOnSet means: the last entry of such a table.
LEMMA SumIsTable ==
  ASSUME NEW S, IsFiniteSet(S), NEW f
  PROVE  \E g : SumTable(f, SUBSET S, g) /\ SumFunctionOnSet(f, S) = g[S]
<1>1. SumFunctionOnSet(f, S) = (CHOOSE g : SumTable(f, SUBSET S, g))[S]
  BY DEF SumFunctionOnSet, FoldFunctionOnSet, MapThenFoldSet, SumTable, Pick
<1>2. SumTable(f, SUBSET S, CHOOSE g : SumTable(f, SUBSET S, g))
  BY TableExists
<1> QED BY <1>1, <1>2

\* Two tables agree wherever both are defined.
LEMMA TablesAgree ==
  ASSUME NEW S, IsFiniteSet(S), NEW f, NEW h, NEW D, NEW E,
         SUBSET S \subseteq D, SUBSET S \subseteq E,
         NEW g1, NEW g2, SumTable(f, D, g1), SumTable(h, E, g2),
         \A x \in S : f[x] = h[x]
  PROVE  \A s \in SUBSET S : g1[s] = g2[s]
<1>1. \A s \in SUBSET S :
        /\ g1[s] = IF s = {} THEN 0 ELSE f[Pick(s)] + g1[s \ {Pick(s)}]
        /\ g2[s] = IF s = {} THEN 0 ELSE h[Pick(s)] + g2[s \ {Pick(s)}]
  <2>1. \A s \in D : g1[s] = IF s = {} THEN 0 ELSE f[Pick(s)] + g1[s \ {Pick(s)}]
    BY Zenon DEF SumTable
  <2>2. \A s \in E : g2[s] = IF s = {} THEN 0 ELSE h[Pick(s)] + g2[s \ {Pick(s)}]
    BY Zenon DEF SumTable
  <2> QED BY <2>1, <2>2
<1>2. \A n \in Nat : n \in {m \in Nat : \A s \in SUBSET S :
                               Cardinality(s) = m => g1[s] = g2[s]}
  <2> DEFINE N == {m \in Nat : \A s \in SUBSET S : Cardinality(s) = m => g1[s] = g2[s]}
  <2>0. \A s \in SUBSET S : IsFiniteSet(s) /\ Cardinality(s) \in Nat
    BY FS_Subset, FS_CardinalityType
  <2>1. 0 \in N
    BY <1>1, <2>0, FS_EmptySet
  <2>2. ASSUME NEW n \in Nat, n \in N PROVE n + 1 \in N
    <3> SUFFICES ASSUME NEW s \in SUBSET S, Cardinality(s) = n + 1
                 PROVE  g1[s] = g2[s]
      OBVIOUS
    <3>1. s # {}
      <4>1. n + 1 # 0
        OBVIOUS
      <4> QED BY <4>1, FS_EmptySet
    <3>2. Pick(s) \in s
      BY <3>1, PickIn
    <3>3. Cardinality(s \ {Pick(s)}) = n
      <4>1. Cardinality(s \ {Pick(s)}) = Cardinality(s) - 1
        BY <2>0, <3>2, FS_RemoveElement
      <4> QED BY <4>1
    <3>4. g1[s \ {Pick(s)}] = g2[s \ {Pick(s)}] /\ f[Pick(s)] = h[Pick(s)]
      BY <2>2, <3>2, <3>3
    <3> QED BY <1>1, <3>1, <3>4
  <2> HIDE DEF N
  <2>3. \A n \in Nat : n \in N
    BY <2>1, <2>2, NatSetInduction
  <2> QED BY <2>3 DEF N
<1> QED BY <1>2, FS_Subset, FS_CardinalityType

-----------------------------------------------------------------------------
(* Sums.                                                                    *)

\* The sum over the empty set is 0.
LEMMA SumEmpty == \A f : SumFunctionOnSet(f, {}) = 0
<1> TAKE f
<1>1. PICK g : SumTable(f, SUBSET {}, g) /\ SumFunctionOnSet(f, {}) = g[{}]
  BY SumIsTable, FS_EmptySet
<1> QED BY <1>1 DEF SumTable

\* One step of the fold: the chosen term and the sum of the others.
LEMMA SumUnfold ==
  ASSUME NEW S, IsFiniteSet(S), S # {}, NEW f
  PROVE  SumFunctionOnSet(f, S) = f[Pick(S)] + SumFunctionOnSet(f, S \ {Pick(S)})
<1> DEFINE R == S \ {Pick(S)}
<1>1. IsFiniteSet(R) /\ R \in SUBSET S
  BY FS_RemoveElement
<1>2. PICK g : SumTable(f, SUBSET S, g) /\ SumFunctionOnSet(f, S) = g[S]
  BY SumIsTable
<1>3. PICK h : SumTable(f, SUBSET R, h) /\ SumFunctionOnSet(f, R) = h[R]
  BY <1>1, SumIsTable
<1>4. g[S] = f[Pick(S)] + g[R]
  BY <1>2 DEF SumTable
<1>5. g[R] = h[R]
  <2> HIDE DEF R
  <2>1. SUBSET R \subseteq SUBSET S /\ R \in SUBSET R
    BY <1>1
  <2> QED BY <1>1, <1>2, <1>3, <2>1, TablesAgree
<1> QED BY <1>2, <1>3, <1>4, <1>5

\* A sum depends only on the terms over its index set.
LEMMA SumCongruent ==
  ASSUME NEW S, IsFiniteSet(S), NEW f, NEW h, \A x \in S : f[x] = h[x]
  PROVE  SumFunctionOnSet(f, S) = SumFunctionOnSet(h, S)
<1>1. PICK g1 : SumTable(f, SUBSET S, g1) /\ SumFunctionOnSet(f, S) = g1[S]
  BY SumIsTable
<1>2. PICK g2 : SumTable(h, SUBSET S, g2) /\ SumFunctionOnSet(h, S) = g2[S]
  BY SumIsTable
<1> QED BY <1>1, <1>2, TablesAgree

\* A sum of integers is an integer, and a sum of naturals a natural.
LEMMA SumType ==
  ASSUME NEW S, IsFiniteSet(S), NEW f
  PROVE  /\ (\A x \in S : f[x] \in Int) => SumFunctionOnSet(f, S) \in Int
         /\ (\A x \in S : f[x] \in Nat) => SumFunctionOnSet(f, S) \in Nat
<1> DEFINE N == {n \in Nat : \A s \in SUBSET S : Cardinality(s) = n =>
                   /\ (\A x \in S : f[x] \in Int) => SumFunctionOnSet(f, s) \in Int
                   /\ (\A x \in S : f[x] \in Nat) => SumFunctionOnSet(f, s) \in Nat}
<1>1. \A s \in SUBSET S : IsFiniteSet(s) /\ Cardinality(s) \in Nat
  BY FS_Subset, FS_CardinalityType
<1>2. 0 \in N
  BY <1>1, SumEmpty, FS_EmptySet
<1>3. ASSUME NEW n \in Nat, n \in N PROVE n + 1 \in N
  <2> SUFFICES ASSUME NEW s \in SUBSET S, Cardinality(s) = n + 1
               PROVE  /\ (\A x \in S : f[x] \in Int) => SumFunctionOnSet(f, s) \in Int
                      /\ (\A x \in S : f[x] \in Nat) => SumFunctionOnSet(f, s) \in Nat
    OBVIOUS
  <2>1. s # {}
    <3>1. n + 1 # 0
      OBVIOUS
    <3> QED BY <3>1, FS_EmptySet
  <2>2. Pick(s) \in s
    BY <2>1, PickIn
  <2>3. Cardinality(s \ {Pick(s)}) = n
    <3>1. Cardinality(s \ {Pick(s)}) = Cardinality(s) - 1
      BY <1>1, <2>2, FS_RemoveElement
    <3> QED BY <3>1
  <2>4. SumFunctionOnSet(f, s) = f[Pick(s)] + SumFunctionOnSet(f, s \ {Pick(s)})
    BY <1>1, <2>1, SumUnfold
  <2> QED BY <1>3, <2>2, <2>3, <2>4
<1> HIDE DEF N
<1>4. Cardinality(S) \in N
  BY <1>1, <1>2, <1>3, NatSetInduction
<1> QED BY <1>4 DEF N

\* The order of the terms does not matter: any of them may be taken out first.
LEMMA SumPick ==
  ASSUME NEW S, IsFiniteSet(S), NEW f, \A x \in S : f[x] \in Int
  PROVE  \A x \in S :
           SumFunctionOnSet(f, S) = f[x] + SumFunctionOnSet(f, S \ {x})
<1> DEFINE N == {n \in Nat : \A s \in SUBSET S : Cardinality(s) = n =>
                   \A x \in s : SumFunctionOnSet(f, s)
                                 = f[x] + SumFunctionOnSet(f, s \ {x})}
<1>1. \A s \in SUBSET S : IsFiniteSet(s) /\ Cardinality(s) \in Nat
  BY FS_Subset, FS_CardinalityType
<1>2. 0 \in N
  BY <1>1, FS_EmptySet
<1>3. ASSUME NEW n \in Nat, n \in N PROVE n + 1 \in N
  <2> SUFFICES ASSUME NEW s \in SUBSET S, Cardinality(s) = n + 1, NEW x \in s
               PROVE  SumFunctionOnSet(f, s) = f[x] + SumFunctionOnSet(f, s \ {x})
    OBVIOUS
  <2> DEFINE y == Pick(s)
             A == s \ {x}
             B == s \ {y}
             C == s \ {x, y}
  <2>1. SumFunctionOnSet(f, s) = f[y] + SumFunctionOnSet(f, B)
    BY <1>1, SumUnfold
  <2>2. y \in s
    BY PickIn
  <2>3. CASE y = x
    BY <2>1, <2>3
  <2>4. CASE y # x
    <3>1. Cardinality(A) = n /\ Cardinality(B) = n
      <4>1. Cardinality(A) = Cardinality(s) - 1 /\ Cardinality(B) = Cardinality(s) - 1
        BY <1>1, <2>2, FS_RemoveElement
      <4> QED BY <4>1
    <3>2. A \in SUBSET S /\ B \in SUBSET S /\ C \in SUBSET S
      OBVIOUS
    <3>3. A \ {y} = C /\ B \ {x} = C /\ y \in A /\ x \in B
      BY <2>2, <2>4
    <3>4. SumFunctionOnSet(f, A) = f[y] + SumFunctionOnSet(f, C)
      BY <1>3, <3>1, <3>2, <3>3
    <3>5. SumFunctionOnSet(f, B) = f[x] + SumFunctionOnSet(f, C)
      BY <1>3, <3>1, <3>2, <3>3
    <3>6. f[x] \in Int /\ f[y] \in Int /\ SumFunctionOnSet(f, C) \in Int
      BY <1>1, <2>2, <3>2, SumType
    <3>7. SumFunctionOnSet(f, s) = f[x] + SumFunctionOnSet(f, A)
      <4> HIDE DEF y, A, B, C
      <4> QED BY <2>1, <3>4, <3>5, <3>6
    <3> QED BY <3>7
  <2> QED BY <2>3, <2>4
<1> HIDE DEF N
<1>4. Cardinality(S) \in N
  BY <1>1, <1>2, <1>3, NatSetInduction
<1> QED BY <1>4 DEF N

-----------------------------------------------------------------------------
(* Sums that follow a change.                                               *)

\* Changing one term changes the sum by the difference.
LEMMA SumChange ==
  ASSUME NEW S, IsFiniteSet(S), NEW f, NEW h, NEW x \in S,
         \A y \in S : f[y] \in Int /\ h[y] \in Int,
         \A y \in S \ {x} : h[y] = f[y]
  PROVE  SumFunctionOnSet(h, S) = SumFunctionOnSet(f, S) + (h[x] - f[x])
<1> DEFINE R == S \ {x}
<1>1. IsFiniteSet(R)
  BY FS_RemoveElement
<1>2. SumFunctionOnSet(f, R) \in Int
  BY <1>1, SumType
<1>3. SumFunctionOnSet(f, R) = SumFunctionOnSet(h, R)
  BY <1>1, SumCongruent
<1>4. /\ SumFunctionOnSet(f, S) = f[x] + SumFunctionOnSet(f, R)
      /\ SumFunctionOnSet(h, S) = h[x] + SumFunctionOnSet(h, R)
  BY SumPick
<1> HIDE DEF R
<1> QED BY <1>2, <1>3, <1>4

\* Adding a term to the index set adds it to the sum.
LEMMA SumGrow ==
  ASSUME NEW S, IsFiniteSet(S), NEW x, x \notin S, NEW f, NEW h,
         \A y \in S : f[y] \in Int /\ h[y] = f[y], h[x] \in Int
  PROVE  SumFunctionOnSet(h, S \cup {x}) = SumFunctionOnSet(f, S) + h[x]
<1> DEFINE T == S \cup {x}
<1>1. IsFiniteSet(T) /\ T \ {x} = S
  BY FS_AddElement
<1>2. SumFunctionOnSet(h, T) = h[x] + SumFunctionOnSet(h, S)
  BY <1>1, SumPick
<1>3. SumFunctionOnSet(f, S) = SumFunctionOnSet(h, S)
  BY SumCongruent
<1>4. SumFunctionOnSet(f, S) \in Int
  BY SumType
<1> QED BY <1>2, <1>3, <1>4

\* A sum of zeros is 0.
LEMMA SumZero ==
  ASSUME NEW S, IsFiniteSet(S), NEW f, \A x \in S : f[x] = 0
  PROVE  SumFunctionOnSet(f, S) = 0
<1> DEFINE N == {n \in Nat : \A s \in SUBSET S :
                   Cardinality(s) = n => SumFunctionOnSet(f, s) = 0}
<1>1. \A s \in SUBSET S : IsFiniteSet(s) /\ Cardinality(s) \in Nat
  BY FS_Subset, FS_CardinalityType
<1>2. 0 \in N
  BY <1>1, SumEmpty, FS_EmptySet
<1>3. ASSUME NEW n \in Nat, n \in N PROVE n + 1 \in N
  <2> SUFFICES ASSUME NEW s \in SUBSET S, Cardinality(s) = n + 1
               PROVE  SumFunctionOnSet(f, s) = 0
    OBVIOUS
  <2>1. s # {}
    <3>1. n + 1 # 0
      OBVIOUS
    <3> QED BY <3>1, FS_EmptySet
  <2>2. Pick(s) \in s
    BY <2>1, PickIn
  <2>3. Cardinality(s \ {Pick(s)}) = n
    <3>1. Cardinality(s \ {Pick(s)}) = Cardinality(s) - 1
      BY <1>1, <2>2, FS_RemoveElement
    <3> QED BY <3>1
  <2>4. SumFunctionOnSet(f, s) = f[Pick(s)] + SumFunctionOnSet(f, s \ {Pick(s)})
    BY <1>1, <2>1, SumUnfold
  <2> QED BY <1>3, <2>2, <2>3, <2>4
<1> HIDE DEF N
<1>4. Cardinality(S) \in N
  BY <1>1, <1>2, <1>3, NatSetInduction
<1> QED BY <1>4 DEF N

\* The same for a whole function, as SumFunction states it.
LEMMA SumFunctionChange ==
  ASSUME NEW D, IsFiniteSet(D), NEW f \in [D -> Int], NEW h \in [D -> Int],
         NEW x \in D, \A y \in D \ {x} : h[y] = f[y]
  PROVE  SumFunction(h) = SumFunction(f) + (h[x] - f[x])
<1>1. DOMAIN f = D /\ DOMAIN h = D
  OBVIOUS
<1>2. \A y \in D : f[y] \in Int /\ h[y] \in Int
  OBVIOUS
<1> QED BY <1>1, <1>2, SumChange DEF SumFunction

LEMMA SumFunctionGrow ==
  ASSUME NEW D, IsFiniteSet(D), NEW x, x \notin D, NEW f \in [D -> Int],
         NEW h \in [D \cup {x} -> Int], \A y \in D : h[y] = f[y]
  PROVE  SumFunction(h) = SumFunction(f) + h[x]
<1>1. DOMAIN f = D /\ DOMAIN h = D \cup {x}
  OBVIOUS
<1>2. (\A y \in D : f[y] \in Int /\ h[y] = f[y]) /\ h[x] \in Int
  OBVIOUS
<1> QED BY <1>1, <1>2, SumGrow DEF SumFunction
=============================================================================
