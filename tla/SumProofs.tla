------------------------------ MODULE SumProofs ------------------------------
(* Sums over finite sets, which the models take of contributions, shares   *)
(* and balances with MapThenSumSet.  The library states induction over     *)
(* finite sets with a predicate as a parameter, and as the existence of    *)
(* minimal elements: the latter is what is used here.                      *)
EXTENDS Integers, FiniteSetsExt, FiniteSetTheorems, TLAPS

(* The element of a set that MapThenSumSet adds next, and what it adds.    *)
Picked(s) == CHOOSE x \in s : TRUE

NextSum(f, g, s) == IF s = {} THEN 0 ELSE f[Picked(s)] + g[s \ {Picked(s)}]

IsSum(f, S, g) == g = [s \in SUBSET S |-> NextSum(f, g, s)]

Total(f, S) == MapThenSumSet(LAMBDA x : f[x], S)

-----------------------------------------------------------------------------
LEMMA Induction ==
    ASSUME NEW T, T \subseteq Nat, 0 \in T, \A n \in T : n + 1 \in T
    PROVE  \A n \in Nat : n \in T
  <1> SUFFICES ASSUME NEW k \in Nat, k \notin T PROVE FALSE
    OBVIOUS
  <1> DEFINE R == OpToRel(<, Nat)
             Rest == Nat \ T
  <1>1. IsWellFoundedOn(R, Nat)  BY NatLessThanWellFounded
  <1>2. \A x, y \in Nat : x < y => <<x, y>> \in R
    BY DEF OpToRel
  <1> HIDE DEF R
  <1>3. Rest \subseteq Nat /\ Rest # {}  OBVIOUS
  <1> HIDE DEF Rest
  <1>4. PICK m \in Rest : \A y \in Rest : ~(<<y, m>> \in R)
    BY <1>1, <1>3, WFMin
  <1>5. m \in Nat /\ m # 0 /\ m \notin T  BY DEF Rest
  <1>6. m - 1 \in Nat /\ m - 1 < m  BY <1>5
  <1>7. m - 1 \in Rest  BY <1>5, <1>6 DEF Rest
  <1> QED  BY <1>2, <1>4, <1>5, <1>6, <1>7

(* MapThenSumSet's recursion has a solution.                               *)
LEMMA SumExists ==
    ASSUME NEW S, IsFiniteSet(S), NEW f
    PROVE  \E g : IsSum(f, S, g)
  <1> DEFINE Good(n, g) == /\ g = [s \in SUBSET S |-> g[s]]
                           /\ \A s \in SUBSET S :
                                 Cardinality(s) <= n => g[s] = NextSum(f, g, s)
             T == {n \in Nat : \E g : Good(n, g)}
  <1>1. \A s \in SUBSET S : IsFiniteSet(s) /\ Cardinality(s) \in Nat
    BY FS_Subset, FS_CardinalityType
  <1>2. \A s \in SUBSET S : s # {} =>
          /\ Picked(s) \in s /\ s \ {Picked(s)} \in SUBSET S
          /\ Cardinality(s \ {Picked(s)}) = Cardinality(s) - 1
    BY <1>1, FS_RemoveElement DEF Picked
  <1>3. 0 \in T
    <2> DEFINE g == [s \in SUBSET S |-> 0]
    <2>1. \A s \in SUBSET S : Cardinality(s) <= 0 => s = {}
      BY <1>1, FS_EmptySet
    <2>2. Good(0, g)  BY <2>1 DEF NextSum
    <2> QED  BY <2>2
  <1>4. ASSUME NEW n \in T PROVE n + 1 \in T
    <2>1. PICK g : Good(n, g)  OBVIOUS
    <2> DEFINE h == [s \in SUBSET S |-> NextSum(f, g, s)]
    <2>2. ASSUME NEW s \in SUBSET S, Cardinality(s) <= n + 1
          PROVE  h[s] = NextSum(f, h, s)
      <3>1. CASE s = {}  BY <3>1 DEF NextSum
      <3>2. CASE s # {}
        <4> DEFINE r == s \ {Picked(s)}
        <4>1. r \in SUBSET S /\ Cardinality(r) <= n
          BY <1>1, <1>2, <2>2, <3>2
        <4>2. g[r] = NextSum(f, g, r)  BY <2>1, <4>1
        <4>3. h[r] = NextSum(f, g, r)  BY <4>1
        <4>4. h[s] = f[Picked(s)] + g[r]  BY <3>2 DEF NextSum
        <4>5. NextSum(f, h, s) = f[Picked(s)] + h[r]  BY <3>2 DEF NextSum
        <4> QED  BY <4>2, <4>3, <4>4, <4>5
      <3> QED  BY <3>1, <3>2
    <2>3. h = [s \in SUBSET S |-> h[s]]  OBVIOUS
    <2> HIDE DEF h
    <2>4. Good(n + 1, h)  BY <2>2, <2>3
    <2>5. \E k : Good(n + 1, k)  BY <2>4
    <2>6. n + 1 \in Nat  OBVIOUS
    <2> HIDE DEF Good
    <2> QED  BY <2>5, <2>6
  <1> DEFINE size == Cardinality(S)
  <1>5. size \in T
    <2>1. \A n \in Nat : n \in T
      <3> HIDE DEF Good
      <3>1. T \subseteq Nat  OBVIOUS
      <3> HIDE DEF T
      <3> QED  BY <1>3, <1>4, <3>1, Induction
    <2> QED  BY <2>1, FS_CardinalityType
  <1>6. PICK g : Good(size, g)  BY <1>5
  <1>7. \A s \in SUBSET S : g[s] = NextSum(f, g, s)
    BY <1>6, <1>1, FS_Subset, FS_CardinalityType
  <1> QED  BY <1>6, <1>7 DEF IsSum

(* It has only one, even on the subsets of different sets.                 *)
LEMMA SumUnique ==
    ASSUME NEW S, NEW R, IsFiniteSet(S), R \subseteq S, NEW f,
           NEW g, IsSum(f, S, g), NEW h, IsSum(f, R, h)
    PROVE  \A s \in SUBSET R : g[s] = h[s]
  <1> DEFINE Bad == {s \in SUBSET R : g[s] # h[s]}
             Less == StrictSubsetOrdering(S)
  <1>1. SUFFICES ASSUME Bad # {} PROVE FALSE
    OBVIOUS
  <1>2. FiniteSubsetsOf(S) = SUBSET S  BY FS_FiniteSubsetsOfFinite
  <1>3. Bad \subseteq FiniteSubsetsOf(S)  BY <1>2
  <1>4. IsWellFoundedOn(Less, FiniteSubsetsOf(S))
    BY FS_StrictSubsetOrderingWellFounded
  <1> HIDE DEF Bad, Less
  <1>5. PICK m \in Bad : \A y \in Bad : ~(<<y, m>> \in Less)
    BY <1>1, <1>3, <1>4, WFMin
  <1>6. m \in SUBSET R /\ m \in SUBSET S /\ g[m] # h[m]  BY <1>5 DEF Bad
  <1>7. g[m] = NextSum(f, g, m) /\ h[m] = NextSum(f, h, m)
    BY <1>6 DEF IsSum
  <1>8. m # {}  BY <1>6, <1>7 DEF NextSum
  <1> DEFINE x == Picked(m)
             r == m \ {x}
  <1>9. x \in m  BY <1>8 DEF Picked
  <1> HIDE DEF x
  <1>10. r \in SUBSET R /\ r \in SUBSET S /\ r \subseteq m /\ r # m
    BY <1>6, <1>9
  <1>11. <<r, m>> \in Less  BY <1>6, <1>10 DEF Less, StrictSubsetOrdering
  <1>12. g[r] = h[r]  BY <1>5, <1>10, <1>11 DEF Bad
  <1> QED
    BY <1>6, <1>7, <1>8, <1>12 DEF NextSum, x

LEMMA TotalIs ==
    ASSUME NEW S, IsFiniteSet(S), NEW f, NEW g, IsSum(f, S, g)
    PROVE  Total(f, S) = g[S]
  <1>1. Total(f, S) = (CHOOSE h : IsSum(f, S, h))[S]
    BY DEF Total, MapThenSumSet, MapThenFoldSet, IsSum, NextSum, Picked
  <1>2. IsSum(f, S, CHOOSE h : IsSum(f, S, h))  OBVIOUS
  <1> QED  BY <1>1, <1>2, SumUnique

(* MapThenSumSet in two lines.                                             *)
LEMMA TotalRecursion ==
    ASSUME NEW S, IsFiniteSet(S), NEW f
    PROVE  /\ S = {} => Total(f, S) = 0
           /\ S # {} => /\ Picked(S) \in S
                        /\ Total(f, S) = f[Picked(S)] + Total(f, S \ {Picked(S)})
  <1>1. PICK g : IsSum(f, S, g)  BY SumExists
  <1>2. Total(f, S) = g[S] /\ g[S] = NextSum(f, g, S)
    BY <1>1, TotalIs DEF IsSum
  <1>3. CASE S = {}  BY <1>2, <1>3 DEF NextSum
  <1>4. CASE S # {}
    <2> DEFINE R == S \ {Picked(S)}
    <2>1. IsFiniteSet(R) /\ R \subseteq S  BY FS_RemoveElement
    <2>2. PICK h : IsSum(f, R, h)  BY <2>1, SumExists
    <2>3. Total(f, R) = h[R]  BY <2>1, <2>2, TotalIs
    <2> HIDE DEF R
    <2>4. g[R] = h[R]  BY <1>1, <2>1, <2>2, SumUnique
    <2> QED  BY <1>2, <1>4, <2>3, <2>4 DEF NextSum, Picked, R
  <1> QED  BY <1>3, <1>4

LEMMA TotalEmpty == \A f : Total(f, {}) = 0
  BY TotalRecursion, FS_EmptySet

(* Induction over the subsets of a finite set.                             *)
LEMMA SubsetInduction ==
    ASSUME NEW S, IsFiniteSet(S), NEW Q,
           {} \in Q,
           \A s \in SUBSET S : s # {} /\ (\A x \in s : s \ {x} \in Q) => s \in Q
    PROVE  \A s \in SUBSET S : s \in Q
  <1> DEFINE Bad == {s \in SUBSET S : s \notin Q}
             Less == StrictSubsetOrdering(S)
  <1>1. SUFFICES ASSUME Bad # {} PROVE FALSE
    OBVIOUS
  <1>2. Bad \subseteq FiniteSubsetsOf(S)  BY FS_FiniteSubsetsOfFinite
  <1>3. IsWellFoundedOn(Less, FiniteSubsetsOf(S))
    BY FS_StrictSubsetOrderingWellFounded
  <1> HIDE DEF Bad, Less
  <1>4. PICK m \in Bad : \A y \in Bad : ~(<<y, m>> \in Less)
    BY <1>1, <1>2, <1>3, WFMin
  <1>5. m \in SUBSET S /\ m \notin Q /\ m # {}  BY <1>4 DEF Bad
  <1>6. ASSUME NEW x \in m PROVE m \ {x} \in Q
    <2>1. m \ {x} \in SUBSET S /\ <<m \ {x}, m>> \in Less
      BY <1>5 DEF Less, StrictSubsetOrdering
    <2> QED  BY <1>4, <2>1 DEF Bad
  <1> QED  BY <1>5, <1>6

-----------------------------------------------------------------------------
(* A sum is that of its terms, whatever is said of others.                 *)
LEMMA TotalAgrees ==
    ASSUME NEW S, IsFiniteSet(S), NEW f, NEW e, \A x \in S : e[x] = f[x]
    PROVE  Total(e, S) = Total(f, S)
  <1>1. PICK h : IsSum(e, S, h)  BY SumExists
  <1>2. \A s \in SUBSET S : NextSum(e, h, s) = NextSum(f, h, s)
    BY DEF NextSum, Picked
  <1>3. IsSum(f, S, h)  BY <1>1, <1>2 DEF IsSum
  <1> QED  BY <1>1, <1>3, TotalIs

LEMMA TotalType ==
    ASSUME NEW S, IsFiniteSet(S), NEW f, \A x \in S : f[x] \in Nat
    PROVE  Total(f, S) \in Nat
  <1> DEFINE Q == {s \in SUBSET S : Total(f, s) \in Nat}
  <1>1. {} \in Q  BY TotalEmpty
  <1>2. ASSUME NEW s \in SUBSET S, s # {}, \A x \in s : s \ {x} \in Q
        PROVE  s \in Q
    <2>1. IsFiniteSet(s)  BY FS_Subset
    <2>2. /\ Picked(s) \in s
          /\ Total(f, s) = f[Picked(s)] + Total(f, s \ {Picked(s)})
      BY <1>2, <2>1, TotalRecursion
    <2>3. Total(f, s \ {Picked(s)}) \in Nat /\ f[Picked(s)] \in Nat
      BY <1>2, <2>2
    <2> QED  BY <2>2, <2>3
  <1> HIDE DEF Q
  <1>3. \A s \in SUBSET S : s \in Q  BY <1>1, <1>2, SubsetInduction
  <1> QED  BY <1>3 DEF Q

(* The order in which the terms are added does not matter.                 *)
LEMMA TotalRemove ==
    ASSUME NEW S, IsFiniteSet(S), NEW f, \A x \in S : f[x] \in Nat, NEW z \in S
    PROVE  Total(f, S) = f[z] + Total(f, S \ {z})
  <1> DEFINE Q == {s \in SUBSET S :
                     \A x \in s : Total(f, s) = f[x] + Total(f, s \ {x})}
  <1>1. {} \in Q  OBVIOUS
  <1>2. ASSUME NEW s \in SUBSET S, s # {}, \A x \in s : s \ {x} \in Q
        PROVE  s \in Q
    <2> SUFFICES ASSUME NEW x \in s
                 PROVE  Total(f, s) = f[x] + Total(f, s \ {x})
      OBVIOUS
    <2> DEFINE y == Picked(s)
    <2>1. IsFiniteSet(s)  BY FS_Subset
    <2>2. y \in s /\ Total(f, s) = f[y] + Total(f, s \ {y})
      BY <1>2, <2>1, TotalRecursion
    <2> HIDE DEF y
    <2>3. CASE x = y  BY <2>2, <2>3
    <2>4. CASE x # y
      <3> DEFINE r == (s \ {x}) \ {y}
      <3>1. r = (s \ {y}) \ {x} /\ r \in SUBSET S  OBVIOUS
      <3>2. Total(f, s \ {y}) = f[x] + Total(f, r)
        BY <1>2, <2>2, <2>4, <3>1
      <3>3. Total(f, s \ {x}) = f[y] + Total(f, r)
        BY <1>2, <2>2, <2>4
      <3>4. Total(f, r) \in Nat /\ f[x] \in Nat /\ f[y] \in Nat
        <4>1. IsFiniteSet(r) /\ \A k \in r : f[k] \in Nat
          BY <3>1, FS_Subset
        <4> QED  BY <2>2, <4>1, TotalType
      <3> QED  BY <2>2, <3>2, <3>3, <3>4
    <2> QED  BY <2>3, <2>4
  <1> HIDE DEF Q
  <1>3. \A s \in SUBSET S : s \in Q  BY <1>1, <1>2, SubsetInduction
  <1> QED  BY <1>3 DEF Q

LEMMA TotalAdd ==
    ASSUME NEW S, IsFiniteSet(S), NEW f, NEW z, z \notin S,
           \A x \in S \union {z} : f[x] \in Nat
    PROVE  Total(f, S \union {z}) = f[z] + Total(f, S)
  <1> DEFINE more == S \union {z}
  <1>1. IsFiniteSet(more) /\ z \in more /\ more \ {z} = S  BY FS_AddElement
  <1>2. \A x \in more : f[x] \in Nat  OBVIOUS
  <1> HIDE DEF more
  <1>3. Total(f, more) = f[z] + Total(f, more \ {z})
    BY <1>1, <1>2, TotalRemove
  <1> QED  BY <1>1, <1>3 DEF more

(* One term changes.                                                       *)
LEMMA TotalChange ==
    ASSUME NEW S, IsFiniteSet(S), NEW z \in S,
           NEW f, \A x \in S : f[x] \in Nat,
           NEW e, \A x \in S : e[x] \in Nat,
           \A x \in S \ {z} : e[x] = f[x]
    PROVE  /\ Total(f, S) \in Nat /\ Total(e, S) \in Nat
           /\ f[z] <= Total(f, S)
           /\ Total(e, S) = Total(f, S) - f[z] + e[z]
  <1> DEFINE R == S \ {z}
  <1>1. IsFiniteSet(R)  BY FS_RemoveElement
  <1>2. Total(e, R) = Total(f, R)  BY <1>1, TotalAgrees
  <1>3. Total(f, R) \in Nat  BY <1>1, TotalType
  <1>4. Total(f, S) = f[z] + Total(f, R)  BY TotalRemove
  <1>5. Total(e, S) = e[z] + Total(e, R)  BY TotalRemove
  <1>6. f[z] \in Nat /\ e[z] \in Nat  OBVIOUS
  <1> HIDE DEF R
  <1> QED  BY <1>2, <1>3, <1>4, <1>5, <1>6

LEMMA TotalMonotone ==
    ASSUME NEW S, IsFiniteSet(S),
           NEW f, \A x \in S : f[x] \in Nat,
           NEW e, \A x \in S : e[x] \in Nat,
           \A x \in S : e[x] <= f[x]
    PROVE  Total(e, S) <= Total(f, S)
  <1> DEFINE Q == {s \in SUBSET S : Total(e, s) <= Total(f, s)}
  <1>1. {} \in Q  BY TotalEmpty
  <1>2. ASSUME NEW s \in SUBSET S, s # {}, \A x \in s : s \ {x} \in Q
        PROVE  s \in Q
    <2>1. PICK x \in s : TRUE  BY <1>2
    <2> DEFINE r == s \ {x}
    <2>2. IsFiniteSet(s) /\ IsFiniteSet(r) /\ r \in SUBSET S  BY FS_Subset
    <2>3. Total(e, s) = e[x] + Total(e, r)  BY <2>2, TotalRemove
    <2>4. Total(f, s) = f[x] + Total(f, r)  BY <2>2, TotalRemove
    <2>5. Total(e, r) \in Nat /\ Total(f, r) \in Nat  BY <2>2, TotalType
    <2>6. Total(e, r) <= Total(f, r)  BY <1>2
    <2>7. e[x] <= f[x] /\ e[x] \in Nat /\ f[x] \in Nat  OBVIOUS
    <2> HIDE DEF r
    <2>8. Total(e, s) <= Total(f, s)  BY <2>3, <2>4, <2>5, <2>6, <2>7
    <2> QED  BY <2>8
  <1> HIDE DEF Q
  <1>3. \A s \in SUBSET S : s \in Q  BY <1>1, <1>2, SubsetInduction
  <1> QED  BY <1>3 DEF Q

LEMMA TotalPlus ==
    ASSUME NEW S, IsFiniteSet(S),
           NEW f, \A x \in S : f[x] \in Nat,
           NEW e, \A x \in S : e[x] \in Nat,
           NEW h, \A x \in S : h[x] = f[x] + e[x]
    PROVE  Total(h, S) = Total(f, S) + Total(e, S)
  <1> DEFINE Q == {s \in SUBSET S : Total(h, s) = Total(f, s) + Total(e, s)}
  <1>1. {} \in Q  BY TotalEmpty
  <1>2. ASSUME NEW s \in SUBSET S, s # {}, \A x \in s : s \ {x} \in Q
        PROVE  s \in Q
    <2>1. PICK x \in s : TRUE  BY <1>2
    <2> DEFINE r == s \ {x}
    <2>2. IsFiniteSet(s) /\ IsFiniteSet(r) /\ r \in SUBSET S  BY FS_Subset
    <2>3. Total(e, s) = e[x] + Total(e, r)  BY <2>2, TotalRemove
    <2>4. Total(f, s) = f[x] + Total(f, r)  BY <2>2, TotalRemove
    <2>5. \A k \in s : h[k] \in Nat  OBVIOUS
    <2>6. Total(h, s) = h[x] + Total(h, r)  BY <2>2, <2>5, TotalRemove
    <2>7. Total(e, r) \in Nat /\ Total(f, r) \in Nat  BY <2>2, TotalType
    <2>8. Total(h, r) = Total(f, r) + Total(e, r)  BY <1>2
    <2>9. h[x] = f[x] + e[x] /\ e[x] \in Nat /\ f[x] \in Nat  OBVIOUS
    <2> HIDE DEF r
    <2>10. Total(h, s) = Total(f, s) + Total(e, s)
      BY <2>3, <2>4, <2>6, <2>7, <2>8, <2>9
    <2> QED  BY <2>10
  <1> HIDE DEF Q
  <1>3. \A s \in SUBSET S : s \in Q  BY <1>1, <1>2, SubsetInduction
  <1> QED  BY <1>3 DEF Q

LEMMA TotalTimes ==
    ASSUME NEW S, IsFiniteSet(S), NEW k \in Nat,
           NEW f, \A x \in S : f[x] \in Nat,
           NEW h, \A x \in S : h[x] = f[x] * k
    PROVE  Total(h, S) = Total(f, S) * k
  <1> DEFINE Q == {s \in SUBSET S : Total(h, s) = Total(f, s) * k}
  <1>1. {} \in Q  BY TotalEmpty
  <1>2. ASSUME NEW s \in SUBSET S, s # {}, \A x \in s : s \ {x} \in Q
        PROVE  s \in Q
    <2>1. PICK x \in s : TRUE  BY <1>2
    <2> DEFINE r == s \ {x}
    <2>2. IsFiniteSet(s) /\ IsFiniteSet(r) /\ r \in SUBSET S  BY FS_Subset
    <2>3. Total(f, s) = f[x] + Total(f, r)  BY <2>2, TotalRemove
    <2>4. \A y \in s : h[y] \in Nat  OBVIOUS
    <2>5. Total(h, s) = h[x] + Total(h, r)  BY <2>2, <2>4, TotalRemove
    <2>6. Total(f, r) \in Nat  BY <2>2, TotalType
    <2>7. Total(h, r) = Total(f, r) * k  BY <1>2
    <2>8. h[x] = f[x] * k /\ f[x] \in Nat  OBVIOUS
    <2> HIDE DEF r
    <2>9. (f[x] + Total(f, r)) * k = f[x] * k + Total(f, r) * k
      BY <2>6, <2>8
    <2>10. Total(h, s) = Total(f, s) * k  BY <2>3, <2>5, <2>7, <2>8, <2>9
    <2> QED  BY <2>10
  <1> HIDE DEF Q
  <1>3. \A s \in SUBSET S : s \in Q  BY <1>1, <1>2, SubsetInduction
  <1> QED  BY <1>3 DEF Q

(* Terms that are zero may be left out.                                    *)
LEMMA TotalOfRest ==
    ASSUME NEW S, IsFiniteSet(S), NEW f, \A x \in S : f[x] \in Nat,
           NEW R, R \subseteq S, \A x \in S \ R : f[x] = 0
    PROVE  Total(f, S) = Total(f, R)
  <1> DEFINE Q == {s \in SUBSET S : Total(f, s) = Total(f, s \intersect R)}
  <1>1. {} \in Q  OBVIOUS
  <1>2. ASSUME NEW s \in SUBSET S, s # {}, \A x \in s : s \ {x} \in Q
        PROVE  s \in Q
    <2>1. PICK x \in s : TRUE  BY <1>2
    <2> DEFINE r == s \ {x}
               sR == s \intersect R
               rR == r \intersect R
    <2>2. IsFiniteSet(s) /\ IsFiniteSet(r) /\ r \in SUBSET S
          /\ IsFiniteSet(sR) /\ sR \in SUBSET S
          /\ IsFiniteSet(rR) /\ rR \in SUBSET S
      BY FS_Subset
    <2>3. Total(f, s) = f[x] + Total(f, r)  BY <2>2, TotalRemove
    <2>4. Total(f, r) = Total(f, rR)  BY <1>2
    <2>5. Total(f, rR) \in Nat  BY <2>2, TotalType
    <2>6. CASE x \in R
      <3>1. x \in sR /\ sR \ {x} = rR  BY <2>6
      <3> HIDE DEF sR, rR
      <3>2. \A y \in sR : f[y] \in Nat  BY <2>2
      <3>3. Total(f, sR) = f[x] + Total(f, sR \ {x})
        BY <2>2, <3>1, <3>2, TotalRemove
      <3>4. Total(f, s) = Total(f, sR)  BY <2>3, <2>4, <3>1, <3>3
      <3> QED  BY <3>4 DEF sR
    <2>7. CASE x \notin R
      <3>1. sR = rR /\ f[x] = 0  BY <2>7
      <3> HIDE DEF sR, rR
      <3>2. Total(f, s) = Total(f, sR)  BY <2>3, <2>4, <2>5, <3>1
      <3> QED  BY <3>2 DEF sR
    <2> QED  BY <2>6, <2>7
  <1> HIDE DEF Q
  <1>3. \A s \in SUBSET S : s \in Q  BY <1>1, <1>2, SubsetInduction
  <1>4. S \intersect R = R  OBVIOUS
  <1> QED  BY <1>3, <1>4 DEF Q

-----------------------------------------------------------------------------
(* An amount split in proportion to parts of a whole, every share rounded  *)
(* down: the shares do not exceed it.                                      *)
LEMMA DivisionBounds ==
    ASSUME NEW a \in Nat, NEW d \in Nat \ {0}
    PROVE  a \div d \in Nat /\ (a \div d) * d <= a
  <1> DEFINE q == a \div d
             r == a % d
  <1>1. q \in Nat /\ r \in 0 .. (d - 1) /\ a = d * q + r  OBVIOUS
  <1> HIDE DEF q, r
  <1>2. d * q = q * d  BY <1>1
  <1>3. q * d <= a  BY <1>1, <1>2
  <1> QED  BY <1>1, <1>3 DEF q

LEMMA ProductOrder ==
    ASSUME NEW a \in Nat, NEW b \in Nat, NEW d \in Nat \ {0}, a * d <= b * d
    PROVE  a <= b
  <1> SUFFICES ASSUME a >= b + 1 PROVE FALSE
    OBVIOUS
  <1>1. a * d >= (b + 1) * d  OBVIOUS
  <1>2. (b + 1) * d = b * d + d  OBVIOUS
  <1>3. a * d \in Nat /\ b * d \in Nat  OBVIOUS
  <1> QED  BY <1>1, <1>2, <1>3

LEMMA SharesFit ==
    ASSUME NEW S, IsFiniteSet(S), NEW f, \A x \in S : f[x] \in Nat,
           NEW whole \in Nat \ {0}, Total(f, S) <= whole, NEW amount \in Nat,
           NEW h, \A x \in S : h[x] = (f[x] * amount) \div whole
    PROVE  /\ \A x \in S : h[x] \in Nat
           /\ Total(h, S) \in Nat
           /\ Total(h, S) <= amount
  <1> DEFINE scaled == [x \in S |-> h[x] * whole]
             parts == [x \in S |-> f[x] * amount]
  <1>1. ASSUME NEW x \in S
        PROVE  h[x] \in Nat /\ h[x] * whole <= f[x] * amount
               /\ h[x] * whole \in Nat /\ f[x] * amount \in Nat
    <2>1. f[x] * amount \in Nat  OBVIOUS
    <2>2. h[x] \in Nat /\ h[x] * whole <= f[x] * amount
      BY <2>1, DivisionBounds
    <2> QED  BY <2>1, <2>2
  <1>2. Total(scaled, S) = Total(h, S) * whole
    <2>1. \A x \in S : h[x] \in Nat /\ scaled[x] = h[x] * whole  BY <1>1
    <2> HIDE DEF scaled
    <2> QED  BY <2>1, TotalTimes
  <1>3. Total(parts, S) = Total(f, S) * amount
    <2>1. \A x \in S : f[x] \in Nat /\ parts[x] = f[x] * amount  OBVIOUS
    <2> HIDE DEF parts
    <2> QED  BY <2>1, TotalTimes
  <1>4. Total(scaled, S) <= Total(parts, S)
    <2>1. \A x \in S : /\ scaled[x] \in Nat /\ parts[x] \in Nat
                       /\ scaled[x] <= parts[x]
      BY <1>1
    <2> HIDE DEF scaled, parts
    <2> QED  BY <2>1, TotalMonotone
  <1>5. Total(h, S) \in Nat /\ Total(f, S) \in Nat
    BY <1>1, TotalType
  <1>6. Total(f, S) * amount <= whole * amount  BY <1>5
  <1>7. Total(h, S) * whole <= amount * whole
    BY <1>2, <1>3, <1>4, <1>5, <1>6
  <1>8. Total(h, S) <= amount  BY <1>5, <1>7, ProductOrder
  <1> QED  BY <1>1, <1>5, <1>8
=============================================================================
