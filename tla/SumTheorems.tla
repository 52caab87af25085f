---------------------------- MODULE SumTheorems ----------------------------
(***************************************************************************)
(* Sums of a function over a finite set, for the counters of bytes: what   *)
(* SumFunction and SumFunctionOnSet of the community module Functions      *)
(* return, and how a sum changes when one of its terms does.               *)
(*                                                                         *)
(* The library defines a sum by recursion on the set it adds up (it takes  *)
(* one element away by CHOOSE).  No theorem of the library can be used     *)
(* here that has an operator as a parameter, induction among them.  The    *)
(* proofs look for a smallest counterexample instead: the finite subsets   *)
(* of a set are well founded by inclusion, and WFMin gives every nonempty  *)
(* set of them a smallest member (Smallest).                               *)
(***************************************************************************)
EXTENDS Integers, Functions, FiniteSets, FiniteSetTheorems, WellFoundedInduction, TLAPS

\* The element that the recursion takes from s first.
Pick(s) == CHOOSE x \in s : TRUE

\* It is one of them.
LEMMA PickIn == \A s : s # {} => Pick(s) \in s
BY Zenon DEF Pick

\* The partial sums of f over the subsets of S.
Sums(f, S) == CHOOSE g : g = [s \in SUBSET S |-> IF s = {} THEN 0 ELSE f[Pick(s)] + g[s \ {Pick(s)}]]

\* The sum over S is the last of the partial sums.
LEMMA SumIs ==
    ASSUME NEW f, NEW S
    PROVE  SumFunctionOnSet(f, S) = Sums(f, S)[S]
BY DEF SumFunctionOnSet, FoldFunctionOnSet, MapThenFoldSet, Sums, Pick

\* Every set of finite subsets has a smallest one.
LEMMA Smallest ==
    ASSUME NEW S, IsFiniteSet(S), NEW C \in SUBSET (SUBSET S), C # {}
    PROVE  \E s \in C : \A t \in C : t \subseteq s => t = s
<1>1. IsWellFoundedOn(StrictSubsetOrdering(S), SUBSET S)
  BY FS_StrictSubsetOrderingWellFounded, FS_FiniteSubsetsOfFinite
<1>2. PICK s \in C : \A t \in C : <<t, s>> \notin StrictSubsetOrdering(S)
  BY <1>1, WFMin
<1>3. ASSUME NEW t \in C, t \subseteq s, t # s PROVE FALSE
  <2>1. <<t, s>> \in (SUBSET S) \X (SUBSET S)
    OBVIOUS
  <2>2. <<t, s>> \in StrictSubsetOrdering(S)
    BY <1>3, <2>1 DEF StrictSubsetOrdering
  <2> QED
    BY <1>2, <1>3, <2>2
<1> QED
  BY <1>3

\* The order of the natural numbers.
Before == {p \in Nat \X Nat : p[1] < p[2]}

\* A set of numbers that holds 0 and every successor.
LEMMA Reaches ==
    ASSUME NEW C \in SUBSET Nat, 0 \in C, \A n \in C : n + 1 \in C
    PROVE  C = Nat
<1> SUFFICES ASSUME Nat \ C # {} PROVE FALSE
  OBVIOUS
<1>1. OpToRel(<, Nat) = Before
  BY DEF OpToRel, Before
<1>2. PICK n \in Nat \ C : \A m \in Nat \ C : <<m, n>> \notin Before
  BY <1>1, WFMin, NatLessThanWellFounded
<1>3. n # 0 /\ n - 1 \in Nat /\ (n - 1) + 1 = n
  OBVIOUS
<1>4. <<n - 1, n>> \in Before
  BY <1>3 DEF Before
<1> QED
  BY <1>2, <1>3, <1>4

\* The recursion has a solution, so the partial sums satisfy it.
LEMMA SumsDefined ==
    ASSUME NEW S, IsFiniteSet(S), NEW f
    PROVE  LET g == Sums(f, S)
           IN  g = [s \in SUBSET S |-> IF s = {} THEN 0 ELSE f[Pick(s)] + g[s \ {Pick(s)}]]
<1> DEFINE Value(g, s) == IF s = {} THEN 0 ELSE f[Pick(s)] + g[s \ {Pick(s)}]
           Upto(g, n) == \A s \in SUBSET S : Cardinality(s) <= n => g[s] = Value(g, s)
           Next(g) == [s \in SUBSET S |-> Value(g, s)]
           C == {n \in Nat : \E g : Upto(g, n)}
<1>1. \A s \in SUBSET S : IsFiniteSet(s) /\ Cardinality(s) \in Nat
  BY FS_Subset, FS_CardinalityType
<1>2. \A s \in SUBSET S : s # {} => /\ s \ {Pick(s)} \in SUBSET S
                                    /\ Cardinality(s \ {Pick(s)}) = Cardinality(s) - 1
  BY <1>1, PickIn, FS_RemoveElement
<1>3. 0 \in C
  <2>1. Upto([s \in SUBSET S |-> 0], 0)
    <3> SUFFICES ASSUME NEW s \in SUBSET S, Cardinality(s) <= 0 PROVE s = {}
      OBVIOUS
    <3> QED
      BY <1>1, FS_EmptySet
  <2> QED
    BY <2>1
<1>4. ASSUME NEW n \in Nat, NEW g, Upto(g, n)
      PROVE  Upto(Next(g), n + 1)
  <2> SUFFICES ASSUME NEW s \in SUBSET S, Cardinality(s) <= n + 1
               PROVE  Next(g)[s] = Value(Next(g), s)
    OBVIOUS
  <2>1. CASE s = {}
    BY <2>1
  <2>2. CASE s # {}
    <3> DEFINE t == s \ {Pick(s)}
    <3>1. t \in SUBSET S /\ Cardinality(t) <= n
      BY <1>1, <1>2, <2>2
    <3>2. g[t] = Value(g, t)
      BY <1>4, <3>1
    <3>3. Next(g)[t] = Value(g, t)
      BY <3>1
    <3>4. Next(g)[s] = f[Pick(s)] + g[t]
      BY <2>2
    <3> QED
      BY <2>2, <3>2, <3>3, <3>4
  <2> QED
    BY <2>1, <2>2
<1>5. Cardinality(S) \in C
  <2>1. ASSUME NEW n \in C PROVE n + 1 \in C
    <3>1. PICK g : Upto(g, n)
      BY <2>1
    <3>2. Upto(Next(g), n + 1)
      <4>1. n \in Nat
        OBVIOUS
      <4> HIDE DEF Upto, Next
      <4> QED
        BY <1>4, <3>1, <4>1
    <3>3. \E g2 : Upto(g2, n + 1)
      <4> HIDE DEF Upto, Next
      <4> QED
        BY <3>2, Zenon
    <3>4. n + 1 \in Nat
      BY <2>1
    <3> QED
      BY <3>3, <3>4, Zenon DEF C
  <2> HIDE DEF C
  <2>2. C \in SUBSET Nat
    BY DEF C
  <2>3. C = Nat
    BY <1>3, <2>1, <2>2, Reaches
  <2> QED
    BY <1>1, <2>3
<1>6. PICK g : Upto(g, Cardinality(S))
  BY <1>5
<1>7. \A s \in SUBSET S : Cardinality(s) <= Cardinality(S)
  BY FS_Subset
<1>8. Next(g) = Next(Next(g))
  <2> SUFFICES ASSUME NEW s \in SUBSET S PROVE Value(g, s) = Value(Next(g), s)
    OBVIOUS
  <2>1. \A t \in SUBSET S : g[t] = Value(g, t) /\ Next(g)[t] = Value(g, t)
    BY <1>6, <1>7
  <2> HIDE DEF Next
  <2> QED
    BY <1>2, <2>1
<1>9. \E h : h = [s \in SUBSET S |-> IF s = {} THEN 0 ELSE f[Pick(s)] + h[s \ {Pick(s)}]]
  BY <1>8
<1> QED
  BY <1>9, Zenon DEF Sums

\* The partial sums do not depend on the set that is summed up in the end.
LEMMA SumsOfSubset ==
    ASSUME NEW S, IsFiniteSet(S), NEW f, NEW T \in SUBSET S
    PROVE  SumFunctionOnSet(f, T) = Sums(f, S)[T]
<1>1. Sums(f, S) = [s \in SUBSET S |-> IF s = {} THEN 0 ELSE f[Pick(s)] + Sums(f, S)[s \ {Pick(s)}]]
  BY SumsDefined
<1>2. IsFiniteSet(T)
  BY FS_Subset
<1>3. Sums(f, T) = [s \in SUBSET T |-> IF s = {} THEN 0 ELSE f[Pick(s)] + Sums(f, T)[s \ {Pick(s)}]]
  BY <1>2, SumsDefined
<1> DEFINE C == {s \in SUBSET T : Sums(f, T)[s] # Sums(f, S)[s]}
<1>4. C = {}
  <2> SUFFICES ASSUME C # {} PROVE FALSE
    OBVIOUS
  <2>0. C \in SUBSET (SUBSET T)
    OBVIOUS
  <2> HIDE DEF C
  <2>1. PICK s \in C : \A t \in C : t \subseteq s => t = s
    BY <1>2, <2>0, Smallest
  <2>2. s \in SUBSET T /\ s \in SUBSET S /\ Sums(f, T)[s] # Sums(f, S)[s]
    BY <2>0 DEF C
  <2>3. CASE s = {}
    BY <1>1, <1>3, <2>2, <2>3
  <2>4. CASE s # {}
    <3> DEFINE t == s \ {Pick(s)}
    <3>1. t \subseteq s /\ t # s /\ t \in SUBSET T
      BY <2>2, <2>4, PickIn
    <3>2. Sums(f, T)[t] = Sums(f, S)[t]
      BY <2>1, <3>1 DEF C
    <3>3. Sums(f, T)[s] = f[Pick(s)] + Sums(f, T)[t]
      BY <1>3, <2>2, <2>4
    <3>4. Sums(f, S)[s] = f[Pick(s)] + Sums(f, S)[t]
      BY <1>1, <2>2, <2>4
    <3> QED
      BY <2>2, <3>2, <3>3, <3>4
  <2> QED
    BY <2>3, <2>4
<1>5. T \in SUBSET T
  OBVIOUS
<1> QED
  BY <1>4, <1>5, SumIs

\* The empty sum.
LEMMA SumOfNothing ==
    ASSUME NEW f
    PROVE  SumFunctionOnSet(f, {}) = 0
<1>1. IsFiniteSet({})
  BY FS_EmptySet
<1> QED
  BY <1>1, SumIs, SumsDefined

\* What the recursion comes to: a sum is one of its terms and the sum of the others.
LEMMA SumUnfolds ==
    ASSUME NEW S, IsFiniteSet(S), NEW f, S # {}
    PROVE  SumFunctionOnSet(f, S) = f[Pick(S)] + SumFunctionOnSet(f, S \ {Pick(S)})
<1>1. SumFunctionOnSet(f, S \ {Pick(S)}) = Sums(f, S)[S \ {Pick(S)}]
  BY SumsOfSubset
<1>2. Sums(f, S) = [s \in SUBSET S |-> IF s = {} THEN 0 ELSE f[Pick(s)] + Sums(f, S)[s \ {Pick(s)}]]
  BY SumsDefined
<1> QED
  BY <1>1, <1>2, SumIs

\* A sum of integers is one.
LEMMA SumOnSetType ==
    ASSUME NEW S, IsFiniteSet(S), NEW f, \A x \in S : f[x] \in Int
    PROVE  \A T \in SUBSET S : SumFunctionOnSet(f, T) \in Int
<1> DEFINE C == {s \in SUBSET S : SumFunctionOnSet(f, s) \notin Int}
<1> SUFFICES ASSUME C # {} PROVE FALSE
  OBVIOUS
<1>0. C \in SUBSET (SUBSET S)
  OBVIOUS
<1> HIDE DEF C
<1>1. PICK s \in C : \A t \in C : t \subseteq s => t = s
  BY <1>0, Smallest
<1>2. s \in SUBSET S /\ IsFiniteSet(s) /\ SumFunctionOnSet(f, s) \notin Int
  BY <1>0, FS_Subset DEF C
<1>3. s # {}
  BY <1>2, SumOfNothing
<1>4. s \ {Pick(s)} \notin C /\ s \ {Pick(s)} \in SUBSET S /\ Pick(s) \in S
  BY <1>1, <1>2, <1>3, PickIn
<1>5. SumFunctionOnSet(f, s) = f[Pick(s)] + SumFunctionOnSet(f, s \ {Pick(s)})
  BY <1>2, <1>3, SumUnfolds
<1>6. SumFunctionOnSet(f, s \ {Pick(s)}) \in Int
  BY <1>4 DEF C
<1> QED
  BY <1>2, <1>4, <1>5, <1>6

\* Any term may be taken out of the sum.
LEMMA SumTakes ==
    ASSUME NEW S, IsFiniteSet(S), NEW f, \A x \in S : f[x] \in Int
    PROVE  \A T \in SUBSET S : \A x \in T :
               SumFunctionOnSet(f, T) = f[x] + SumFunctionOnSet(f, T \ {x})
<1> DEFINE Taken(T, x) == SumFunctionOnSet(f, T) = f[x] + SumFunctionOnSet(f, T \ {x})
           C == {s \in SUBSET S : ~ \A x \in s : Taken(s, x)}
<1> SUFFICES ASSUME C # {} PROVE FALSE
  OBVIOUS
<1>0. C \in SUBSET (SUBSET S)
  OBVIOUS
<1> HIDE DEF C
<1>1. PICK s \in C : \A t \in C : t \subseteq s => t = s
  BY <1>0, Smallest
<1>2. s \in SUBSET S /\ IsFiniteSet(s)
  BY <1>0, FS_Subset
<1>3. PICK x \in s : ~Taken(s, x)
  BY <1>1 DEF C
<1> DEFINE p == Pick(s)
<1>4. p \in s /\ Taken(s, p)
  BY <1>2, <1>3, PickIn, SumUnfolds
<1>5. x # p
  BY <1>3, <1>4
<1>6. s \ {p} \notin C /\ s \ {p} \in SUBSET S
  BY <1>1, <1>2, <1>4
<1>7. Taken(s \ {p}, x)
  BY <1>5, <1>6 DEF C
<1>8. s \ {x} \notin C /\ s \ {x} \in SUBSET S
  BY <1>1, <1>2
<1>9. Taken(s \ {x}, p)
  BY <1>4, <1>5, <1>8 DEF C
<1>10. (s \ {p}) \ {x} = (s \ {x}) \ {p} /\ (s \ {p}) \ {x} \in SUBSET S
  BY <1>2
<1>11. /\ f[x] \in Int /\ f[p] \in Int
       /\ SumFunctionOnSet(f, s) \in Int /\ SumFunctionOnSet(f, (s \ {p}) \ {x}) \in Int
       /\ SumFunctionOnSet(f, s \ {p}) \in Int /\ SumFunctionOnSet(f, s \ {x}) \in Int
  BY <1>2, <1>4, <1>6, <1>8, <1>10, SumOnSetType
<1>12. SumFunctionOnSet(f, s) = f[p] + SumFunctionOnSet(f, s \ {p})
  BY <1>4
<1>13. SumFunctionOnSet(f, s \ {p}) = f[x] + SumFunctionOnSet(f, (s \ {p}) \ {x})
  BY <1>7
<1>14. SumFunctionOnSet(f, s \ {x}) = f[p] + SumFunctionOnSet(f, (s \ {p}) \ {x})
  BY <1>9, <1>10
<1> HIDE DEF p
<1>15. SumFunctionOnSet(f, s) = f[x] + SumFunctionOnSet(f, s \ {x})
  BY <1>11, <1>12, <1>13, <1>14
<1> QED
  BY <1>3, <1>15

\* Sums of functions that agree on the indices agree.
LEMMA SumSame ==
    ASSUME NEW S, IsFiniteSet(S), NEW f, NEW g,
           \A x \in S : f[x] = g[x]
    PROVE  \A T \in SUBSET S : SumFunctionOnSet(f, T) = SumFunctionOnSet(g, T)
<1> DEFINE C == {s \in SUBSET S : SumFunctionOnSet(f, s) # SumFunctionOnSet(g, s)}
<1> SUFFICES ASSUME C # {} PROVE FALSE
  OBVIOUS
<1>0. C \in SUBSET (SUBSET S)
  OBVIOUS
<1> HIDE DEF C
<1>1. PICK s \in C : \A t \in C : t \subseteq s => t = s
  BY <1>0, Smallest
<1>2. s \in SUBSET S /\ IsFiniteSet(s) /\ SumFunctionOnSet(f, s) # SumFunctionOnSet(g, s)
  BY <1>0, FS_Subset DEF C
<1>3. s # {}
  BY <1>2, SumOfNothing
<1>4. s \ {Pick(s)} \notin C /\ s \ {Pick(s)} \in SUBSET S /\ Pick(s) \in S
  BY <1>1, <1>2, <1>3, PickIn
<1>5. SumFunctionOnSet(f, s) = f[Pick(s)] + SumFunctionOnSet(f, s \ {Pick(s)})
  BY <1>2, <1>3, SumUnfolds
<1>6. SumFunctionOnSet(g, s) = g[Pick(s)] + SumFunctionOnSet(g, s \ {Pick(s)})
  BY <1>2, <1>3, SumUnfolds
<1>7. SumFunctionOnSet(f, s \ {Pick(s)}) = SumFunctionOnSet(g, s \ {Pick(s)})
  BY <1>4 DEF C
<1> QED
  BY <1>2, <1>4, <1>5, <1>6, <1>7

\* ... and larger terms make no smaller sum.
LEMMA SumOnSetMono ==
    ASSUME NEW S, IsFiniteSet(S), NEW f, NEW g,
           \A x \in S : f[x] \in Int /\ g[x] \in Int /\ f[x] <= g[x]
    PROVE  \A T \in SUBSET S : SumFunctionOnSet(f, T) <= SumFunctionOnSet(g, T)
<1> DEFINE C == {s \in SUBSET S : ~(SumFunctionOnSet(f, s) <= SumFunctionOnSet(g, s))}
<1> SUFFICES ASSUME C # {} PROVE FALSE
  OBVIOUS
<1>0. C \in SUBSET (SUBSET S)
  OBVIOUS
<1> HIDE DEF C
<1>1. PICK s \in C : \A t \in C : t \subseteq s => t = s
  BY <1>0, Smallest
<1>2. s \in SUBSET S /\ IsFiniteSet(s) /\ ~(SumFunctionOnSet(f, s) <= SumFunctionOnSet(g, s))
  BY <1>0, FS_Subset DEF C
<1>3. s # {}
  BY <1>2, SumOfNothing
<1>4. s \ {Pick(s)} \notin C /\ s \ {Pick(s)} \in SUBSET S /\ Pick(s) \in S
  BY <1>1, <1>2, <1>3, PickIn
<1>5. SumFunctionOnSet(f, s) = f[Pick(s)] + SumFunctionOnSet(f, s \ {Pick(s)})
  BY <1>2, <1>3, SumUnfolds
<1>6. SumFunctionOnSet(g, s) = g[Pick(s)] + SumFunctionOnSet(g, s \ {Pick(s)})
  BY <1>2, <1>3, SumUnfolds
<1>7. SumFunctionOnSet(f, s \ {Pick(s)}) <= SumFunctionOnSet(g, s \ {Pick(s)})
  BY <1>4 DEF C
<1>8. /\ SumFunctionOnSet(f, s \ {Pick(s)}) \in Int
      /\ SumFunctionOnSet(g, s \ {Pick(s)}) \in Int
  BY <1>4, SumOnSetType
<1> QED
  BY <1>2, <1>4, <1>5, <1>6, <1>7, <1>8

\* A sum of zeros is zero.
LEMMA SumZero ==
    ASSUME NEW S, IsFiniteSet(S)
    PROVE  SumFunction([x \in S |-> 0]) = 0
<1> DEFINE f == [x \in S |-> 0]
           C == {s \in SUBSET S : SumFunctionOnSet(f, s) # 0}
<1>0. C \in SUBSET (SUBSET S)
  OBVIOUS
<1>1. C = {}
  <2> SUFFICES ASSUME C # {} PROVE FALSE
    OBVIOUS
  <2> HIDE DEF C
  <2>1. PICK s \in C : \A t \in C : t \subseteq s => t = s
    BY <1>0, Smallest
  <2>2. s \in SUBSET S /\ IsFiniteSet(s) /\ SumFunctionOnSet(f, s) # 0
    BY <1>0, <2>1, FS_Subset DEF C
  <2>3. s # {}
    BY <2>2, SumOfNothing
  <2>4. s \ {Pick(s)} \notin C /\ s \ {Pick(s)} \in SUBSET S /\ Pick(s) \in S
    BY <2>1, <2>2, <2>3, PickIn
  <2>5. SumFunctionOnSet(f, s) = f[Pick(s)] + SumFunctionOnSet(f, s \ {Pick(s)})
    BY <2>2, <2>3, SumUnfolds
  <2>6. SumFunctionOnSet(f, s \ {Pick(s)}) = 0
    BY <2>4 DEF C
  <2> QED
    BY <2>2, <2>4, <2>5, <2>6
<1>2. SumFunctionOnSet(f, S) = 0
  BY <1>1
<1> QED
  BY <1>2 DEF SumFunction

\* Integers add up to an integer.
LEMMA SumType ==
    ASSUME NEW S, IsFiniteSet(S), NEW f \in [S -> Int]
    PROVE  SumFunction(f) \in Int
BY SumOnSetType DEF SumFunction

\* SumOnSetMono for SumFunction.
LEMMA SumMono ==
    ASSUME NEW S, IsFiniteSet(S), NEW f \in [S -> Int], NEW g \in [S -> Int],
           \A x \in S : f[x] <= g[x]
    PROVE  SumFunction(f) <= SumFunction(g)
<1>1. SumFunctionOnSet(f, S) <= SumFunctionOnSet(g, S)
  BY SumOnSetMono
<1> QED
  BY <1>1 DEF SumFunction

\* Natural numbers add up to one.
LEMMA SumNat ==
    ASSUME NEW S, IsFiniteSet(S), NEW f \in [S -> Nat]
    PROVE  SumFunction(f) \in Nat
<1> DEFINE zero == [x \in S |-> 0]
<1>1. f \in [S -> Int] /\ zero \in [S -> Int] /\ \A x \in S : zero[x] <= f[x]
  OBVIOUS
<1> HIDE DEF zero
<1>2. SumFunction(zero) <= SumFunction(f)
  BY <1>1, SumMono
<1>3. SumFunction(zero) = 0
  BY SumZero DEF zero
<1> QED
  BY <1>1, <1>2, <1>3, SumType

\* One term changes.
LEMMA SumChange ==
    ASSUME NEW S, IsFiniteSet(S), NEW f \in [S -> Int], NEW g \in [S -> Int],
           NEW k \in S, \A x \in S \ {k} : g[x] = f[x]
    PROVE  SumFunction(g) = SumFunction(f) + g[k] - f[k]
<1>1. SumFunctionOnSet(f, S) = f[k] + SumFunctionOnSet(f, S \ {k})
  BY SumTakes
<1>2. SumFunctionOnSet(g, S) = g[k] + SumFunctionOnSet(g, S \ {k})
  BY SumTakes
<1>3. IsFiniteSet(S \ {k}) /\ S \ {k} \in SUBSET (S \ {k})
  BY FS_RemoveElement
<1>4. SumFunctionOnSet(g, S \ {k}) = SumFunctionOnSet(f, S \ {k})
  BY <1>3, SumSame
<1>5. /\ SumFunctionOnSet(f, S \ {k}) \in Int
      /\ f[k] \in Int /\ g[k] \in Int
  BY SumOnSetType
<1> QED
  BY <1>1, <1>2, <1>4, <1>5 DEF SumFunction

\* No term is larger than the sum.
LEMMA SumCovers ==
    ASSUME NEW S, IsFiniteSet(S), NEW f \in [S -> Nat], NEW k \in S
    PROVE  f[k] <= SumFunction(f)
<1>1. SumFunctionOnSet(f, S) = f[k] + SumFunctionOnSet(f, S \ {k})
  BY SumTakes
<1> DEFINE g == [f EXCEPT ![k] = 0]
<1>2. g \in [S -> Nat] /\ f \in [S -> Int] /\ g \in [S -> Int]
      /\ g[k] = 0 /\ (\A x \in S \ {k} : g[x] = f[x])
  OBVIOUS
<1> HIDE DEF g
<1>3. SumFunction(g) = SumFunction(f) + g[k] - f[k]
  BY <1>2, SumChange
<1>4. SumFunction(g) \in Nat /\ SumFunction(f) \in Int
  BY <1>2, SumNat, SumType
<1> QED
  BY <1>2, <1>3, <1>4

\* The sum of sums.
LEMMA SumAdd ==
    ASSUME NEW S, IsFiniteSet(S), NEW f \in [S -> Int], NEW g \in [S -> Int],
           NEW e \in [S -> Int], \A x \in S : e[x] = f[x] + g[x]
    PROVE  SumFunction(e) = SumFunction(f) + SumFunction(g)
<1> DEFINE Adds(s) == SumFunctionOnSet(e, s) = SumFunctionOnSet(f, s) + SumFunctionOnSet(g, s)
           C == {s \in SUBSET S : ~Adds(s)}
<1>0. C \in SUBSET (SUBSET S)
  OBVIOUS
<1>1. C = {}
  <2> SUFFICES ASSUME C # {} PROVE FALSE
    OBVIOUS
  <2> HIDE DEF C
  <2>1. PICK s \in C : \A t \in C : t \subseteq s => t = s
    BY <1>0, Smallest
  <2>2. s \in SUBSET S /\ IsFiniteSet(s) /\ ~Adds(s)
    BY <1>0, <2>1, FS_Subset DEF C
  <2>3. s # {}
    <3>1. Adds({})
      BY SumOfNothing
    <3> QED
      BY <2>2, <3>1
  <2> DEFINE p == Pick(s)
             r == s \ {Pick(s)}
  <2>4. r \notin C /\ r \in SUBSET S /\ p \in S
    BY <2>1, <2>2, <2>3, PickIn
  <2>5. /\ SumFunctionOnSet(e, s) = e[p] + SumFunctionOnSet(e, r)
        /\ SumFunctionOnSet(f, s) = f[p] + SumFunctionOnSet(f, r)
        /\ SumFunctionOnSet(g, s) = g[p] + SumFunctionOnSet(g, r)
    BY <2>2, <2>3, SumUnfolds
  <2>6. Adds(r)
    BY <2>4 DEF C
  <2>7. /\ SumFunctionOnSet(e, r) \in Int /\ SumFunctionOnSet(f, r) \in Int
        /\ SumFunctionOnSet(g, r) \in Int
    BY <2>4, SumOnSetType
  <2>8. e[p] = f[p] + g[p] /\ e[p] \in Int /\ f[p] \in Int /\ g[p] \in Int
    BY <2>4
  <2> HIDE DEF p, r
  <2> QED
    BY <2>2, <2>5, <2>6, <2>7, <2>8
<1>2. Adds(S)
  BY <1>1
<1> QED
  BY <1>2 DEF SumFunction
=============================================================================
