----------------------------- MODULE SumProofs -----------------------------
(***************************************************************************)
(* What the proofs need of sums over finite sets.  The theorems of the     *)
(* library on induction and on folds have operators for parameters; here   *)
(* induction is over a set of numbers, and sums are of functions.          *)
(***************************************************************************)
EXTENDS Sums, FiniteSetTheorems, WellFoundedInduction, TLAPS

\* A set that holds 0 and with n also n + 1 holds every natural number.
LEMMA Induction ==
  ASSUME NEW N, 0 \in N, \A n \in Nat : n \in N => n + 1 \in N
  PROVE  \A n \in Nat : n \in N
<1> DEFINE R == OpToRel(<, Nat)
           T == Nat \ N
<1>1. SUFFICES ASSUME T # {} PROVE FALSE
  OBVIOUS
<1>2. \A m, n \in Nat : <<m, n>> \in R <=> m < n
  BY DEF OpToRel
<1>3. IsWellFoundedOn(R, Nat) /\ T \subseteq Nat
  BY NatLessThanWellFounded
<1> HIDE DEF R
<1>4. PICK x \in T : \A y \in T : <<y, x>> \notin R
  <2> HIDE DEF T
  <2> QED BY <1>1, <1>3, WFMin
<1>5. x \in Nat /\ x # 0
  OBVIOUS
<1>6. x - 1 \in Nat /\ x - 1 < x /\ (x - 1) + 1 = x
  BY <1>5
<1>7. <<x - 1, x>> \in R
  BY <1>2, <1>5, <1>6
<1>8. x - 1 \notin T
  BY <1>4, <1>7
<1>9. x \in N
  BY <1>6, <1>8
<1> QED BY <1>9

\* A family of sets that holds every subset s of a finite set S as soon as it
\* holds the sets s \ {x}, with x in s, holds all subsets of S.
LEMMA SubsetInduction ==
  ASSUME NEW S, IsFiniteSet(S), NEW P,
         \A s \in SUBSET S : (\A x \in s : s \ {x} \in P) => s \in P
  PROVE  \A s \in SUBSET S : s \in P
<1> DEFINE N == {n \in Nat : \A s \in SUBSET S : Cardinality(s) <= n => s \in P}
<1>1. \A s \in SUBSET S : IsFiniteSet(s) /\ Cardinality(s) \in Nat
  BY FS_Subset, FS_CardinalityType
<1>2. 0 \in N
  <2> SUFFICES ASSUME NEW s \in SUBSET S, Cardinality(s) <= 0 PROVE s \in P
    OBVIOUS
  <2>1. s = {}
    BY <1>1, FS_EmptySet
  <2> QED BY <2>1
<1>3. ASSUME NEW n \in Nat, n \in N PROVE n + 1 \in N
  <2> SUFFICES ASSUME NEW s \in SUBSET S, Cardinality(s) <= n + 1 PROVE s \in P
    OBVIOUS
  <2>1. ASSUME NEW x \in s PROVE s \ {x} \in P
    <3>1. Cardinality(s \ {x}) = Cardinality(s) - 1
      BY <1>1, FS_RemoveElement
    <3>2. Cardinality(s \ {x}) <= n
      BY <1>1, <3>1
    <3> QED BY <1>3, <3>2
  <2> QED BY <2>1
<1> HIDE DEF N
<1>4. \A n \in Nat : n \in N
  BY <1>2, <1>3, Induction
<1> QED BY <1>1, <1>4 DEF N

-----------------------------------------------------------------------------
(* The recursive function behind a sum *)

TotalOn(f, S) == MapThenSumSet(LAMBDA x : f[x], S)
AnyOf(s) == CHOOSE x \in s : TRUE
OneStep(f, g, s) == IF s = {} THEN 0 ELSE f[AnyOf(s)] + g[s \ {AnyOf(s)}]
Unfolding(f, S, g) == [s \in SUBSET S |-> OneStep(f, g, s)]

LEMMA AnyIn == ASSUME NEW s, s # {} PROVE AnyOf(s) \in s
BY DEF AnyOf

LEMMA TotalDef ==
  ASSUME NEW f, NEW S
  PROVE  TotalOn(f, S) = (CHOOSE g : g = Unfolding(f, S, g))[S]
BY DEF TotalOn, MapThenSumSet, MapThenFoldSet, Unfolding, OneStep, AnyOf

\* The recursion is well founded: it has a solution.
LEMMA TotalExists ==
  ASSUME NEW f, NEW S, IsFiniteSet(S) PROVE \E g : g = Unfolding(f, S, g)
<1> DEFINE Solves(g, n) == \A s \in SUBSET S :
                             Cardinality(s) <= n => g[s] = OneStep(f, g, s)
           N == {n \in Nat : \E g : Solves(g, n)}
<1>1. \A s \in SUBSET S : IsFiniteSet(s) /\ Cardinality(s) \in Nat
  BY FS_Subset, FS_CardinalityType
<1>2. \A s \in SUBSET S : s # {} =>
        s \ {AnyOf(s)} \in SUBSET S /\ Cardinality(s \ {AnyOf(s)}) = Cardinality(s) - 1
  BY <1>1, AnyIn, FS_RemoveElement
<1>3. 0 \in N
  <2> DEFINE z == [s \in SUBSET S |-> 0]
  <2>1. Solves(z, 0)
    <3> SUFFICES ASSUME NEW s \in SUBSET S, Cardinality(s) <= 0
                 PROVE  z[s] = OneStep(f, z, s)
      OBVIOUS
    <3>1. s = {}
      BY <1>1, FS_EmptySet
    <3> QED BY <3>1 DEF OneStep
  <2> QED BY <2>1
<1>4. ASSUME NEW n \in Nat, n \in N PROVE n + 1 \in N
  <2>1. PICK g : Solves(g, n)
    BY <1>4
  <2> DEFINE h == [s \in SUBSET S |-> OneStep(f, g, s)]
  <2>2. \A s \in SUBSET S : Cardinality(s) <= n => h[s] = g[s]
    BY <2>1
  <2>3. ASSUME NEW s \in SUBSET S, Cardinality(s) <= n + 1
        PROVE  h[s] = OneStep(f, h, s)
    <3>1. CASE s = {}
      BY <3>1 DEF OneStep
    <3>2. CASE s # {}
      <4>1. h[s \ {AnyOf(s)}] = g[s \ {AnyOf(s)}]
        <5> DEFINE r == s \ {AnyOf(s)}
        <5>1. r \in SUBSET S /\ Cardinality(r) = Cardinality(s) - 1 /\ Cardinality(s) \in Nat
          BY <1>1, <1>2, <2>3, <3>2
        <5> HIDE DEF h, r
        <5>2. Cardinality(r) <= n
          BY <2>3, <5>1
        <5>3. h[r] = g[r]
          BY <2>2, <5>1, <5>2
        <5> QED BY <5>3 DEF r
      <4>2. h[s] = OneStep(f, g, s)
        OBVIOUS
      <4> HIDE DEF h
      <4> QED BY <4>1, <4>2 DEF OneStep
    <3> QED BY <3>1, <3>2
  <2> HIDE DEF h
  <2>4. Solves(h, n + 1)
    BY <2>3
  <2> QED BY <2>4
<1>5. \A n \in Nat : n \in N
  <2> HIDE DEF N
  <2> QED BY <1>3, <1>4, Induction
<1>6. PICK g : Solves(g, Cardinality(S))
  BY <1>1, <1>5
<1>7. \A s \in SUBSET S : g[s] = OneStep(f, g, s)
  BY <1>1, <1>6, FS_Subset
<1> DEFINE h == [s \in SUBSET S |-> g[s]]
<1>8. ASSUME NEW s \in SUBSET S PROVE OneStep(f, h, s) = h[s]
  <2>1. OneStep(f, h, s) = OneStep(f, g, s)
    BY <1>2 DEF OneStep
  <2> QED BY <1>7, <2>1
<1>9. h = Unfolding(f, S, h)
  BY <1>8 DEF Unfolding
<1> QED BY <1>9

\* What the recursion says of a set does not depend on the set it began with.
LEMMA TotalAgrees ==
  ASSUME NEW f, NEW S, IsFiniteSet(S), NEW T \in SUBSET S,
         NEW g, g = Unfolding(f, S, g), NEW h, h = Unfolding(f, T, h)
  PROVE  g[T] = h[T]
<1> DEFINE P == {s \in SUBSET T : g[s] = h[s]}
<1>1. IsFiniteSet(T)
  BY FS_Subset
<1>2. \A s \in SUBSET T : g[s] = OneStep(f, g, s) /\ h[s] = OneStep(f, h, s)
  <2>1. \A s \in SUBSET S : Unfolding(f, S, g)[s] = OneStep(f, g, s)
    BY DEF Unfolding
  <2>2. \A s \in SUBSET T : Unfolding(f, T, h)[s] = OneStep(f, h, s)
    BY DEF Unfolding
  <2> QED BY <2>1, <2>2
<1>3. ASSUME NEW s \in SUBSET T, \A x \in s : s \ {x} \in P PROVE s \in P
  <2>1. s # {} => g[s \ {AnyOf(s)}] = h[s \ {AnyOf(s)}]
    BY <1>3, AnyIn
  <2>2. OneStep(f, g, s) = OneStep(f, h, s)
    BY <2>1 DEF OneStep
  <2> QED BY <1>2, <2>2
<1> HIDE DEF P
<1>4. \A s \in SUBSET T : s \in P
  BY <1>1, <1>3, SubsetInduction
<1> QED BY <1>4 DEF P

\* A sum is the sum without the element picked, and that element.
LEMMA TotalUnfolds ==
  ASSUME NEW f, NEW S, IsFiniteSet(S)
  PROVE  /\ S = {} => TotalOn(f, S) = 0
         /\ S # {} => TotalOn(f, S) = f[AnyOf(S)] + TotalOn(f, S \ {AnyOf(S)})
<1> DEFINE G(T) == CHOOSE g : g = Unfolding(f, T, g)
<1>1. \A T \in SUBSET S : G(T) = Unfolding(f, T, G(T)) /\ TotalOn(f, T) = G(T)[T]
  <2> SUFFICES ASSUME NEW T \in SUBSET S
               PROVE  G(T) = Unfolding(f, T, G(T)) /\ TotalOn(f, T) = G(T)[T]
    OBVIOUS
  <2>1. \E g : g = Unfolding(f, T, g)
    BY TotalExists, FS_Subset
  <2>2. TotalOn(f, T) = G(T)[T]
    BY TotalDef
  <2> QED BY <2>1, <2>2
<1> HIDE DEF G
<1>2. TotalOn(f, S) = OneStep(f, G(S), S)
  <2>1. S \in SUBSET S
    OBVIOUS
  <2>2. Unfolding(f, S, G(S))[S] = OneStep(f, G(S), S)
    BY <2>1 DEF Unfolding
  <2> QED BY <1>1, <2>1, <2>2
<1>3. CASE S = {}
  BY <1>2, <1>3 DEF OneStep
<1>4. CASE S # {}
  <2> DEFINE T == S \ {AnyOf(S)}
  <2>1. T \in SUBSET S /\ S \in SUBSET S
    OBVIOUS
  <2>2. G(S)[T] = G(T)[T]
    <3> HIDE DEF T
    <3> QED BY <1>1, <2>1, TotalAgrees
  <2>3. TotalOn(f, T) = G(T)[T]
    BY <1>1, <2>1
  <2> QED BY <1>2, <1>4, <2>2, <2>3 DEF OneStep
<1> QED BY <1>3, <1>4

LEMMA TotalType ==
  ASSUME NEW f, NEW S, IsFiniteSet(S), \A x \in S : f[x] \in Nat
  PROVE  \A T \in SUBSET S : IsFiniteSet(T) /\ TotalOn(f, T) \in Nat
<1> DEFINE P == {s \in SUBSET S : TotalOn(f, s) \in Nat}
<1>1. ASSUME NEW s \in SUBSET S, \A x \in s : s \ {x} \in P PROVE s \in P
  <2>1. IsFiniteSet(s)
    BY FS_Subset
  <2>2. CASE s = {}
    <3>1. TotalOn(f, s) = 0
      BY <2>1, <2>2, TotalUnfolds
    <3> QED BY <3>1
  <2>3. CASE s # {}
    <3>1. AnyOf(s) \in s
      BY <2>3, AnyIn
    <3>2. TotalOn(f, s) = f[AnyOf(s)] + TotalOn(f, s \ {AnyOf(s)})
      BY <2>1, <2>3, TotalUnfolds
    <3>3. f[AnyOf(s)] \in Nat /\ TotalOn(f, s \ {AnyOf(s)}) \in Nat
      BY <1>1, <3>1
    <3> QED BY <3>2, <3>3
  <2> QED BY <2>2, <2>3
<1> HIDE DEF P
<1>2. \A s \in SUBSET S : s \in P
  BY <1>1, SubsetInduction
<1> QED BY <1>2, FS_Subset DEF P

\* Any element may be taken out first.
LEMMA TotalRemove ==
  ASSUME NEW f, NEW S, IsFiniteSet(S), \A x \in S : f[x] \in Nat, NEW x \in S
  PROVE  TotalOn(f, S) = f[x] + TotalOn(f, S \ {x})
<1> DEFINE P == {s \in SUBSET S : \A y \in s :
                   TotalOn(f, s) = f[y] + TotalOn(f, s \ {y})}
<1>1. ASSUME NEW s \in SUBSET S, \A y \in s : s \ {y} \in P PROVE s \in P
  <2> SUFFICES ASSUME NEW y \in s
               PROVE  TotalOn(f, s) = f[y] + TotalOn(f, s \ {y})
    OBVIOUS
  <2> DEFINE p == AnyOf(s)
             r == s \ {p, y}
  <2>1. IsFiniteSet(s) /\ p \in s
    BY FS_Subset, AnyIn
  <2>2. TotalOn(f, s) = f[p] + TotalOn(f, s \ {p})
    BY <2>1, TotalUnfolds
  <2>3. CASE y = p
    BY <2>2, <2>3
  <2>4. CASE y # p
    <3>1. TotalOn(f, s \ {p}) = f[y] + TotalOn(f, (s \ {p}) \ {y})
      BY <1>1, <2>1, <2>4
    <3>2. TotalOn(f, s \ {y}) = f[p] + TotalOn(f, (s \ {y}) \ {p})
      BY <1>1, <2>1, <2>4
    <3>3. (s \ {p}) \ {y} = r /\ (s \ {y}) \ {p} = r
      OBVIOUS
    <3>4. f[p] \in Nat /\ f[y] \in Nat /\ TotalOn(f, r) \in Nat
      BY <2>1, TotalType
    <3> HIDE DEF r, p
    <3> QED BY <2>2, <3>1, <3>2, <3>3, <3>4
  <2> QED BY <2>3, <2>4
<1> HIDE DEF P
<1>2. \A s \in SUBSET S : s \in P
  BY <1>1, SubsetInduction
<1> QED BY <1>2 DEF P

-----------------------------------------------------------------------------
(* The laws of sums *)

LEMMA TotalEmpty == ASSUME NEW f PROVE TotalOn(f, {}) = 0
BY TotalUnfolds, FS_EmptySet

\* Functions that agree on a set have the same sum over it, and an injection
\* carries a sum from one set to another.
LEMMA TotalImage ==
  ASSUME NEW f, NEW g, NEW S, NEW T, IsFiniteSet(S), NEW m \in [S -> T],
         \A x \in S : f[x] \in Nat /\ g[m[x]] = f[x],
         \A x, y \in S : m[x] = m[y] => x = y,
         \A y \in T : \E x \in S : y = m[x]
  PROVE  IsFiniteSet(T) /\ TotalOn(f, S) = TotalOn(g, T)
<1> DEFINE im(s) == {m[x] : x \in s}
           P == {s \in SUBSET S : IsFiniteSet(im(s)) /\ TotalOn(f, s) = TotalOn(g, im(s))}
<1>1. ASSUME NEW s \in SUBSET S, \A x \in s : s \ {x} \in P PROVE s \in P
  <2>1. CASE s = {}
    <3>1. im(s) = {}
      BY <2>1
    <3> HIDE DEF im
    <3> QED BY <2>1, <3>1, TotalEmpty, FS_EmptySet
  <2>2. CASE s # {}
    <3> DEFINE x == AnyOf(s)
               r == s \ {x}
    <3>1. x \in s /\ IsFiniteSet(s)
      BY <2>2, AnyIn, FS_Subset
    <3>2. r \in P
      BY <1>1, <3>1
    <3>3. im(s) = im(r) \cup {m[x]} /\ im(s) \ {m[x]} = im(r)
      BY <3>1
    <3>4. IsFiniteSet(im(s))
      <4>1. IsFiniteSet(im(r)) /\ im(s) = im(r) \cup {m[x]}
        BY <3>2, <3>3
      <4>2. IsFiniteSet(im(r) \cup {m[x]})
        <5> HIDE DEF im
        <5> QED BY <4>1, FS_AddElement
      <4> HIDE DEF im, r, x
      <4> QED BY <4>1, <4>2, Zenon
    <3>5. m[x] \in im(s) /\ \A y \in im(s) : g[y] \in Nat
      BY <3>1
    <3>6. TotalOn(g, im(s)) = g[m[x]] + TotalOn(g, im(s) \ {m[x]})
      <4> HIDE DEF im
      <4> QED BY <3>4, <3>5, TotalRemove
    <3>7. TotalOn(f, s) = f[x] + TotalOn(f, r)
      BY <3>1, TotalRemove
    <3>8. TotalOn(f, r) = TotalOn(g, im(r)) /\ f[x] = g[m[x]]
      BY <3>1, <3>2
    <3> HIDE DEF im, r, x
    <3> QED BY <3>3, <3>4, <3>6, <3>7, <3>8
  <2> QED BY <2>1, <2>2
<1> HIDE DEF P
<1>2. \A s \in SUBSET S : s \in P
  BY <1>1, SubsetInduction
<1>3. im(S) = T
  OBVIOUS
<1>4. IsFiniteSet(im(S)) /\ TotalOn(f, S) = TotalOn(g, im(S))
  BY <1>2 DEF P
<1> QED BY <1>3, <1>4, Zenon

LEMMA TotalSame ==
  ASSUME NEW f, NEW g, NEW S, IsFiniteSet(S),
         \A x \in S : f[x] \in Nat /\ g[x] = f[x]
  PROVE  TotalOn(f, S) = TotalOn(g, S)
<1> DEFINE m == [x \in S |-> x]
<1>1. /\ \A x \in S : f[x] \in Nat /\ g[m[x]] = f[x]
      /\ \A x, y \in S : m[x] = m[y] => x = y
      /\ m \in [S -> S] /\ \A y \in S : \E x \in S : y = m[x]
  OBVIOUS
<1> HIDE DEF m
<1> QED BY <1>1, TotalImage

\* Sums are additive on disjoint sets, ...
LEMMA TotalUnion ==
  ASSUME NEW f, NEW S, NEW T, IsFiniteSet(S), IsFiniteSet(T), S \cap T = {},
         \A x \in S \cup T : f[x] \in Nat
  PROVE  TotalOn(f, S \cup T) = TotalOn(f, S) + TotalOn(f, T)
<1> DEFINE P == {s \in SUBSET T : TotalOn(f, S \cup s) = TotalOn(f, S) + TotalOn(f, s)}
<1>0. IsFiniteSet(S \cup T)
  BY FS_Union
<1>1. \A s \in SUBSET (S \cup T) : IsFiniteSet(s) /\ TotalOn(f, s) \in Nat
  BY <1>0, TotalType
<1>2. ASSUME NEW s \in SUBSET T, \A x \in s : s \ {x} \in P PROVE s \in P
  <2>1. CASE s = {}
    <3>1. S \cup s = S /\ TotalOn(f, s) = 0 /\ TotalOn(f, S) \in Nat
      BY <1>1, <2>1, TotalEmpty
    <3> QED BY <3>1
  <2>2. CASE s # {}
    <3> DEFINE x == AnyOf(s)
               r == s \ {x}
    <3>1. x \in s
      BY <2>2, AnyIn
    <3>2. TotalOn(f, S \cup r) = TotalOn(f, S) + TotalOn(f, r)
      BY <1>2, <3>1
    <3>3. TotalOn(f, (S \cup s) \ {x}) = TotalOn(f, S \cup r)
      <4>1. (S \cup s) \ {x} = S \cup r
        BY <3>1
      <4> QED BY <4>1
    <3>4. TotalOn(f, S \cup s) = f[x] + TotalOn(f, (S \cup s) \ {x})
      <4>1. S \cup s \in SUBSET (S \cup T) /\ x \in S \cup s
        BY <3>1
      <4>2. IsFiniteSet(S \cup s) /\ \A y \in S \cup s : f[y] \in Nat
        BY <1>1, <4>1
      <4> HIDE DEF x
      <4> QED BY <4>1, <4>2, TotalRemove
    <3>5. TotalOn(f, s) = f[x] + TotalOn(f, r)
      BY <1>1, <3>1, TotalRemove
    <3>6. f[x] \in Nat /\ TotalOn(f, S) \in Nat /\ TotalOn(f, r) \in Nat
      BY <1>1, <3>1
    <3> HIDE DEF x, r
    <3>7. TotalOn(f, S \cup s) = TotalOn(f, S) + TotalOn(f, s)
      BY <3>2, <3>3, <3>4, <3>5, <3>6
    <3> QED BY <3>7
  <2> QED BY <2>1, <2>2
<1> HIDE DEF P
<1>3. \A s \in SUBSET T : s \in P
  BY <1>2, SubsetInduction
<1> QED BY <1>3 DEF P

\* ... grow with the set, ...
LEMMA TotalSubset ==
  ASSUME NEW f, NEW T, IsFiniteSet(T), \A x \in T : f[x] \in Nat, NEW S \in SUBSET T
  PROVE  TotalOn(f, S) <= TotalOn(f, T)
<1> DEFINE R == T \ S
<1>1. S \cup R = T /\ S \cap R = {} /\ R \in SUBSET T
  OBVIOUS
<1>2. /\ IsFiniteSet(S) /\ IsFiniteSet(R)
      /\ TotalOn(f, S) \in Nat /\ TotalOn(f, R) \in Nat
  BY <1>1, TotalType
<1> HIDE DEF R
<1>3. TotalOn(f, T) = TotalOn(f, S) + TotalOn(f, R)
  BY <1>1, <1>2, TotalUnion
<1> QED BY <1>2, <1>3

\* ... and never exceed the sums of the parts.
LEMMA TotalParts ==
  ASSUME NEW f, NEW S, NEW T, IsFiniteSet(S), IsFiniteSet(T),
         \A x \in S \cup T : f[x] \in Nat
  PROVE  TotalOn(f, S \cup T) <= TotalOn(f, S) + TotalOn(f, T)
<1> DEFINE R == T \ S
<1>1. S \cup R = S \cup T /\ S \cap R = {} /\ R \in SUBSET T
  OBVIOUS
<1>2. /\ IsFiniteSet(R) /\ TotalOn(f, S) \in Nat /\ TotalOn(f, R) \in Nat
      /\ TotalOn(f, T) \in Nat /\ TotalOn(f, R) <= TotalOn(f, T)
  <2>1. S \in SUBSET S /\ T \in SUBSET T
    OBVIOUS
  <2> QED BY <1>1, <2>1, TotalType, TotalSubset
<1>3. TotalOn(f, S \cup R) = TotalOn(f, S) + TotalOn(f, R)
  <2> HIDE DEF R
  <2> QED BY <1>1, <1>2, TotalUnion
<1>4. TotalOn(f, S \cup T) = TotalOn(f, S \cup R)
  BY <1>1
<1> HIDE DEF R
<1> QED BY <1>2, <1>3, <1>4
=============================================================================
