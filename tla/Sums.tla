-------------------------------- MODULE Sums ---------------------------------
(***************************************************************************)
(* What the proofs need of sums, quotients and places in a list.  The sum  *)
(* of f[x] over a finite set (SumFunctionOnSet) is a fold that takes the   *)
(* elements in an arbitrary order; the facts below say that the order does *)
(* not matter.  They, and those on ranks (Ranks), rest on two inductions   *)
(* in set form: over the subsets of a finite set, and over the numbers.    *)
(***************************************************************************)
EXTENDS Sequences, Functions, Ranks, FiniteSetTheorems, WellFoundedInduction, TLAPS

\* What holds of a subset of S if it holds of all smaller ones, holds of all.
LEMMA SubsetInduction ==
  ASSUME NEW S, IsFiniteSet(S), NEW T,
         \A s \in SUBSET S : (\A u \in SUBSET s : u # s => u \in T) => s \in T
  PROVE  SUBSET S \subseteq T
<1>a. FiniteSubsetsOf(S) = SUBSET S  BY FS_FiniteSubsetsOfFinite, Zenon
<1>b. IsWellFoundedOn(StrictSubsetOrdering(S), FiniteSubsetsOf(S))
  BY FS_StrictSubsetOrderingWellFounded, Zenon
<1>1. IsWellFoundedOn(StrictSubsetOrdering(S), SUBSET S)  BY <1>a, <1>b, Zenon
<1>. SUFFICES ASSUME ~(SUBSET S \subseteq T) PROVE FALSE  OBVIOUS
<1>. DEFINE R == StrictSubsetOrdering(S)
            B == {s \in SUBSET S : s \notin T}
<1>2. B \subseteq SUBSET S /\ B # {}  OBVIOUS
<1>3. \A s, u \in SUBSET S : (u \in SUBSET s /\ u # s) => <<u, s>> \in R
  BY DEF StrictSubsetOrdering
<1>4. \E s \in B : \A u \in B : ~(<<u, s>> \in R)
  <2>. IsWellFoundedOn(R, SUBSET S)  BY <1>1
  <2>. HIDE DEF R, B
  <2>. QED  BY <1>2, WFMin
<1>5. PICK s \in B : \A u \in B : ~(<<u, s>> \in R)  BY <1>4
<1>6. ASSUME NEW u \in SUBSET s, u # s PROVE u \in T
  <2>1. u \in SUBSET S /\ s \in SUBSET S  OBVIOUS
  <2>2. <<u, s>> \in R
    <3>. HIDE DEF R
    <3>. QED  BY <1>3, <1>6, <2>1
  <2>3. ~(u \in B)  
    <3>. HIDE DEF R, B
    <3>. QED  BY <1>5, <2>2
  <2>. QED  BY <2>1, <2>3
<1>7. s \in T  BY <1>6
<1>. QED  BY <1>7

\* What holds of a number if it holds of all smaller ones, holds of all.
LEMMA NumberInduction ==
  ASSUME NEW T, \A n \in Nat : (\A m \in 0..(n - 1) : m \in T) => n \in T
  PROVE  Nat \subseteq T
<1>. DEFINE R == OpToRel(<, Nat)
            B == {n \in Nat : n \notin T}
<1>1. IsWellFoundedOn(R, Nat)  BY NatLessThanWellFounded, Zenon
<1>2. \A m, n \in Nat : m < n => <<m, n>> \in R  BY DEF OpToRel
<1>. SUFFICES ASSUME B # {} PROVE FALSE  OBVIOUS
<1>3. \E n \in B : \A m \in B : ~(<<m, n>> \in R)
  <2>1. B \subseteq Nat  OBVIOUS
  <2>. HIDE DEF R, B
  <2>. QED  BY <1>1, <2>1, WFMin
<1>4. PICK n \in B : \A m \in B : ~(<<m, n>> \in R)  BY <1>3
<1>5. \A m \in 0..(n - 1) : m \in T
  <2>. SUFFICES ASSUME NEW m \in 0..(n - 1), m \notin T PROVE FALSE  OBVIOUS
  <2>1. m \in Nat /\ n \in Nat /\ m < n  OBVIOUS
  <2>2. m \in B  BY <2>1
  <2>3. <<m, n>> \in R
    <3>. HIDE DEF R, B
    <3>. QED  BY <1>2, <2>1
  <2>. HIDE DEF R, B
  <2>. QED  BY <1>4, <2>2, <2>3
<1>. QED  BY <1>5

Pick(s) == CHOOSE x \in s : TRUE

\* The function that the fold defines, and the value of the sum it stands for.
Adds(f, S, iter) ==
  iter = [s \in SUBSET S |-> IF s = {} THEN 0 ELSE f[Pick(s)] + iter[s \ {Pick(s)}]]

Unfolds(f, s) ==
  SumFunctionOnSet(f, s) = IF s = {} THEN 0 ELSE f[Pick(s)] + SumFunctionOnSet(f, s \ {Pick(s)})

\* The fold, by the CHOOSE of its definition.
LEMMA SumIsFold ==
  ASSUME NEW f, NEW S
  PROVE  SumFunctionOnSet(f, S) = (CHOOSE iter : Adds(f, S, iter))[S]
  BY Zenon DEF SumFunctionOnSet, FoldFunctionOnSet, MapThenFoldSet, Adds, Pick

\* The element that the fold takes is in the set.
LEMMA Picks == ASSUME NEW s, s # {} PROVE Pick(s) \in s
  BY DEF Pick

\* The recursion of the fold has a solution, and one only.
LEMMA SumUnfolds ==
  ASSUME NEW f, NEW S, IsFiniteSet(S)
  PROVE  Unfolds(f, S)
<1>. DEFINE T == {s \in SUBSET S : Unfolds(f, s)}
<1>1. ASSUME NEW s \in SUBSET S, \A u \in SUBSET s : u # s => u \in T PROVE s \in T
  <2>. DEFINE sum(u) == SumFunctionOnSet(f, u)
              whole == IF s = {} THEN 0 ELSE f[Pick(s)] + sum(s \ {Pick(s)})
              h == CHOOSE iter : Adds(f, s, iter)
              g == [u \in SUBSET s |-> IF u = s THEN whole ELSE sum(u)]
  <2>a. \A u \in SUBSET s : u # s =>
          sum(u) = IF u = {} THEN 0 ELSE f[Pick(u)] + sum(u \ {Pick(u)})
    BY <1>1, Zenon DEF Unfolds
  <2>s. sum(s) = h[s]  BY SumIsFold
  <2>. HIDE DEF sum, h
  <2>1. Adds(f, s, g)
    <3>1. ASSUME NEW u \in SUBSET s
          PROVE  g[u] = IF u = {} THEN 0 ELSE f[Pick(u)] + g[u \ {Pick(u)}]
      <4>1. u # {} => u \ {Pick(u)} \in SUBSET s /\ u \ {Pick(u)} # s
        BY Picks
      <4>2. u # {} => g[u \ {Pick(u)}] = sum(u \ {Pick(u)})
        BY <4>1
      <4>. QED  BY <4>2, <2>a
    <3>2. g = [u \in SUBSET s |-> g[u]]  OBVIOUS
    <3>. HIDE DEF g
    <3>. QED  BY <3>1, <3>2 DEF Adds
  <2>. HIDE DEF g
  <2>2. Adds(f, s, h)  BY <2>1 DEF h
  <2>3. \A u \in SUBSET s : h[u] = IF u = {} THEN 0 ELSE f[Pick(u)] + h[u \ {Pick(u)}]
    BY <2>2 DEF Adds
  <2>4. ASSUME NEW v \in SUBSET s, v # s PROVE h[v] = sum(v)
    <3>. DEFINE Same == {u \in SUBSET s : u # s => h[u] = sum(u)}
    <3>1. IsFiniteSet(v)  BY FS_Subset
    <3>2. ASSUME NEW u \in SUBSET v, \A w \in SUBSET u : w # u => w \in Same PROVE u \in Same
      <4>1. u \in SUBSET s /\ u # s  BY <2>4
      <4>2. u # {} => u \ {Pick(u)} \in SUBSET u /\ u \ {Pick(u)} # u /\ u \ {Pick(u)} # s
        BY <4>1, Picks
      <4>3. u # {} => h[u \ {Pick(u)}] = sum(u \ {Pick(u)})  BY <3>2, <4>2
      <4>4. h[u] = sum(u)  BY <4>1, <4>3, <2>3, <2>a
      <4>. QED  BY <4>1, <4>4
    <3>3. SUBSET v \subseteq Same
      <4>. HIDE DEF Same
      <4>. QED  BY <3>1, <3>2, SubsetInduction
    <3>. QED  BY <3>3, <2>4
  <2>5. sum(s) = whole
    <3>1. s # {} => s \ {Pick(s)} \in SUBSET s /\ s \ {Pick(s)} # s  BY Picks
    <3>2. s # {} => h[s \ {Pick(s)}] = sum(s \ {Pick(s)})  BY <3>1, <2>4
    <3>. QED  BY <3>2, <2>s, <2>3
  <2>. QED  BY <2>5, Zenon DEF sum, Unfolds
<1>2. SUBSET S \subseteq T
  <2>. HIDE DEF T
  <2>. QED  BY <1>1, SubsetInduction
<1>. QED  BY <1>2

\* The sum over no elements.
LEMMA SumEmpty == ASSUME NEW f PROVE SumFunctionOnSet(f, {}) = 0
  BY SumUnfolds, FS_EmptySet DEF Unfolds

\* A sum of integers is one.
LEMMA SumType ==
  ASSUME NEW S, IsFiniteSet(S), NEW f, \A x \in S : f[x] \in Int
  PROVE  SumFunctionOnSet(f, S) \in Int
<1>. DEFINE T == {s \in SUBSET S : SumFunctionOnSet(f, s) \in Int}
<1>1. ASSUME NEW s \in SUBSET S, \A u \in SUBSET s : u # s => u \in T PROVE s \in T
  <2>1. IsFiniteSet(s)  BY FS_Subset
  <2>2. CASE s = {}  BY <2>2, SumEmpty
  <2>3. CASE s # {}
    <3>1. Pick(s) \in s /\ s \ {Pick(s)} # s  BY <2>3, Picks
    <3>2. SumFunctionOnSet(f, s \ {Pick(s)}) \in Int  BY <1>1, <3>1
    <3>3. SumFunctionOnSet(f, s) = f[Pick(s)] + SumFunctionOnSet(f, s \ {Pick(s)})
      BY <2>1, <2>3, SumUnfolds DEF Unfolds
    <3>. QED  BY <3>1, <3>2, <3>3
  <2>. QED  BY <2>2, <2>3
<1>2. SUBSET S \subseteq T
  <2>. HIDE DEF T
  <2>. QED  BY <1>1, SubsetInduction
<1>. QED  BY <1>2

\* A sum of natural numbers is one.
LEMMA SumNat ==
  ASSUME NEW S, IsFiniteSet(S), NEW f, \A x \in S : f[x] \in Nat
  PROVE  SumFunctionOnSet(f, S) \in Nat
<1>. DEFINE T == {s \in SUBSET S : SumFunctionOnSet(f, s) \in Nat}
<1>1. ASSUME NEW s \in SUBSET S, \A u \in SUBSET s : u # s => u \in T PROVE s \in T
  <2>1. IsFiniteSet(s)  BY FS_Subset
  <2>2. CASE s = {}  BY <2>2, SumEmpty
  <2>3. CASE s # {}
    <3>1. Pick(s) \in s /\ s \ {Pick(s)} # s  BY <2>3, Picks
    <3>2. SumFunctionOnSet(f, s \ {Pick(s)}) \in Nat  BY <1>1, <3>1
    <3>3. SumFunctionOnSet(f, s) = f[Pick(s)] + SumFunctionOnSet(f, s \ {Pick(s)})
      BY <2>1, <2>3, SumUnfolds DEF Unfolds
    <3>. QED  BY <3>1, <3>2, <3>3
  <2>. QED  BY <2>2, <2>3
<1>2. SUBSET S \subseteq T
  <2>. HIDE DEF T
  <2>. QED  BY <1>1, SubsetInduction
<1>. QED  BY <1>2

\* A sum of summands that are bounded is.
LEMMA SumBounded ==
  ASSUME NEW S, IsFiniteSet(S), NEW f, NEW m \in Nat,
         \A x \in S : f[x] \in Nat /\ f[x] <= m
  PROVE  SumFunctionOnSet(f, S) <= Cardinality(S) * m
<1>. DEFINE T == {s \in SUBSET S : SumFunctionOnSet(f, s) <= Cardinality(s) * m}
<1>1. ASSUME NEW s \in SUBSET S, \A u \in SUBSET s : u # s => u \in T PROVE s \in T
  <2>1. IsFiniteSet(s)  BY FS_Subset
  <2>2. CASE s = {}
    <3>1. SumFunctionOnSet(f, s) = 0 /\ Cardinality(s) = 0  BY <2>2, SumEmpty, FS_EmptySet
    <3>2. 0 * m = 0  OBVIOUS
    <3>3. SumFunctionOnSet(f, s) <= Cardinality(s) * m  BY <3>1, <3>2
    <3>. QED  BY <3>3
  <2>3. CASE s # {}
    <3>. DEFINE r == s \ {Pick(s)}
    <3>1. Pick(s) \in s /\ r # s /\ r \in SUBSET S  BY <2>3, Picks
    <3>2. IsFiniteSet(r) /\ Cardinality(r) \in Nat /\ Cardinality(s) = Cardinality(r) + 1
      <4>1. IsFiniteSet(r) /\ Cardinality(r) = Cardinality(s) - 1
        BY <2>1, <3>1, FS_RemoveElement
      <4>. HIDE DEF r
      <4>2. Cardinality(r) \in Nat /\ Cardinality(s) \in Nat  BY <2>1, <4>1, FS_CardinalityType
      <4>. QED  BY <4>1, <4>2
    <3>3. SumFunctionOnSet(f, r) <= Cardinality(r) * m  BY <1>1, <3>1
    <3>4. SumFunctionOnSet(f, s) = f[Pick(s)] + SumFunctionOnSet(f, r)
      BY <2>1, <2>3, SumUnfolds DEF Unfolds
    <3>5. f[Pick(s)] \in Nat /\ f[Pick(s)] <= m  BY <3>1
    <3>6. SumFunctionOnSet(f, r) \in Nat
      <4>1. \A x \in r : f[x] \in Nat  BY <3>1
      <4>. HIDE DEF r
      <4>. QED  BY <3>2, <4>1, SumNat
    <3>. HIDE DEF r
    <3>7. (Cardinality(r) + 1) * m = Cardinality(r) * m + m  BY <3>2
    <3>8. Cardinality(r) * m \in Nat  BY <3>2
    <3>9. SumFunctionOnSet(f, s) <= Cardinality(s) * m
      BY <3>2, <3>3, <3>4, <3>5, <3>6, <3>7, <3>8
    <3>. QED  BY <3>9
  <2>. QED  BY <2>2, <2>3
<1>2. SUBSET S \subseteq T
  <2>. HIDE DEF T
  <2>. QED  BY <1>1, SubsetInduction
<1>. QED  BY <1>2

\* A function has no more values than arguments.
LEMMA ImageBounded ==
  ASSUME NEW S, IsFiniteSet(S), NEW f
  PROVE  IsFiniteSet({f[x] : x \in S}) /\ Cardinality({f[x] : x \in S}) <= Cardinality(S)
<1>. DEFINE V == {f[x] : x \in S}
            g == [x \in S |-> f[x]]
<1>1. g \in Surjection(S, V)  BY DEF Surjection
<1>. HIDE DEF g, V
<1>2. IsFiniteSet(V) /\ Cardinality(V) <= Cardinality(S)  BY <1>1, FS_Surjection
<1>. QED  BY <1>2 DEF V

\* Any element may be taken first.
LEMMA SumRemove ==
  ASSUME NEW S, IsFiniteSet(S), NEW f, \A x \in S : f[x] \in Int, NEW a \in S
  PROVE  SumFunctionOnSet(f, S) = f[a] + SumFunctionOnSet(f, S \ {a})
<1>. DEFINE sum(u) == SumFunctionOnSet(f, u)
            T == {s \in SUBSET S : \A x \in s : sum(s) = f[x] + sum(s \ {x})}
<1>a. \A s \in SUBSET S : IsFiniteSet(s)  BY FS_Subset
<1>b. \A s \in SUBSET S : sum(s) \in Int  BY <1>a, SumType
<1>c. \A s \in SUBSET S : s # {} => sum(s) = f[Pick(s)] + sum(s \ {Pick(s)})
  BY <1>a, SumUnfolds, Zenon DEF Unfolds
<1>. HIDE DEF sum
<1>1. ASSUME NEW s \in SUBSET S, \A u \in SUBSET s : u # s => u \in T PROVE s \in T
  <2>. SUFFICES ASSUME NEW x \in s PROVE sum(s) = f[x] + sum(s \ {x})  OBVIOUS
  <2>. DEFINE p == Pick(s)
  <2>1. p \in s  BY Picks
  <2>2. sum(s) = f[p] + sum(s \ {p})  BY <1>c
  <2>. HIDE DEF p
  <2>3. CASE x = p  BY <2>2, <2>3
  <2>4. CASE x # p
    <3>1. s \ {p} \in T /\ s \ {x} \in T  BY <1>1, <2>1
    <3>2. sum(s \ {p}) = f[x] + sum((s \ {p}) \ {x})  BY <3>1, <2>4
    <3>3. sum(s \ {x}) = f[p] + sum((s \ {x}) \ {p})  BY <3>1, <2>1, <2>4
    <3>4. (s \ {x}) \ {p} = (s \ {p}) \ {x}  OBVIOUS
    <3>5. sum((s \ {p}) \ {x}) \in Int /\ f[x] \in Int /\ f[p] \in Int  BY <1>b, <2>1
    <3>. DEFINE rest == sum((s \ {p}) \ {x})
    <3>6. sum(s) = f[p] + (f[x] + rest) /\ sum(s \ {x}) = f[p] + rest
      BY <2>2, <3>2, <3>3, <3>4
    <3>7. rest \in Int /\ f[x] \in Int /\ f[p] \in Int  BY <3>5
    <3>. HIDE DEF rest
    <3>8. f[p] + (f[x] + rest) = f[x] + (f[p] + rest)  BY <3>7
    <3>. QED  BY <3>6, <3>8
  <2>. QED  BY <2>3, <2>4
<1>2. SUBSET S \subseteq T
  <2>. HIDE DEF T
  <2>. QED  BY <1>1, SubsetInduction
<1>. QED  BY <1>2 DEF sum

\* The same summands have the same sum.
LEMMA SumSame ==
  ASSUME NEW S, IsFiniteSet(S), NEW f, NEW g, \A x \in S : f[x] = g[x]
  PROVE  SumFunctionOnSet(f, S) = SumFunctionOnSet(g, S)
<1>. DEFINE T == {s \in SUBSET S : SumFunctionOnSet(f, s) = SumFunctionOnSet(g, s)}
<1>1. ASSUME NEW s \in SUBSET S, \A u \in SUBSET s : u # s => u \in T PROVE s \in T
  <2>1. IsFiniteSet(s)  BY FS_Subset
  <2>2. CASE s = {}  BY <2>2, SumEmpty
  <2>3. CASE s # {}
    <3>1. Pick(s) \in s /\ s \ {Pick(s)} # s  BY <2>3, Picks
    <3>2. SumFunctionOnSet(f, s \ {Pick(s)}) = SumFunctionOnSet(g, s \ {Pick(s)})  BY <1>1, <3>1
    <3>3. /\ SumFunctionOnSet(f, s) = f[Pick(s)] + SumFunctionOnSet(f, s \ {Pick(s)})
          /\ SumFunctionOnSet(g, s) = g[Pick(s)] + SumFunctionOnSet(g, s \ {Pick(s)})
      BY <2>1, <2>3, SumUnfolds DEF Unfolds
    <3>. QED  BY <3>1, <3>2, <3>3
  <2>. QED  BY <2>2, <2>3
<1>2. SUBSET S \subseteq T
  <2>. HIDE DEF T
  <2>. QED  BY <1>1, SubsetInduction
<1>. QED  BY <1>2

\* One summand that changes.
LEMMA SumChange ==
  ASSUME NEW S, IsFiniteSet(S), NEW f, NEW g, NEW a \in S,
         \A x \in S : f[x] \in Int /\ g[x] \in Int,
         \A x \in S : x # a => f[x] = g[x]
  PROVE  SumFunctionOnSet(g, S) = SumFunctionOnSet(f, S) - f[a] + g[a]
<1>1. IsFiniteSet(S \ {a})  BY FS_RemoveElement
<1>2. SumFunctionOnSet(f, S \ {a}) = SumFunctionOnSet(g, S \ {a})  BY <1>1, SumSame
<1>3. SumFunctionOnSet(f, S) = f[a] + SumFunctionOnSet(f, S \ {a})  BY SumRemove
<1>4. SumFunctionOnSet(g, S) = g[a] + SumFunctionOnSet(g, S \ {a})  BY SumRemove
<1>5. SumFunctionOnSet(f, S \ {a}) \in Int  BY <1>1, SumType
<1>. QED  BY <1>2, <1>3, <1>4, <1>5

\* The sum of sums.
LEMMA SumPlus ==
  ASSUME NEW S, IsFiniteSet(S), NEW f, NEW g, NEW h,
         \A x \in S : f[x] \in Int /\ g[x] \in Int /\ h[x] = f[x] + g[x]
  PROVE  SumFunctionOnSet(h, S) = SumFunctionOnSet(f, S) + SumFunctionOnSet(g, S)
<1>. DEFINE T == {s \in SUBSET S : SumFunctionOnSet(h, s) = SumFunctionOnSet(f, s) + SumFunctionOnSet(g, s)}
<1>1. ASSUME NEW s \in SUBSET S, \A u \in SUBSET s : u # s => u \in T PROVE s \in T
  <2>1. IsFiniteSet(s)  BY FS_Subset
  <2>2. CASE s = {}  BY <2>2, SumEmpty
  <2>3. CASE s # {}
    <3>. DEFINE p == Pick(s)
                r == s \ {p}
    <3>1. p \in s /\ r # s /\ r \in SUBSET s  BY <2>3, Picks
    <3>2. /\ SumFunctionOnSet(f, s) = f[p] + SumFunctionOnSet(f, r)
          /\ SumFunctionOnSet(g, s) = g[p] + SumFunctionOnSet(g, r)
          /\ SumFunctionOnSet(h, s) = h[p] + SumFunctionOnSet(h, r)
      BY <2>1, <2>3, SumUnfolds DEF Unfolds
    <3>. HIDE DEF p, r
    <3>3. SumFunctionOnSet(h, r) = SumFunctionOnSet(f, r) + SumFunctionOnSet(g, r)  BY <1>1, <3>1
    <3>4. IsFiniteSet(r)  BY <3>1, <2>1, FS_Subset
    <3>5. SumFunctionOnSet(f, r) \in Int /\ SumFunctionOnSet(g, r) \in Int  BY <3>1, <3>4, SumType
    <3>. QED  BY <3>1, <3>2, <3>3, <3>5
  <2>. QED  BY <2>2, <2>3
<1>2. SUBSET S \subseteq T
  <2>. HIDE DEF T
  <2>. QED  BY <1>1, SubsetInduction
<1>. QED  BY <1>2

\* A sum of nothing but zeros, and one of naturals.
LEMMA SumZero ==
  ASSUME NEW S, IsFiniteSet(S), NEW f, \A x \in S : f[x] = 0
  PROVE  SumFunctionOnSet(f, S) = 0
<1>. DEFINE x == SumFunctionOnSet(f, S)
<1>1. x = x + x  BY SumPlus
<1>2. x \in Int  BY SumType
<1>. HIDE DEF x
<1>3. x = 0  BY <1>1, <1>2
<1>. QED  BY <1>3 DEF x

\* Summands that are zero may be left out.
LEMMA SumOfPart ==
  ASSUME NEW S, IsFiniteSet(S), NEW f, NEW T \in SUBSET S, NEW g,
         \A x \in S : f[x] \in Int,
         \A x \in S \ T : f[x] = 0,
         \A x \in T : f[x] = g[x]
  PROVE  SumFunctionOnSet(g, T) = SumFunctionOnSet(f, S)
<1>. DEFINE Part == {s \in SUBSET S : SumFunctionOnSet(f, s) = SumFunctionOnSet(f, s \cap T)}
<1>1. ASSUME NEW s \in SUBSET S, \A u \in SUBSET s : u # s => u \in Part PROVE s \in Part
  <2>1. IsFiniteSet(s)  BY FS_Subset
  <2>2. CASE s = {}
    <3>1. s \cap T = s  BY <2>2
    <3>. QED  BY <3>1
  <2>3. CASE s # {}
    <3>. DEFINE p == Pick(s)
                r == s \ {p}
    <3>1. p \in s /\ r # s /\ r \in SUBSET s  BY <2>3, Picks
    <3>. HIDE DEF p
    <3>2. SumFunctionOnSet(f, s) = f[p] + SumFunctionOnSet(f, r)
      BY <3>1, <2>1, SumRemove
    <3>3. SumFunctionOnSet(f, r) = SumFunctionOnSet(f, r \cap T)  BY <1>1, <3>1
    <3>4. CASE p \in T
      <4>1. (s \cap T) \ {p} = r \cap T /\ p \in s \cap T  BY <3>1, <3>4
      <4>2. IsFiniteSet(s \cap T)  BY <2>1, FS_Subset
      <4>3. SumFunctionOnSet(f, s \cap T) = f[p] + SumFunctionOnSet(f, (s \cap T) \ {p})
        BY <4>1, <4>2, SumRemove
      <4>. QED  BY <3>2, <3>3, <4>1, <4>3
    <3>5. CASE p \notin T
      <4>1. s \cap T = r \cap T /\ f[p] = 0  BY <3>1, <3>5
      <4>2. IsFiniteSet(r)  BY <3>1, <2>1, FS_Subset
      <4>3. SumFunctionOnSet(f, r) \in Int  BY <4>2, <3>1, SumType
      <4>. HIDE DEF r
      <4>4. SumFunctionOnSet(f, s) = SumFunctionOnSet(f, r)  BY <3>2, <4>1, <4>3
      <4>5. SumFunctionOnSet(f, s \cap T) = SumFunctionOnSet(f, r \cap T)  BY <4>1
      <4>. QED  BY <3>3, <4>4, <4>5
    <3>. QED  BY <3>4, <3>5
  <2>. QED  BY <2>2, <2>3
<1>2. SUBSET S \subseteq Part
  <2>. HIDE DEF Part
  <2>. QED  BY <1>1, SubsetInduction
<1>3. SumFunctionOnSet(f, S) = SumFunctionOnSet(f, S \cap T)  BY <1>2
<1>4. S \cap T = T /\ IsFiniteSet(T)  BY FS_Subset
<1>5. SumFunctionOnSet(f, T) = SumFunctionOnSet(g, T)  BY <1>4, SumSame
<1>. QED  BY <1>3, <1>4, <1>5

\* The sum over a sequence, and how it grows.
LEMMA SumOfSequence ==
  ASSUME NEW s \in Seq(Int)
  PROVE  SumFunction(s) = SumFunctionOnSet(s, 1..Len(s)) /\ SumFunction(s) \in Int
<1>1. DOMAIN s = 1..Len(s) /\ IsFiniteSet(1..Len(s))  BY FS_Interval
<1>2. \A i \in 1..Len(s) : s[i] \in Int  OBVIOUS
<1>3. SumFunction(s) = SumFunctionOnSet(s, 1..Len(s))  BY <1>1, Zenon DEF SumFunction
<1>4. SumFunctionOnSet(s, 1..Len(s)) \in Int  BY <1>1, <1>2, SumType
<1>. QED  BY <1>3, <1>4

\* An empty sequence sums to 0.
LEMMA SumOfNone == SumFunction(<< >>) = 0
<1>1. << >> \in Seq(Int) /\ Len(<< >>) = 0  OBVIOUS
<1>2. SumFunction(<< >>) = SumFunctionOnSet(<< >>, 1..Len(<< >>))  BY <1>1, SumOfSequence
<1>3. 1..Len(<< >>) = {}  BY <1>1
<1>. QED  BY <1>2, <1>3, SumEmpty

\* One more element adds to the sum.
LEMMA SumAppended ==
  ASSUME NEW s \in Seq(Int), NEW p \in Int
  PROVE  SumFunction(Append(s, p)) = SumFunction(s) + p
<1>. DEFINE t == Append(s, p)
            n == Len(s)
<1>1. n \in Nat  OBVIOUS
<1>2. t \in Seq(Int) /\ Len(t) = n + 1 /\ t[n + 1] = p /\ \A i \in 1..n : t[i] = s[i]  OBVIOUS
<1>. HIDE DEF t
<1>3. /\ SumFunction(t) = SumFunctionOnSet(t, 1..(n + 1))
      /\ SumFunction(s) = SumFunctionOnSet(s, 1..n) /\ SumFunction(s) \in Int
  BY <1>2, SumOfSequence
<1>. HIDE DEF n
<1>4. (1..(n + 1)) \ {n + 1} = 1..n /\ n + 1 \in 1..(n + 1)  BY <1>1
<1>5. IsFiniteSet(1..n) /\ IsFiniteSet(1..(n + 1))  BY <1>1, FS_Interval
<1>6. \A i \in 1..(n + 1) : t[i] \in Int  BY <1>2 DEF n
<1>7. SumFunctionOnSet(t, 1..(n + 1)) = t[n + 1] + SumFunctionOnSet(t, (1..(n + 1)) \ {n + 1})
  BY <1>4, <1>5, <1>6, SumRemove
<1>8. SumFunctionOnSet(t, 1..n) = SumFunctionOnSet(s, 1..n)  BY <1>2, <1>5, SumSame
<1>9. SumFunctionOnSet(t, 1..(n + 1)) = p + SumFunctionOnSet(s, 1..n)
  BY <1>2, <1>4, <1>7, <1>8
<1>10. SumFunction(t) = p + SumFunction(s)  BY <1>3, <1>9
<1>11. SumFunction(t) = SumFunction(s) + p  BY <1>3, <1>10
<1>. QED  BY <1>11 DEF t

\* A product is as monotone as one expects.
LEMMA ProductGrows ==
  ASSUME NEW m \in Nat, NEW a \in Int, NEW b \in Int, a <= b
  PROVE  m * a <= m * b
<1> DEFINE d == b - a
<1>1. d \in Nat
  OBVIOUS
<1>2. m * d >= 0
  BY <1>1
<1>3. m * d = m * b - m * a
  OBVIOUS
<1> HIDE DEF d
<1>4. m * a \in Int /\ m * b \in Int
  OBVIOUS
<1> QED BY <1>2, <1>3, <1>4

\* A quotient, and what it takes of the number divided.
LEMMA PartFacts ==
  ASSUME NEW a \in Nat, NEW b \in Nat \ {0}
  PROVE  a \div b \in Nat /\ (a \div b) * b <= a /\ a \div b <= a
<1> DEFINE k == a \div b
<1>1. k \in Nat /\ a = b * k + (a % b) /\ a % b \in Nat
  OBVIOUS
<1> HIDE DEF k
<1>2. k * 1 <= k * b
  BY <1>1, ProductGrows
<1>3. k * b = b * k /\ k * b \in Nat
  BY <1>1
<1> QED
  BY <1>1, <1>2, <1>3 DEF k

\* A set of integers has a largest and a smallest element.
LEMMA LargestExists ==
  ASSUME NEW S \in SUBSET Int, IsFiniteSet(S), S # {}
  PROVE  \E x \in S : \A y \in S : x >= y
<1>. DEFINE T == {s \in SUBSET S : s # {} => \E x \in s : \A y \in s : x >= y}
<1>1. ASSUME NEW s \in SUBSET S, \A u \in SUBSET s : u # s => u \in T PROVE s \in T
  <2>. SUFFICES ASSUME s # {} PROVE \E x \in s : \A y \in s : x >= y  OBVIOUS
  <2>1. PICK a : a \in s  OBVIOUS
  <2>2. s \ {a} \in T  BY <1>1, <2>1
  <2>3. CASE s \ {a} = {}
    <3>1. \A y \in s : y = a  BY <2>3
    <3>. QED  BY <2>1, <3>1
  <2>4. CASE s \ {a} # {}
    <3>1. PICK b \in s \ {a} : \A y \in s \ {a} : b >= y  BY <2>2, <2>4
    <3>2. a \in Int /\ b \in Int /\ \A y \in s : y \in Int  BY <2>1
    <3>3. CASE a >= b  BY <2>1, <3>1, <3>2, <3>3
    <3>4. CASE ~(a >= b)  BY <2>1, <3>1, <3>2, <3>4
    <3>. QED  BY <3>3, <3>4
  <2>. QED  BY <2>3, <2>4
<1>2. SUBSET S \subseteq T
  <2>. HIDE DEF T
  <2>. QED  BY <1>1, SubsetInduction
<1>. QED  BY <1>2

\* And a smallest one.
LEMMA SmallestExists ==
  ASSUME NEW S \in SUBSET Int, IsFiniteSet(S), S # {}
  PROVE  \E x \in S : \A y \in S : x <= y
<1>. DEFINE T == {s \in SUBSET S : s # {} => \E x \in s : \A y \in s : x <= y}
<1>1. ASSUME NEW s \in SUBSET S, \A u \in SUBSET s : u # s => u \in T PROVE s \in T
  <2>. SUFFICES ASSUME s # {} PROVE \E x \in s : \A y \in s : x <= y  OBVIOUS
  <2>1. PICK a : a \in s  OBVIOUS
  <2>2. s \ {a} \in T  BY <1>1, <2>1
  <2>3. CASE s \ {a} = {}
    <3>1. \A y \in s : y = a  BY <2>3
    <3>. QED  BY <2>1, <3>1
  <2>4. CASE s \ {a} # {}
    <3>1. PICK b \in s \ {a} : \A y \in s \ {a} : b <= y  BY <2>2, <2>4
    <3>2. a \in Int /\ b \in Int /\ \A y \in s : y \in Int  BY <2>1
    <3>3. CASE a <= b  BY <2>1, <3>1, <3>2, <3>3
    <3>4. CASE ~(a <= b)  BY <2>1, <3>1, <3>2, <3>4
    <3>. QED  BY <3>3, <3>4
  <2>. QED  BY <2>3, <2>4
<1>2. SUBSET S \subseteq T
  <2>. HIDE DEF T
  <2>. QED  BY <1>1, SubsetInduction
<1>. QED  BY <1>2

\* The elements of a sequence.
LEMMA RowOf ==
  ASSUME NEW S, NEW q \in Seq(S)
  PROVE  (\A k \in 1..Len(q) : q[k] \in S) /\ (q # << >> => 1 \in 1..Len(q))
  OBVIOUS

\* An element comes later in the list by as many as there are from the other on.
LEMMA IndexGrows ==
  ASSUME NEW ks \in SUBSET Nat, IsFiniteSet(ks), NEW k \in ks, NEW l \in ks, k <= l
  PROVE  /\ Index(ks, k) \in Nat /\ Index(ks, l) \in Nat
         /\ Index(ks, l) - Index(ks, k) = Cardinality({x \in ks : k <= x /\ x < l})
<1> DEFINE before == {x \in ks : x < k}
           between == {x \in ks : k <= x /\ x < l}
           all == {x \in ks : x < l}
<1>1. IsFiniteSet(before) /\ IsFiniteSet(between) /\ IsFiniteSet(all)
  BY FS_Subset
<1>2. all = before \cup between /\ before \cap between = {}
  <2>1. ks \subseteq Nat /\ k \in Nat /\ l \in Nat
    OBVIOUS
  <2>2. \A x \in ks : /\ x < l <=> (x < k \/ (k <= x /\ x < l))
                      /\ ~(x < k /\ k <= x)
    BY <2>1
  <2> QED
    BY <2>2
<1>3. Cardinality(all) = Cardinality(before) + Cardinality(between) - Cardinality({})
  <2> HIDE DEF all, before, between
  <2> QED
    BY <1>1, <1>2, FS_Union
<1>4. Cardinality(before) \in Nat /\ Cardinality(between) \in Nat /\ Cardinality({}) = 0
  BY <1>1, FS_CardinalityType, FS_EmptySet
<1>5. Index(ks, k) = Cardinality(before) /\ Index(ks, l) = Cardinality(all)
  BY DEF Index
<1> HIDE DEF all, before, between
<1>6. Cardinality(all) \in Nat /\ Cardinality(all) - Cardinality(before) = Cardinality(between)
  BY <1>3, <1>4
<1> QED
  BY <1>4, <1>5, <1>6 DEF between

LEMMA IndexStrict ==
  ASSUME NEW ks \in SUBSET Nat, IsFiniteSet(ks), NEW k \in ks, NEW l \in ks
  PROVE  /\ k < l <=> Index(ks, k) < Index(ks, l)
         /\ k = l <=> Index(ks, k) = Index(ks, l)
<1>1. ASSUME NEW a \in ks, NEW b \in ks, a < b PROVE Index(ks, a) < Index(ks, b)
  <2> DEFINE between == {x \in ks : a <= x /\ x < b}
  <2>1. a \in between /\ IsFiniteSet(between)
    BY <1>1, FS_Subset
  <2>2. Cardinality(between) \in Nat /\ Cardinality(between) # 0
    <3> HIDE DEF between
    <3> QED
      BY <2>1, FS_CardinalityType, FS_EmptySet
  <2>3. Index(ks, a) \in Nat /\ Index(ks, b) \in Nat
        /\ Index(ks, b) - Index(ks, a) = Cardinality(between)
    BY <1>1, IndexGrows
  <2> HIDE DEF between
  <2> QED
    BY <2>2, <2>3
<1>2. Index(ks, k) \in Nat /\ Index(ks, l) \in Nat
  <2>1. k <= k /\ l <= l
    OBVIOUS
  <2> QED
    BY <2>1, IndexGrows
<1>3. k \in Nat /\ l \in Nat
  OBVIOUS
<1>4. CASE k < l
  BY <1>1, <1>2, <1>3, <1>4
<1>5. CASE l < k
  BY <1>1, <1>2, <1>3, <1>5
<1>6. CASE k = l
  BY <1>2, <1>3, <1>6
<1> QED
  BY <1>3, <1>4, <1>5, <1>6

\* Each place of the list, from the first to the last, is that of one element.
LEMMA IndexBijective ==
  ASSUME NEW ks \in SUBSET Nat, IsFiniteSet(ks)
  PROVE  /\ \A k \in ks : Index(ks, k) \in 0..(Cardinality(ks) - 1)
         /\ \A i \in 0..(Cardinality(ks) - 1) : AtIndex(ks, i) \in ks /\ Index(ks, AtIndex(ks, i)) = i
<1> DEFINE n == Cardinality(ks)
           f == [k \in ks |-> Index(ks, k)]
<1>1. n \in Nat
  BY FS_CardinalityType
<1>2. ASSUME NEW k \in ks PROVE Index(ks, k) \in 0..(n - 1)
  <2> DEFINE before == {x \in ks : x < k}
  <2>1. before \in SUBSET ks /\ before # ks
    OBVIOUS
  <2>2. IsFiniteSet(before) /\ Cardinality(before) <= Cardinality(ks)
        /\ Cardinality(before) # Cardinality(ks)
    <3> HIDE DEF before
    <3> QED
      BY <2>1, FS_Subset
  <2>3. Cardinality(before) \in Nat
    BY <2>2, FS_CardinalityType
  <2>4. Index(ks, k) = Cardinality(before)
    BY DEF Index
  <2> HIDE DEF before
  <2> QED
    BY <1>1, <2>2, <2>3, <2>4
<1>3. f \in Injection(ks, 0..(n - 1))
  <2>1. f \in [ks -> 0..(n - 1)]
    BY <1>2
  <2>2. \A a, b \in ks : f[a] = f[b] => a = b
    BY IndexStrict
  <2> HIDE DEF f
  <2> QED
    BY <2>1, <2>2, Zenon DEF Injection, IsInjective
<1>4. IsFiniteSet(0..(n - 1)) /\ Cardinality(0..(n - 1)) = n
  <2>1. 0 \in Int /\ n - 1 \in Int
    BY <1>1
  <2>2. /\ IsFiniteSet(0..(n - 1))
        /\ Cardinality(0..(n - 1)) = IF 0 > n - 1 THEN 0 ELSE (n - 1) - 0 + 1
    <3> HIDE DEF n
    <3> QED
      BY <2>1, FS_Interval
  <2> QED
    BY <1>1, <2>2
<1>5. f \in Surjection(ks, 0..(n - 1))
  <2> HIDE DEF f
  <2>1. Cardinality(ks) = Cardinality(0..(n - 1))
    BY <1>4
  <2> QED
    BY <1>3, <1>4, <2>1, FS_Injection
<1>6. ASSUME NEW i \in 0..(n - 1)
      PROVE  AtIndex(ks, i) \in ks /\ Index(ks, AtIndex(ks, i)) = i
  <2>1. \E k \in ks : f[k] = i
    <3> HIDE DEF f
    <3> QED
      BY <1>5 DEF Surjection
  <2>2. \E k \in ks : Index(ks, k) = i
    BY <2>1
  <2> QED
    BY <2>2, Zenon DEF AtIndex
<1> QED
  BY <1>2, <1>6

\* Picking keeps the order of what is picked, and nothing is lost or made up.
LEMMA PickedFacts ==
  ASSUME NEW B, NEW s \in Seq(B), NEW I \in SUBSET (1..Len(s))
  PROVE  LET r == Picked(s, I) IN
         /\ r \in Seq(B) /\ Len(r) = Cardinality(I) /\ Len(r) <= Len(s)
         /\ \A n \in 1..Len(r) : \E i \in I : r[n] = s[i]
         /\ \A i \in I : \E n \in 1..Len(r) : r[n] = s[i]
         /\ \A m, n \in 1..Len(r) : m < n => \E i, j \in I : i < j /\ r[m] = s[i] /\ r[n] = s[j]
<1> DEFINE r == Picked(s, I)
           size == Cardinality(I)
           at(n) == AtIndex(I, n - 1)
<1>1. Len(s) \in Nat /\ IsFiniteSet(1..Len(s)) /\ Cardinality(1..Len(s)) = Len(s)
  <2>1. Len(s) \in Nat
    OBVIOUS
  <2>2. IsFiniteSet(1..Len(s)) /\ Cardinality(1..Len(s)) = IF 1 > Len(s) THEN 0 ELSE Len(s) - 1 + 1
    BY <2>1, FS_Interval
  <2> QED
    BY <2>1, <2>2
<1>2. IsFiniteSet(I) /\ size <= Len(s)
  BY <1>1, FS_Subset
<1>3. size \in Nat
  BY <1>2, FS_CardinalityType
<1>4. I \in SUBSET Nat
  BY <1>1
<1> HIDE DEF size
<1>5. /\ \A i \in I : Index(I, i) \in 0..(size - 1)
      /\ \A n \in 0..(size - 1) : AtIndex(I, n) \in I /\ Index(I, AtIndex(I, n)) = n
  BY <1>2, <1>4, IndexBijective DEF size
<1>6. \A n \in 1..size : at(n) \in I /\ Index(I, at(n)) = n - 1
  <2>1. \A n \in 1..size : n - 1 \in 0..(size - 1)
    BY <1>3
  <2> QED
    BY <1>5, <2>1
<1> HIDE DEF at
<1>7. \A i \in I : s[i] \in B
  BY <1>1
<1>8. r = [n \in 1..size |-> s[at(n)]]
  BY Zenon DEF Picked, size, at
<1>9. r \in Seq(B) /\ Len(r) = size /\ \A n \in 1..size : r[n] = s[at(n)]
  <2> HIDE DEF r
  <2>1. \A n \in 1..size : s[at(n)] \in B
    BY <1>6, <1>7
  <2> QED
    BY <1>3, <1>8, <2>1
<1> HIDE DEF r
<1>10. \A n \in 1..Len(r) : \E i \in I : r[n] = s[i]
  BY <1>6, <1>9
<1>11. ASSUME NEW i \in I PROVE \E n \in 1..Len(r) : r[n] = s[i]
  <2> DEFINE n == Index(I, i) + 1
  <2>1. Index(I, i) \in 0..(size - 1)
    BY <1>5
  <2>2. n \in 1..size /\ n - 1 = Index(I, i)
    BY <1>3, <2>1
  <2> HIDE DEF n
  <2>3. Index(I, at(n)) = Index(I, i) /\ at(n) \in I
    BY <1>6, <2>2
  <2>4. at(n) = i
    BY <1>2, <1>4, <2>3, IndexStrict
  <2> QED
    BY <1>9, <2>2, <2>4
<1>12. ASSUME NEW m \in 1..Len(r), NEW n \in 1..Len(r), m < n
       PROVE  \E i, j \in I : i < j /\ r[m] = s[i] /\ r[n] = s[j]
  <2>1. m \in 1..size /\ n \in 1..size
    BY <1>9
  <2>2. at(m) \in I /\ at(n) \in I /\ Index(I, at(m)) = m - 1 /\ Index(I, at(n)) = n - 1
    BY <1>6, <2>1
  <2>3. Index(I, at(m)) < Index(I, at(n))
    <3>1. m - 1 < n - 1
      BY <1>3, <1>12, <2>1
    <3> QED
      BY <2>2, <3>1
  <2>4. at(m) < at(n)
    BY <1>2, <1>4, <2>2, <2>3, IndexStrict, Zenon
  <2> QED
    BY <1>9, <2>1, <2>2, <2>4
<1>13. Len(r) <= Len(s)
  BY <1>2, <1>9
<1>14. Len(r) = Cardinality(I)
  BY <1>9 DEF size
<1> QED
  BY <1>9, <1>10, <1>11, <1>12, <1>13, <1>14 DEF r

=============================================================================
