----------------------------- MODULE FiniteLemmas -----------------------------
(***************************************************************************)
(* What the proofs about the hierarchy need of numbers, finite sets, sums  *)
(* and closures: least and greatest elements, that the sum the community   *)
(* modules fold over a set in some order does not depend on the order, and *)
(* that adding to a set what follows from it until nothing is missing      *)
(* yields the least set that lacks nothing.                                *)
(*                                                                         *)
(* Induction is carried out on the least counterexample (WFMin).  A sum is *)
(* counted: it is the number of elements of a grid with one column for     *)
(* each element of the set.                                                *)
(***************************************************************************)
EXTENDS Integers, FiniteSetsExt, FiniteSetTheorems, WellFoundedInduction, TLAPS

\* A set of numbers that is not empty has a least element.
LEMMA LeastNumber ==
  ASSUME NEW T, T \subseteq Nat, T # {}
  PROVE  \E x \in T : \A y \in T : x <= y
<1> DEFINE R == {ss \in Nat \X Nat : ss[1] < ss[2]}
<1>1. IsWellFoundedOn(R, Nat)
  BY NatLessThanWellFounded, Zenon DEF OpToRel
<1>2. \A y, x \in Nat : y < x => <<y, x>> \in R
  OBVIOUS
<1> HIDE DEF R
<1>3. PICK x \in T : \A y \in T : ~ (<<y, x>> \in R)
  BY <1>1, WFMin
<1>4. ASSUME NEW y \in T PROVE x <= y
  <2>1. x \in Nat /\ y \in Nat
    OBVIOUS
  <2>2. ~ (y < x)
    BY <1>2, <1>3, <2>1
  <2> QED BY <2>1, <2>2
<1> QED BY <1>4

\* A bounded set of numbers that is not empty has a greatest element, and that
\* is what Max yields.
LEMMA GreatestNumber ==
  ASSUME NEW T, T \subseteq Nat, T # {}, NEW b \in Nat, \A t \in T : t <= b
  PROVE  Max(T) \in T /\ \A y \in T : y <= Max(T)
<1> DEFINE D == {d \in Nat : b - d \in T}
<1>1. PICK t \in T : TRUE
  OBVIOUS
<1>2. t \in Nat /\ t <= b
  BY <1>1
<1>3. b - t \in Nat /\ b - (b - t) = t
  BY <1>2
<1>4. b - t \in D
  BY <1>1, <1>3
<1>5. PICK d \in D : \A y \in D : d <= y
  BY <1>4, LeastNumber
<1>6. ASSUME NEW y \in T PROVE b - d >= y
  <2>1. y \in Nat /\ y <= b /\ d \in Nat
    OBVIOUS
  <2>2. b - y \in Nat /\ b - (b - y) = y
    BY <2>1
  <2>3. b - y \in D
    BY <2>2
  <2>4. d <= b - y
    BY <1>5, <2>3
  <2> QED BY <2>1, <2>2, <2>4
<1>7. \E x \in T : \A y \in T : x >= y
  BY <1>6
<1>8. Max(T) \in T /\ \A y \in T : Max(T) >= y
  BY <1>7 DEF Max
<1>9. ASSUME NEW y \in T PROVE y <= Max(T)
  <2>1. y \in Nat /\ Max(T) \in Nat /\ Max(T) >= y
    BY <1>8
  <2> QED BY <2>1
<1> QED BY <1>8, <1>9

\* A set of subsets of a finite set has a minimal element.
LEMMA MinimalSubset ==
  ASSUME NEW S, IsFiniteSet(S), NEW B, B \subseteq SUBSET S, B # {}
  PROVE  \E T \in B : \A U \in B : U \subseteq T => U = T
<1>1. IsWellFoundedOn(StrictSubsetOrdering(S), SUBSET S)
  BY FS_StrictSubsetOrderingWellFounded, FS_FiniteSubsetsOfFinite
<1>2. PICK T \in B : \A U \in B : ~ (<<U, T>> \in StrictSubsetOrdering(S))
  BY <1>1, WFMin
<1>3. ASSUME NEW U \in B, U \subseteq T, U # T PROVE FALSE
  <2>1. <<U, T>> \in (SUBSET S) \X (SUBSET S)
    OBVIOUS
  <2>2. <<U, T>> \in StrictSubsetOrdering(S)
    BY <1>3, <2>1 DEF StrictSubsetOrdering
  <2> QED BY <1>2, <2>2
<1> QED BY <1>3

-----------------------------------------------------------------------------
(* Sums.                                                                   *)

\* A column of f[x] elements for each x in S.
Grid(f, S) == {e \in S \X Nat : e[2] \in 1..f[e[1]]}

\* One more column.
LEMMA GridAdd ==
  ASSUME NEW S, NEW f \in [S -> Nat], NEW T \in SUBSET S, NEW x \in S \ T,
         IsFiniteSet(Grid(f, T))
  PROVE  /\ IsFiniteSet(Grid(f, T \cup {x}))
         /\ Cardinality(Grid(f, T \cup {x})) = Cardinality(Grid(f, T)) + f[x]
<1> DEFINE C == {x} \X (1..f[x])
<1>1. f[x] \in Nat
  OBVIOUS
<1>2. Grid(f, T \cup {x}) = Grid(f, T) \cup C
  BY <1>1 DEF Grid
<1>3. Grid(f, T) \cap C = {}
  BY DEF Grid
<1>4. IsFiniteSet(1..f[x]) /\ Cardinality(1..f[x]) = f[x]
  BY <1>1, FS_Interval
<1>5. IsFiniteSet({x}) /\ Cardinality({x}) = 1
  BY FS_Singleton
<1>6. IsFiniteSet(C) /\ Cardinality(C) = 1 * f[x]
  BY <1>4, <1>5, FS_Product
<1> HIDE DEF C
<1>7. Cardinality(Grid(f, T)) \in Nat
  BY FS_CardinalityType
<1>8. /\ IsFiniteSet(Grid(f, T) \cup C)
      /\ Cardinality(Grid(f, T) \cup C) =
           Cardinality(Grid(f, T)) + Cardinality(C) - Cardinality(Grid(f, T) \cap C)
  BY <1>6, FS_Union
<1>9. Cardinality(Grid(f, T) \cap C) = 0
  BY <1>3, FS_EmptySet
<1>10. Cardinality(C) = f[x]
  BY <1>1, <1>6
<1>11. Cardinality(Grid(f, T) \cup C) = Cardinality(Grid(f, T)) + f[x]
  BY <1>1, <1>7, <1>8, <1>9, <1>10
<1> QED BY <1>2, <1>8, <1>11, Zenon

\* No rows, no cells.
LEMMA GridEmpty ==
  ASSUME NEW f
  PROVE  IsFiniteSet(Grid(f, {})) /\ Cardinality(Grid(f, {})) = 0
<1>1. Grid(f, {}) = {}
  BY DEF Grid
<1> QED BY <1>1, FS_EmptySet

\* Every grid over a finite set is finite.
LEMMA GridFinite ==
  ASSUME NEW S, IsFiniteSet(S), NEW f \in [S -> Nat], NEW T \in SUBSET S
  PROVE  IsFiniteSet(Grid(f, T)) /\ Cardinality(Grid(f, T)) \in Nat
<1> DEFINE B == {U \in SUBSET S : ~ IsFiniteSet(Grid(f, U))}
<1>1. ASSUME B # {} PROVE FALSE
  <2>0. B \subseteq SUBSET S
    OBVIOUS
  <2>1. PICK U \in B : \A V \in B : V \subseteq U => V = U
    <3> HIDE DEF B
    <3> QED BY <1>1, <2>0, MinimalSubset
  <2>2. U # {}
    BY <2>1, GridEmpty
  <2>3. PICK x \in U : TRUE
    BY <2>2
  <2>4. U \ {x} \notin B
    BY <2>1, <2>3
  <2>5. IsFiniteSet(Grid(f, U \ {x})) /\ x \in S \ (U \ {x}) /\ U \ {x} \in SUBSET S
    BY <2>3, <2>4
  <2>6. IsFiniteSet(Grid(f, (U \ {x}) \cup {x}))
    BY <2>5, GridAdd
  <2>7. (U \ {x}) \cup {x} = U
    BY <2>3
  <2> QED BY <2>1, <2>6, <2>7
<1>2. IsFiniteSet(Grid(f, T))
  BY <1>1
<1> QED BY <1>2, FS_CardinalityType

\* The sum of f over S in the order that CHOOSE gives, written as
\* MapThenFoldSet expands, is the size of the grid.
LEMMA SumIsGrid ==
  ASSUME NEW D, IsFiniteSet(D), NEW f \in [D -> Nat], NEW S \in SUBSET D, NEW iter,
         iter = CHOOSE g :
                  g = [s \in SUBSET S |->
                         IF s = {} THEN 0
                         ELSE f[CHOOSE x \in s : TRUE] + g[s \ {CHOOSE x \in s : TRUE}]]
  PROVE  iter[S] = Cardinality(Grid(f, S))
<1> DEFINE c(s)    == CHOOSE x \in s : TRUE
           Body(g) == [s \in SUBSET S |-> IF s = {} THEN 0 ELSE f[c(s)] + g[s \ {c(s)}]]
           size    == [s \in SUBSET S |-> Cardinality(Grid(f, s))]
<1>0. IsFiniteSet(S)
  BY FS_Subset
<1>1. iter = CHOOSE g : g = Body(g)
  BY Zenon
<1>2. \A s \in SUBSET S : s # {} =>
        /\ c(s) \in s /\ s \ {c(s)} \in SUBSET S
        /\ Cardinality(Grid(f, s)) = f[c(s)] + Cardinality(Grid(f, s \ {c(s)}))
  <2> SUFFICES ASSUME NEW s \in SUBSET S, s # {}
               PROVE  /\ c(s) \in s /\ s \ {c(s)} \in SUBSET S
                      /\ Cardinality(Grid(f, s)) = f[c(s)] + Cardinality(Grid(f, s \ {c(s)}))
    OBVIOUS
  <2>1. PICK x \in s : x = c(s)
    OBVIOUS
  <2> DEFINE r == s \ {x}
  <2>2. r \in SUBSET S /\ x \in D \ r /\ r \cup {x} = s
    OBVIOUS
  <2> HIDE DEF c, r
  <2>3. r \in SUBSET D /\ IsFiniteSet(Grid(f, r)) /\ Cardinality(Grid(f, r)) \in Nat
    BY <2>2, GridFinite
  <2>4. Cardinality(Grid(f, r \cup {x})) = Cardinality(Grid(f, r)) + f[x]
    BY <2>2, <2>3, GridAdd
  <2>5. f[x] \in Nat
    BY <2>2
  <2>6. Cardinality(Grid(f, s)) = Cardinality(Grid(f, r)) + f[x]
    BY <2>2, <2>4, Zenon
  <2>7. Cardinality(Grid(f, s)) = f[x] + Cardinality(Grid(f, r))
    BY <2>3, <2>5, <2>6
  <2> QED BY <2>1, <2>2, <2>7 DEF r
<1>3. size = Body(size)
  <2> HIDE DEF c
  <2>1. \A s \in SUBSET S : size[s] = IF s = {} THEN 0 ELSE f[c(s)] + size[s \ {c(s)}]
    BY <1>2, GridEmpty
  <2> QED BY <2>1
<1>4. iter = Body(iter)
  <2> HIDE DEF Body, size
  <2> QED BY <1>1, <1>3, Zenon
<1>5. \A s \in SUBSET S : iter[s] = IF s = {} THEN 0 ELSE f[c(s)] + iter[s \ {c(s)}]
  <2> DEFINE g(s) == IF s = {} THEN 0 ELSE f[c(s)] + iter[s \ {c(s)}]
  <2>1. iter = [s \in SUBSET S |-> g(s)]
    BY <1>4, Zenon
  <2> HIDE DEF g
  <2>2. \A s \in SUBSET S : iter[s] = g(s)
    BY <2>1
  <2> QED BY <2>2 DEF g
<1> HIDE DEF c
<1> DEFINE B == {s \in SUBSET S : iter[s] # Cardinality(Grid(f, s))}
<1>6. ASSUME B # {} PROVE FALSE
  <2>0. B \subseteq SUBSET S
    OBVIOUS
  <2>1. PICK s \in B : \A u \in B : u \subseteq s => u = s
    <3> HIDE DEF B
    <3> QED BY <1>0, <1>6, <2>0, MinimalSubset
  <2>2. s # {}
    BY <1>5, <2>1, GridEmpty
  <2>3. c(s) \in s /\ s \ {c(s)} \in SUBSET S /\ s \ {c(s)} # s
    BY <1>2, <2>2
  <2>4. s \ {c(s)} \notin B
    BY <2>1, <2>3
  <2>5. iter[s \ {c(s)}] = Cardinality(Grid(f, s \ {c(s)}))
    BY <2>3, <2>4
  <2>6. iter[s] = Cardinality(Grid(f, s))
    BY <1>2, <1>5, <2>2, <2>5
  <2> QED BY <2>6
<1>7. iter[S] = Cardinality(Grid(f, S))
  BY <1>6
<1> QED BY <1>7

\* More columns, more elements.
LEMMA GridMonotone ==
  ASSUME NEW D, IsFiniteSet(D), NEW f \in [D -> Nat], NEW T \in SUBSET D, NEW S \in SUBSET T
  PROVE  Cardinality(Grid(f, S)) <= Cardinality(Grid(f, T))
<1>1. IsFiniteSet(Grid(f, T))
  BY GridFinite
<1>2. Grid(f, S) \in SUBSET Grid(f, T)
  BY DEF Grid
<1> QED BY <1>1, <1>2, FS_Subset

\* No column is larger than the grid: the values of f have a bound.
LEMMA BoundedValues ==
  ASSUME NEW S, IsFiniteSet(S), NEW f \in [S -> Nat]
  PROVE  \E b \in Nat : \A x \in S : f[x] <= b
<1>1. Cardinality(Grid(f, S)) \in Nat
  BY GridFinite
<1>2. ASSUME NEW x \in S PROVE f[x] <= Cardinality(Grid(f, S))
  <2>1. Cardinality(Grid(f, {} \cup {x})) = Cardinality(Grid(f, {})) + f[x]
    BY GridEmpty, GridAdd
  <2>2. Cardinality(Grid(f, {})) = 0 /\ f[x] \in Nat
    BY GridEmpty
  <2>3. {} \cup {x} = {x}
    OBVIOUS
  <2>4. Cardinality(Grid(f, {x})) = Cardinality(Grid(f, {})) + f[x]
    BY <2>1, <2>3, Zenon
  <2>5. Cardinality(Grid(f, {x})) <= Cardinality(Grid(f, S))
    BY GridMonotone
  <2> QED BY <2>2, <2>4, <2>5
<1> QED BY <1>1, <1>2

-----------------------------------------------------------------------------
(* Closures.                                                               *)

\* m adds to a set what follows from it; a closed set lacks nothing.
Adds(S, m) ==
  /\ m \in [SUBSET S -> SUBSET S]
  /\ \A D \in SUBSET S : m[D] \cap D = {}
  /\ \A C, D \in SUBSET S : D \subseteq C => m[D] \subseteq C \cup m[C]

\* g adds to a set what follows from it until nothing is missing.
IsClosure(g, S, m) ==
  g = [D \in SUBSET S |-> IF m[D] = {} THEN D ELSE g[D \cup m[D]]]

\* That is well defined.
LEMMA ClosureExists ==
  ASSUME NEW S, NEW m, Adds(S, m)
  PROVE  \E g : IsClosure(g, S, m)
<1> DEFINE Closed(D) == {C \in SUBSET S : D \subseteq C /\ m[C] = {}}
           least(D) == {x \in S : \A C \in Closed(D) : x \in C}
           g == [D \in SUBSET S |-> least(D)]
<1>1. ASSUME NEW D \in SUBSET S PROVE g[D] = IF m[D] = {} THEN D ELSE g[D \cup m[D]]
  <2>1. CASE m[D] = {}
    <3>1. D \in Closed(D)
      BY <2>1
    <3>2. least(D) = D
      BY <3>1
    <3> QED BY <2>1, <3>2
  <2>2. CASE m[D] # {}
    <3>1. D \cup m[D] \in SUBSET S
      BY DEF Adds
    <3>2. \A C \in Closed(D) : D \cup m[D] \subseteq C
      BY DEF Adds
    <3>3. Closed(D \cup m[D]) = Closed(D)
      BY <3>2
    <3>4. least(D \cup m[D]) = least(D)
      BY <3>3
    <3> QED BY <2>2, <3>1, <3>4
  <2> QED BY <2>1, <2>2
<1>2. g = [D \in SUBSET S |-> IF m[D] = {} THEN D ELSE g[D \cup m[D]]]
  <2>1. g = [D \in SUBSET S |-> g[D]]
    OBVIOUS
  <2> HIDE DEF g
  <2> QED BY <1>1, <2>1
<1> HIDE DEF g
<1> QED BY <1>2 DEF IsClosure

\* And it yields the least closed set.
LEMMA ClosureIsLeast ==
  ASSUME NEW S, IsFiniteSet(S), NEW m, Adds(S, m),
         NEW h, IsClosure(h, S, m),
         NEW R \in SUBSET S
  PROVE  /\ h[R] \in SUBSET S /\ R \subseteq h[R] /\ m[h[R]] = {}
         /\ \A C \in SUBSET S : R \subseteq C /\ m[C] = {} => h[R] \subseteq C
<1> DEFINE Good(D) == /\ h[D] \in SUBSET S /\ D \subseteq h[D] /\ m[h[D]] = {}
                      /\ \A C \in SUBSET S : D \subseteq C /\ m[C] = {} => h[D] \subseteq C
           B == {E \in SUBSET S : ~Good(S \ E)}
<1>1. \A D \in SUBSET S : h[D] = IF m[D] = {} THEN D ELSE h[D \cup m[D]]
  <2> DEFINE body(D) == IF m[D] = {} THEN D ELSE h[D \cup m[D]]
  <2>1. h = [D \in SUBSET S |-> body(D)]
    BY DEF IsClosure
  <2> HIDE DEF body
  <2>2. \A D \in SUBSET S : h[D] = body(D)
    BY <2>1
  <2> QED BY <2>2 DEF body
<1>2. B = {}
  <2> SUFFICES ASSUME B # {} PROVE FALSE
    OBVIOUS
  <2>1. B \subseteq SUBSET S
    OBVIOUS
  <2> HIDE DEF B
  <2>2. PICK E \in B : \A U \in B : U \subseteq E => U = E
    BY <2>1, MinimalSubset
  <2> DEFINE D == S \ E
  <2>3. E \in SUBSET S /\ D \in SUBSET S /\ ~Good(D)
    BY DEF B
  <2> HIDE DEF Good
  <2>4. CASE m[D] = {}
    <3>1. h[D] = D
      BY <1>1, <2>3, <2>4
    <3> QED BY <2>3, <2>4, <3>1 DEF Good
  <2>5. CASE m[D] # {}
    <3> DEFINE A == D \cup m[D]
               U == S \ A
    <3>1. A \in SUBSET S /\ m[D] \cap D = {} /\ m[D] \in SUBSET S
      BY <2>3 DEF Adds
    <3>2. U \in SUBSET S /\ U \subseteq E /\ U # E /\ S \ U = A
      BY <2>3, <2>5, <3>1
    <3>3. U \notin B
      BY <2>2, <3>2
    <3>4. Good(A)
      BY <3>2, <3>3 DEF B
    <3>5. h[D] = h[A]
      BY <1>1, <2>3, <2>5
    <3>6. ASSUME NEW C \in SUBSET S, D \subseteq C, m[C] = {} PROVE A \subseteq C
      BY <2>3, <3>6 DEF Adds
    <3> HIDE DEF A
    <3>7. D \subseteq A
      BY DEF A
    <3>8. Good(D)
      <4>1. h[A] \in SUBSET S /\ A \subseteq h[A] /\ m[h[A]] = {}
        BY <3>4 DEF Good
      <4>2. \A C \in SUBSET S : D \subseteq C /\ m[C] = {} => h[A] \subseteq C
        BY <3>4, <3>6 DEF Good
      <4> HIDE DEF D
      <4>3. h[D] \in SUBSET S /\ D \subseteq h[D] /\ m[h[D]] = {}
        BY <3>5, <3>7, <4>1
      <4> QED BY <3>5, <4>2, <4>3 DEF Good
    <3> QED BY <2>3, <3>8
  <2> QED BY <2>4, <2>5
<1>3. S \ R \in SUBSET S /\ S \ (S \ R) = R
  OBVIOUS
<1> HIDE DEF Good
<1>4. Good(R)
  <2>1. S \ R \notin B
    BY <1>2
  <2> QED BY <1>3, <2>1
<1> QED BY <1>4 DEF Good

-----------------------------------------------------------------------------
(* Recursion over the numbers up to a bound.                               *)

\* f[k] is what the first k of n steps make of a.
Iterates(f, n, a, step) == f[0] = a /\ \A k \in 1..n : f[k] = step[k][f[k - 1]]

\* A bounded recursion has a solution.
LEMMA BoundedRecursion ==
  ASSUME NEW n \in Nat, NEW S, NEW a \in S, NEW step \in [1..n -> [S -> S]]
  PROVE  \E f \in [0..n -> S] : Iterates(f, n, a, step)
<1> DEFINE Good(m) == \E f \in [0..m -> S] : f[0] = a /\ \A k \in 1..m : f[k] = step[k][f[k - 1]]
           B == {m \in Nat : m <= n /\ ~ Good(m)}
<1>1. ASSUME B # {} PROVE FALSE
  <2>1. PICK m \in B : \A y \in B : m <= y
    <3> HIDE DEF B
    <3>1. B \subseteq Nat
      BY DEF B
    <3> QED BY <1>1, <3>1, LeastNumber
  <2>2. m \in Nat /\ m <= n /\ ~ Good(m)
    OBVIOUS
  <2>3. CASE m = 0
    <3> DEFINE f == [k \in 0..0 |-> a]
    <3>1. f \in [0..m -> S] /\ f[0] = a /\ 1..m = {}
      BY <2>3
    <3> HIDE DEF f
    <3> QED BY <2>2, <3>1
  <2>4. CASE m # 0
    <3>1. m - 1 \in Nat /\ m - 1 <= n /\ ~ (m <= m - 1) /\ m \in 1..n
      BY <2>2, <2>4
    <3>2. Good(m - 1)
      BY <2>1, <3>1
    <3>3. PICK f \in [0..(m - 1) -> S] : f[0] = a /\ \A k \in 1..(m - 1) : f[k] = step[k][f[k - 1]]
      BY <3>2
    <3> DEFINE g == [k \in 0..m |-> IF k = m THEN step[m][f[m - 1]] ELSE f[k]]
    <3>4. step[m] \in [S -> S] /\ f[m - 1] \in S
      BY <3>1
    <3>5. step[m][f[m - 1]] \in S
      BY <3>4
    <3>6. g \in [0..m -> S] /\ g[0] = a
      BY <3>1, <3>3, <3>5, <2>4, <2>2
    <3>7. ASSUME NEW k \in 1..m PROVE g[k] = step[k][g[k - 1]]
      <4>1. k \in 0..m /\ k - 1 \in 0..m /\ k - 1 # m
        BY <2>2
      <4>2. g[k - 1] = f[k - 1]
        BY <4>1
      <4>3. CASE k = m
        BY <4>1, <4>2, <4>3
      <4>4. CASE k # m
        <5>1. k \in 1..(m - 1)
          BY <4>4, <2>2
        <5>2. g[k] = f[k]
          BY <4>1, <4>4
        <5>3. f[k] = step[k][f[k - 1]]
          BY <3>3, <5>1
        <5> HIDE DEF g
        <5> QED BY <4>2, <5>2, <5>3, Zenon
      <4> QED BY <4>3, <4>4
    <3> HIDE DEF g
    <3>8. Good(m)
      BY <3>6, <3>7
    <3> QED BY <2>2, <3>8
  <2> QED BY <2>3, <2>4
<1>2. n \notin B
  BY <1>1
<1>3. Good(n)
  BY <1>2
<1> QED BY <1>3 DEF Iterates
=============================================================================
