---------------------- MODULE RetroactivePruningProofs ----------------------
(***************************************************************************)
(* Proofs about RetroactivePruning, for every domain and number of layers: *)
(* that the unit clauses forbid exactly what has been taken out, and that  *)
(* every variable stays in its domain.  Both need to know which positions  *)
(* are filled already.  Before them, lemmas about the positions: where the *)
(* children of an operation lie, and that the two ways the code computes   *)
(* it agree, the search for the old position on the way up and the range   *)
(* of successor positions on the way down.                                 *)
(***************************************************************************)
EXTENDS RetroactivePruning, FiniteLemmas

-----------------------------------------------------------------------------
(* Positions.                                                              *)


\* The sizes of a layer's positions.
Row(l) == \E k \in Nat : sizes[l] \in [0..k -> Nat \ {0}]

\* Successor positions are running sums, as consolidate computes them.
LEMMA SuccessorIsGrid ==
  ASSUME NEW l, Row(l), NEW p \in Nat
  PROVE  SuccessorPos(l, p) = Cardinality(Grid(sizes[l], {q \in DOMAIN sizes[l] : q < p}))
<1> DEFINE S == {q \in DOMAIN sizes[l] : q < p}
<1>1. PICK k \in Nat : sizes[l] \in [0..k -> Nat \ {0}]
  BY DEF Row
<1>2. sizes[l] \in [0..k -> Nat] /\ S \in SUBSET (0..k)
  BY <1>1
<1>3. IsFiniteSet(0..k)
  BY FS_Interval
<1>4. PICK iter : /\ SuccessorPos(l, p) = iter[S]
                  /\ iter = CHOOSE g :
                       g = [s \in SUBSET S |->
                              IF s = {} THEN 0
                              ELSE sizes[l][CHOOSE x \in s : TRUE] + g[s \ {CHOOSE x \in s : TRUE}]]
  BY Zenon DEF SuccessorPos, MapThenSumSet, MapThenFoldSet
<1> HIDE DEF S
<1>5. iter[S] = Cardinality(Grid(sizes[l], S))
  BY <1>2, <1>3, <1>4, SumIsGrid, Zenon
<1> QED BY <1>4, <1>5, Zenon DEF S

\* Successor positions are natural numbers.
LEMMA SuccessorType ==
  ASSUME NEW l, Row(l), NEW p \in Nat
  PROVE  SuccessorPos(l, p) \in Nat
<1> DEFINE S == {q \in DOMAIN sizes[l] : q < p}
<1>1. PICK k \in Nat : sizes[l] \in [0..k -> Nat \ {0}]
  BY DEF Row
<1>2. sizes[l] \in [0..k -> Nat] /\ S \in SUBSET (0..k)
  BY <1>1
<1>3. IsFiniteSet(0..k)
  BY FS_Interval
<1> HIDE DEF S
<1>4. Cardinality(Grid(sizes[l], S)) \in Nat
  BY <1>2, <1>3, GridFinite
<1> QED BY <1>4, SuccessorIsGrid DEF S

\* The first position has its children at the beginning of the next layer.
LEMMA SuccessorOfFirst ==
  ASSUME NEW l, Row(l)
  PROVE  SuccessorPos(l, 0) = 0
<1>1. PICK k \in Nat : sizes[l] \in [0..k -> Nat \ {0}]
  BY DEF Row
<1>2. {q \in DOMAIN sizes[l] : q < 0} = {}
  BY <1>1
<1>3. SuccessorPos(l, 0) = Cardinality(Grid(sizes[l], {}))
  BY <1>2, SuccessorIsGrid, Zenon
<1> QED BY <1>3, GridEmpty

\* Each position's children follow those of the position before it.
LEMMA SuccessorOfNext ==
  ASSUME NEW l, Row(l), NEW p \in DOMAIN sizes[l]
  PROVE  /\ p \in Nat /\ sizes[l][p] \in Nat \ {0}
         /\ SuccessorPos(l, p+1) = SuccessorPos(l, p) + sizes[l][p]
<1> DEFINE S == {q \in DOMAIN sizes[l] : q < p}
<1>1. PICK k \in Nat : sizes[l] \in [0..k -> Nat \ {0}]
  BY DEF Row
<1>2. /\ sizes[l] \in [0..k -> Nat] /\ S \in SUBSET (0..k) /\ p \in (0..k) \ S
      /\ p \in Nat /\ p + 1 \in Nat /\ sizes[l][p] \in Nat \ {0}
  BY <1>1
<1>3. {q \in DOMAIN sizes[l] : q < p+1} = S \cup {p}
  BY <1>1, <1>2
<1>4. IsFiniteSet(0..k)
  BY FS_Interval
<1>5. SuccessorPos(l, p+1) = Cardinality(Grid(sizes[l], S \cup {p}))
  BY <1>2, <1>3, SuccessorIsGrid, Zenon
<1>6. SuccessorPos(l, p) = Cardinality(Grid(sizes[l], S))
  BY <1>2, SuccessorIsGrid
<1> HIDE DEF S
<1>7. IsFiniteSet(Grid(sizes[l], S))
  BY <1>2, <1>4, GridFinite
<1>8. Cardinality(Grid(sizes[l], S \cup {p})) = Cardinality(Grid(sizes[l], S)) + sizes[l][p]
  BY <1>2, <1>7, GridAdd
<1> QED BY <1>2, <1>5, <1>6, <1>8

\* Successor positions do not decrease.
LEMMA SuccessorMonotone ==
  ASSUME NEW l, Row(l), NEW p \in Nat, NEW q \in Nat, p <= q
  PROVE  SuccessorPos(l, p) <= SuccessorPos(l, q)
<1> DEFINE S(n) == {r \in DOMAIN sizes[l] : r < n}
<1>1. PICK k \in Nat : sizes[l] \in [0..k -> Nat \ {0}]
  BY DEF Row
<1>2. sizes[l] \in [0..k -> Nat] /\ S(q) \in SUBSET (0..k) /\ S(p) \in SUBSET S(q)
  BY <1>1
<1>3. IsFiniteSet(0..k)
  BY FS_Interval
<1>4. /\ SuccessorPos(l, p) = Cardinality(Grid(sizes[l], S(p)))
      /\ SuccessorPos(l, q) = Cardinality(Grid(sizes[l], S(q)))
  BY SuccessorIsGrid
<1> HIDE DEF S
<1>5. Cardinality(Grid(sizes[l], S(p))) <= Cardinality(Grid(sizes[l], S(q)))
  BY <1>2, <1>3, GridMonotone
<1> QED BY <1>4, <1>5

\* The last position of a layer.
LEMMA LastOfRow ==
  ASSUME NEW l, Row(l)
  PROVE  Last(l) \in Nat /\ DOMAIN sizes[l] = 0..Last(l)
<1>1. PICK k \in Nat : sizes[l] \in [0..k -> Nat \ {0}]
  BY DEF Row
<1>2. DOMAIN sizes[l] = 0..k /\ k \in 0..k /\ 0..k \subseteq Nat /\ \A t \in 0..k : t <= k
  BY <1>1
<1>3. Max(0..k) \in 0..k /\ \A y \in 0..k : y <= Max(0..k)
  <2> DEFINE T == 0..k
  <2>1. T \subseteq Nat /\ T # {} /\ \A t \in T : t <= k
    BY <1>2
  <2> HIDE DEF T
  <2>2. Max(T) \in T /\ \A y \in T : y <= Max(T)
    BY <2>1, GreatestNumber
  <2> QED BY <2>2 DEF T
<1>4. Max(0..k) = k
  BY <1>2, <1>3
<1>5. Last(l) = Max(0..k)
  BY <1>2, Zenon DEF Last
<1> QED BY <1>2, <1>4, <1>5

-----------------------------------------------------------------------------
(* Old positions.                                                          *)

\* The search for the old position ends at the last one that starts in time.
LEMMA OldPosFacts ==
  ASSUME NEW l \in Nat, Row(l), NEW p \in Nat
  PROVE  /\ OldPos(l+1, p) \in DOMAIN sizes[l]
         /\ SuccessorPos(l, OldPos(l+1, p)) <= p
         /\ \A r \in DOMAIN sizes[l] : SuccessorPos(l, r) <= p => r <= OldPos(l+1, p)
<1> DEFINE T == {q \in DOMAIN sizes[l] : SuccessorPos(l, q) <= p}
<1>1. Last(l) \in Nat /\ DOMAIN sizes[l] = 0..Last(l)
  BY LastOfRow
<1>2. 0 \in T
  BY <1>1, SuccessorOfFirst
<1>3. T \subseteq Nat /\ \A t \in T : t <= Last(l)
  BY <1>1
<1>4. OldPos(l+1, p) = Max(T)
  <2>1. (l+1)-1 = l
    OBVIOUS
  <2> QED BY <2>1, Zenon DEF OldPos
<1>5. Max(T) \in T /\ \A y \in T : y <= Max(T)
  <2> HIDE DEF T
  <2> QED BY <1>1, <1>2, <1>3, GreatestNumber
<1> QED BY <1>4, <1>5

\* It is the one whose successors reach beyond p.
LEMMA OldPosIs ==
  ASSUME NEW l \in Nat, Row(l), NEW p \in Nat, NEW q \in DOMAIN sizes[l],
         SuccessorPos(l, q) <= p, q = Last(l) \/ p < SuccessorPos(l, q+1)
  PROVE  OldPos(l+1, p) = q
<1> DEFINE o == OldPos(l+1, p)
<1>1. Last(l) \in Nat /\ DOMAIN sizes[l] = 0..Last(l)
  BY LastOfRow
<1>2. o \in DOMAIN sizes[l] /\ SuccessorPos(l, o) <= p /\ q <= o
  BY OldPosFacts
<1> HIDE DEF o
<1>3. CASE q = Last(l)
  BY <1>1, <1>2, <1>3 DEF o
<1>4. CASE q # Last(l) /\ q < o
  <2>1. q + 1 \in Nat /\ o \in Nat /\ q + 1 <= o
    BY <1>1, <1>2, <1>4
  <2>2. SuccessorPos(l, q+1) <= SuccessorPos(l, o)
    BY <2>1, SuccessorMonotone
  <2>3. SuccessorPos(l, q+1) \in Nat /\ SuccessorPos(l, o) \in Nat
    BY <2>1, SuccessorType
  <2> QED BY <1>2, <1>4, <2>2, <2>3
<1>5. q \in Nat /\ o \in Nat
  BY <1>1, <1>2
<1> QED BY <1>2, <1>3, <1>4, <1>5 DEF o

\* Where p lies within the successors of its old position.
LEMMA OldPosRange ==
  ASSUME NEW l \in Nat, Row(l), NEW p \in Nat, p <= SuccessorPos(l, Last(l))
  PROVE  LET q == OldPos(l+1, p)
         IN IF q = Last(l) THEN p = SuccessorPos(l, q) ELSE p \in Below(l, q)
<1> DEFINE q == OldPos(l+1, p)
<1>1. Last(l) \in Nat /\ DOMAIN sizes[l] = 0..Last(l)
  BY LastOfRow
<1>2. /\ q \in DOMAIN sizes[l] /\ SuccessorPos(l, q) <= p
      /\ \A r \in DOMAIN sizes[l] : SuccessorPos(l, r) <= p => r <= q
  BY OldPosFacts
<1> HIDE DEF q
<1>0. q \in Nat /\ q+1 \in Nat
  BY <1>1, <1>2
<1>3. q \in Nat /\ q+1 \in Nat /\ SuccessorPos(l, q) \in Nat /\ SuccessorPos(l, q+1) \in Nat
  BY <1>0, SuccessorType
<1>4. CASE q = Last(l)
  BY <1>2, <1>3, <1>4 DEF q
<1>5. CASE q # Last(l)
  <2>1. q+1 \in DOMAIN sizes[l]
    BY <1>1, <1>2, <1>5
  <2>2. ~ (SuccessorPos(l, q+1) <= p)
    BY <1>2, <1>3, <2>1
  <2>3. p \in Below(l, q)
    BY <1>2, <1>3, <2>2 DEF Below
  <2> QED BY <1>5, <2>3 DEF q
<1> QED BY <1>4, <1>5

\* On its way down prune visits only positions below the operation and,
\* except under the last position of a layer, all of them.
LEMMA VisitedExact ==
  ASSUME NEW n, n.layer \in Nat, n.layer < layer, layer \in Nat,
         Row(n.layer), n.pos \in DOMAIN sizes[n.layer], NEW P \in Visited(n)
  PROVE  /\ \A p \in P : p \in Nat /\ OldPos(n.layer+1, p) = n.pos
         /\ n.pos # Last(n.layer) =>
              \A p \in Nat : p <= SuccessorPos(n.layer, Last(n.layer))
                             /\ OldPos(n.layer+1, p) = n.pos => p \in P
<1> DEFINE l == n.layer  q == n.pos
<1>1. Last(l) \in Nat /\ DOMAIN sizes[l] = 0..Last(l)
  BY LastOfRow
<1>0. q \in Nat /\ q + 1 \in Nat
  BY <1>1
<1>2. q \in Nat /\ SuccessorPos(l, q) \in Nat /\ SuccessorPos(l, q+1) \in Nat
  BY <1>0, SuccessorType
<1>3. CASE q = Last(l)
  <2>1. P = {} \/ P = {SuccessorPos(l, q)}
    BY <1>3 DEF Visited
  <2>2. \A p \in P : p \in Nat /\ SuccessorPos(l, q) <= p
    BY <1>2, <2>1
  <2> QED BY <1>3, <2>2, OldPosIs
<1>4. CASE q # Last(l)
  <2>1. P = Below(l, q)
    BY <1>4 DEF Visited
  <2>2. \A p \in P : p \in Nat /\ SuccessorPos(l, q) <= p /\ p < SuccessorPos(l, q+1)
    BY <1>2, <2>1 DEF Below
  <2>3. \A p \in P : OldPos(l+1, p) = q
    BY <2>2, OldPosIs
  <2>4. \A p \in Nat : p <= SuccessorPos(l, Last(l)) /\ OldPos(l+1, p) = q => p \in P
    BY <1>4, <2>1, OldPosRange
  <2> QED BY <2>2, <2>3, <2>4
<1> QED BY <1>3, <1>4

-----------------------------------------------------------------------------
(* What stays when other layers change.                                    *)

\* SuccessorPos as a function of the sizes of the layer.
Start(row, p) ==
  (CHOOSE g :
     g = [s \in SUBSET {q \in DOMAIN row : q < p} |->
            IF s = {} THEN 0
            ELSE row[CHOOSE x \in s : TRUE] + g[s \ {CHOOSE x \in s : TRUE}]])
  [{q \in DOMAIN row : q < p}]

\* Positions depend on the sizes of the layer above only.
LEMMA StablePositions ==
  ASSUME NEW l \in Nat, sizes'[l] = sizes[l]
  PROVE  /\ \A p : SuccessorPos(l, p)' = SuccessorPos(l, p)
         /\ \A p : OldPos(l+1, p)' = OldPos(l+1, p)
         /\ Last(l)' = Last(l)
         /\ Row(l)' <=> Row(l)
<1>1. \A p : SuccessorPos(l, p) = Start(sizes[l], p)
  BY Zenon DEF SuccessorPos, MapThenSumSet, MapThenFoldSet, Start
<1>2. \A p : SuccessorPos(l, p)' = Start(sizes'[l], p)
  BY Zenon DEF SuccessorPos, MapThenSumSet, MapThenFoldSet, Start
<1>3. \A p : SuccessorPos(l, p)' = SuccessorPos(l, p)
  BY <1>1, <1>2, Zenon
<1>4. ASSUME NEW p PROVE OldPos(l+1, p)' = OldPos(l+1, p)
  <2>1. (l+1)-1 = l
    OBVIOUS
  <2>2. OldPos(l+1, p) = Max({q \in DOMAIN sizes[l] : SuccessorPos(l, q) <= p})
    BY <2>1, Zenon DEF OldPos
  <2>3. OldPos(l+1, p)' = Max({q \in DOMAIN sizes'[l] : SuccessorPos(l, q)' <= p})
    BY <2>1, Zenon DEF OldPos
  <2>4. {q \in DOMAIN sizes'[l] : SuccessorPos(l, q)' <= p}
          = {q \in DOMAIN sizes[l] : SuccessorPos(l, q) <= p}
    BY <1>3
  <2> QED BY <2>2, <2>3, <2>4, Zenon
<1>5. Last(l)' = Last(l)
  BY Zenon DEF Last
<1>6. Row(l)' <=> Row(l)
  BY DEF Row
<1> QED BY <1>3, <1>4, <1>5, <1>6

-----------------------------------------------------------------------------
(* What the assumption says of the domain.                                 *)

\* The parts of DomainsAssumption, for the domain of the run.
LEMMA DomainFacts ==
  ASSUME domain \in Domains
  PROVE  /\ LayerBound \in Nat
         /\ IsFiniteSet(Names) /\ Reductions \cap Actions = {}
         /\ Blank \in Actions /\ Goal \in Actions
         /\ domain.init \subseteq Reductions
         /\ \A r \in Reductions : /\ domain.subtasks[r] \in Seq(DOMAIN domain.fits)
                                   /\ Len(domain.subtasks[r]) \in Nat
         /\ \A t \in DOMAIN domain.fits : domain.fits[t] \subseteq Names
         /\ \A a \in Actions : domain.repeat[a] \in Actions
<1>1. /\ LayerBound \in Nat
      /\ IsFiniteSet(Names) /\ Reductions \cap Actions = {}
      /\ {Blank, Goal} \subseteq Actions
      /\ domain.init \subseteq Reductions
      /\ \A r \in Reductions : domain.subtasks[r] \in Seq(DOMAIN domain.fits)
      /\ \A t \in DOMAIN domain.fits : domain.fits[t] \subseteq Names \ {Goal}
      /\ \A a \in Actions : domain.repeat[a] \in Actions
  BY DomainsAssumption, Zenon DEF Names, Reductions, Actions
<1>2. \A r \in Reductions : Len(domain.subtasks[r]) \in Nat
  BY <1>1
<1> QED BY <1>1, <1>2

\* The children an operation gets are operations.
LEMMA ChildNamesTyped ==
  ASSUME domain \in Domains, NEW name \in Names, NEW offset \in Nat, NEW applicable
  PROVE  ChildNames(name, offset, applicable) \subseteq Names
<1>1. CASE name \in Reductions /\ offset < Len(domain.subtasks[name])
  <2>1. offset + 1 \in DOMAIN domain.subtasks[name]
    BY <1>1, DomainFacts
  <2>2. domain.subtasks[name][offset+1] \in DOMAIN domain.fits
    BY <1>1, <2>1, DomainFacts
  <2>3. domain.fits[domain.subtasks[name][offset+1]] \subseteq Names
    BY <2>2, DomainFacts
  <2> QED BY <1>1, <2>3 DEF ChildNames
<1>2. CASE name \in Reductions /\ ~ (offset < Len(domain.subtasks[name]))
  BY <1>2, DomainFacts DEF ChildNames, Names
<1>3. CASE name \notin Reductions
  <2>1. name \in Actions
    BY <1>3 DEF Names
  <2>2. domain.repeat[name] \in Names /\ Blank \in Names
    BY <2>1, DomainFacts DEF Names
  <2> QED BY <1>3, <2>2 DEF ChildNames
<1> QED BY <1>1, <1>2, <1>3

\* The largest number of subtasks at a position, but at least one.
LEMMA ExpansionSizeTyped ==
  ASSUME domain \in Domains, NEW names
  PROVE  ExpansionSize(names) \in Nat \ {0}
<1> DEFINE R == names \cap Reductions
           f == [r \in R |-> Len(domain.subtasks[r])]
           T == {1} \cup {Len(domain.subtasks[r]) : r \in R}
<1>1. IsFiniteSet(R)
  <2>1. R \in SUBSET Names
    BY DEF Names
  <2> QED BY <2>1, DomainFacts, FS_Subset
<1>2. f \in [R -> Nat]
  BY DomainFacts
<1>3. PICK b \in Nat : \A r \in R : f[r] <= b
  <2> HIDE DEF f, R
  <2> QED BY <1>1, <1>2, BoundedValues
<1>4. T \subseteq Nat /\ 1 \in T /\ b + 1 \in Nat /\ \A t \in T : t <= b + 1
  <2>1. \A r \in R : Len(domain.subtasks[r]) \in Nat /\ Len(domain.subtasks[r]) <= b
    BY <1>3, DomainFacts
  <2> QED BY <2>1
<1>5. Max(T) \in T /\ \A y \in T : y <= Max(T)
  <2> HIDE DEF T
  <2> QED BY <1>4, GreatestNumber
<1>6. ExpansionSize(names) = Max(T)
  BY Zenon DEF ExpansionSize
<1>7. Max(T) \in Nat /\ 1 <= Max(T)
  <2> HIDE DEF T
  <2> QED BY <1>4, <1>5
<1> QED BY <1>6, <1>7

-----------------------------------------------------------------------------
(* The unit clauses.                                                       *)

\* Only complete layers have variables.
EncodedIsComplete ==
  \A n \in opVars : /\ n.layer \in Nat
                     /\ \/ n.layer < layer
                        \/ n.layer = layer /\ phase = "layer"

IInv == layer \in Nat /\ EncodedIsComplete /\ UnitsExact

\* Whatever is created at the current position lies in the current layer.
LEMMA HereLayer == \A names : \A n \in Here(names) : n.layer = layer
  BY DEF Here, Node

\* The invariant holds initially: the first layer is encoded as it is created.
LEMMA InitInvariant == Init => IInv
<1> SUFFICES ASSUME Init PROVE IInv
  OBVIOUS
<1>1. layer = 0 /\ phase = "layer" /\ opVars = ops /\ units = {}
  BY DEF Init
<1>2. \A n \in ops : n.layer = 0
  BY DEF Init, Node
<1> QED
  BY <1>1, <1>2 DEF IInv, EncodedIsComplete, UnitsExact

\* What Propagate adds and Dominate replaces lies in the layer under
\* construction; prune forbids each encoded operation it removes.
LEMMA NextInvariant == IInv /\ [Next]_vars => IInv'
<1> SUFFICES ASSUME IInv, [Next]_vars PROVE IInv'
  OBVIOUS
<1> USE DEF IInv, EncodedIsComplete, UnitsExact
<1>1. CASE PruneLeft
  BY <1>1 DEF PruneLeft, structure, formula
<1>2. CASE PruneAbove
  BY <1>2 DEF PruneAbove, structure, formula
<1>3. CASE Propagate
  <2>1. phase = "reductions" /\ layer' = layer /\ opVars' = opVars /\ units' = units
    BY <1>3 DEF Propagate, formula
  <2>2. PICK names : ops' = ops \cup Here(names)
    BY <1>3, Zenon DEF Propagate
  <2>3. \A n \in opVars : n.layer < layer
    BY <2>1
  <2>4. Here(names) \cap opVars = {}
    BY <2>3, HereLayer
  <2> QED
    BY <2>1, <2>2, <2>3, <2>4
<1>4. CASE Dominate
  <2>1. phase = "dominate" /\ layer' = layer /\ opVars' = opVars /\ units' = units
    BY <1>4 DEF Dominate, formula
  <2>2. PICK names : ops' = ops \ Here(names)
    BY <1>4, Zenon DEF Dominate
  <2>3. \A n \in opVars : n.layer < layer
    BY <2>1
  <2>4. Here(names) \cap opVars = {}
    BY <2>3, HereLayer
  <2> QED
    BY <2>1, <2>2, <2>3, <2>4
<1>5. CASE Encode
  BY <1>5 DEF Encode, structure
<1>6. CASE NextLayer
  BY <1>6 DEF NextLayer, formula
<1>7. CASE StartPrune
  BY <1>7 DEF StartPrune, place, structure, formula
<1>8. CASE PruneUp
  BY <1>8 DEF PruneUp, place, structure, formula
<1>9. CASE RootsFound
  BY <1>9 DEF RootsFound, place, structure, formula
<1>10. CASE PruneDown
  <2>1. layer' = layer /\ phase' = phase /\ opVars' = opVars
    BY <1>10 DEF PruneDown, place
  <2>2. PICK n : ops' = ops \ {n} /\ units' = units \cup ({n} \cap opVars)
    BY <1>10, Zenon DEF PruneDown, RemoveOccurrence, Forbid
  <2> QED
    BY <2>1, <2>2
<1>11. CASE Return
  BY <1>11 DEF Return, place, structure, formula
<1>12. CASE UNCHANGED vars
  BY <1>12 DEF vars, place, structure, formula
<1> QED
  BY <1>1, <1>2, <1>3, <1>4, <1>5, <1>6, <1>7, <1>8, <1>9, <1>10, <1>11, <1>12
  DEF Next, Step, CreateNextPosition, Prune, Finished

\* The clauses written so far forbid exactly the encoded operations that are
\* no longer in the hierarchy, in every state, while prune runs too.
THEOREM ForbiddenExactly == Spec => []UnitsExact
<1>1. IInv => UnitsExact
  BY DEF IInv
<1> QED
  BY <1>1, InitInvariant, NextInvariant, PTL DEF Spec

-----------------------------------------------------------------------------
(* The invariant of the hierarchy.                                         *)

\* Every complete position has room for its children in the next layer.
Hierarchy ==
  /\ domain \in Domains
  /\ layer \in 0 .. LayerBound
  /\ DOMAIN sizes = 0 .. layer
  /\ \A l \in 0 .. layer : Row(l)
  /\ \A l \in 0 .. layer-1 : DOMAIN sizes[l+1] = 0 .. SuccessorPos(l, Last(l))
  /\ pos \in DOMAIN sizes[layer]
  /\ phase \in Phases
  /\ phase \in {"left", "actions", "reductions", "dominate"} => layer > 0

\* The operations there can be.
Nodes == {n \in [layer : 0 .. layer, pos : Nat, op : Names] :
            n.pos \in DOMAIN sizes[n.layer]}

\* The operation that an entry of _expansions or _predecessors, a parent's
\* name and a child, refers to.
Parent(e) == Node(e[2].layer - 1, OldPos(e[2].layer, e[2].pos), e[1])

Links == {e \in Names \X known : e[2].layer > 0 /\ Parent(e) \in known}

Elements ==
  /\ known \subseteq Nodes
  /\ ops \subseteq known /\ opVars \subseteq known
  /\ todo \subseteq known /\ open \subseteq known /\ remove \subseteq known
  /\ pruned \subseteq known /\ skipped \subseteq known
  /\ exp \subseteq Links /\ pred \subseteq Links /\ made \subseteq Links
  /\ taken \subseteq known \X known
  /\ beyond \in BOOLEAN
  /\ pruning \in {"no", "up", "down"}
  /\ pruning = "no" => open = {} /\ remove = {}
  /\ pruning = "down" => open = {}
  /\ pruning # "no" => op \in known

\* The operations that prune still has to do with, or had.
Touched == todo \cup open \cup pruned \cup skipped
             \cup {t[1] : t \in taken} \cup {t[2] : t \in taken}

\* The position under construction is empty until it is filled, and what has
\* just been put there is not pruned before it may be replaced.
Fresh ==
  /\ \A n \in known : n.layer = layer =>
       /\ n.pos <= pos
       /\ phase \in {"left", "actions", "reductions"} => n.pos < pos
  /\ phase = "dominate" => \A n \in Touched : ~(n.layer = layer /\ n.pos = pos)

Shape == Hierarchy /\ Elements /\ Fresh

-----------------------------------------------------------------------------
(* What does not change with the hierarchy.                                *)

\* While the sizes stay, so do all positions and the parents of links.
LEMMA SamePositions ==
  ASSUME sizes' = sizes
  PROVE  /\ \A l, p : SuccessorPos(l, p)' = SuccessorPos(l, p)
         /\ \A l, p : OldPos(l, p)' = OldPos(l, p)
         /\ \A l : Last(l)' = Last(l)
         /\ \A e : Parent(e)' = Parent(e)
         /\ \A l : Row(l)' <=> Row(l)
<1>1. \A l, p : SuccessorPos(l, p) = Start(sizes[l], p)
  BY Zenon DEF SuccessorPos, MapThenSumSet, MapThenFoldSet, Start
<1>2. \A l, p : SuccessorPos(l, p)' = Start(sizes'[l], p)
  BY Zenon DEF SuccessorPos, MapThenSumSet, MapThenFoldSet, Start
<1>3. \A l, p : SuccessorPos(l, p)' = SuccessorPos(l, p)
  BY <1>1, <1>2, Zenon
<1>4. ASSUME NEW l, NEW p PROVE OldPos(l, p)' = OldPos(l, p)
  <2>1. OldPos(l, p)' = Max({q \in DOMAIN sizes'[l-1] : SuccessorPos(l-1, q)' <= p})
    BY Zenon DEF OldPos
  <2>2. {q \in DOMAIN sizes'[l-1] : SuccessorPos(l-1, q)' <= p}
          = {q \in DOMAIN sizes[l-1] : SuccessorPos(l-1, q) <= p}
    BY <1>3
  <2> QED BY <2>1, <2>2, Zenon DEF OldPos
<1>5. \A l : Last(l)' = Last(l)
  BY Zenon DEF Last
<1>6. \A e : Parent(e)' = Parent(e)
  BY <1>4, Zenon DEF Parent
<1>7. \A l : Row(l)' <=> Row(l)
  BY DEF Row
<1> QED BY <1>3, <1>4, <1>5, <1>6, <1>7

\* A step that leaves the layers alone keeps the hierarchy in order.
LEMMA SameHierarchy ==
  ASSUME Hierarchy, domain' = domain, layer' = layer, sizes' = sizes,
         pos' \in DOMAIN sizes[layer], phase' \in Phases,
         phase' \in {"left", "actions", "reductions", "dominate"} => layer > 0
  PROVE  Hierarchy'
BY SamePositions DEF Hierarchy

\* A step that leaves the layers alone leaves the possible operations.
LEMMA SameNodes ==
  ASSUME domain' = domain, layer' = layer, sizes' = sizes
  PROVE  Nodes' = Nodes
BY DEF Nodes, Names, Reductions, Actions

\* Links stay links while the operations they connect are there.
LEMMA SameLinks ==
  ASSUME domain' = domain, sizes' = sizes,
         NEW K, K \subseteq known', NEW e \in Links, e[2] \in K, Parent(e) \in K
  PROVE  e \in Links'
<1>1. Parent(e)' = Parent(e)
  BY SamePositions
<1>2. Names' = Names
  BY DEF Names, Reductions, Actions
<1>3. e \in Names \X known /\ e[2].layer > 0
  BY DEF Links
<1>4. e \in Names' \X known'
  BY <1>2, <1>3
<1>5. Parent(e)' \in known'
  BY <1>1
<1> QED BY <1>3, <1>4, <1>5, Zenon DEF Links

\* If no operation comes or goes, the links there can be are the same.
LEMMA SameKnown ==
  ASSUME domain' = domain, sizes' = sizes, known' = known
  PROVE  Links' = Links
<1>1. \A e : Parent(e)' = Parent(e)
  BY SamePositions
<1>2. Names' = Names
  BY DEF Names, Reductions, Actions
<1> QED BY <1>1, <1>2, Zenon DEF Links

-----------------------------------------------------------------------------
(* Parents and children.                                                   *)

\* _predecessors lists the parents, each by its link.
LEMMA ParentsAre ==
  ASSUME NEW n
  PROVE  /\ \A e \in pred : e[2] = n => Parent(e) \in Parents(n)
         /\ \A m \in Parents(n) : \E e \in pred : e[2] = n /\ m = Parent(e)
BY Zenon DEF Parents, Parent

\* _expansions lists the children, each by its link.
LEMMA ChildrenAre ==
  ASSUME NEW n, NEW P
  PROVE  /\ \A e \in exp : e[1] = n.op /\ e[2].layer = n.layer + 1 /\ e[2].pos \in P
                           => e[2] \in Children(n, P)
         /\ \A c \in Children(n, P) :
              /\ c.layer = n.layer + 1 /\ c.pos \in P
              /\ \E e \in exp : e[1] = n.op /\ e[2] = c
BY DEF Children

\* Parents are operations of the hierarchy.
LEMMA ParentsKnown ==
  ASSUME Elements, NEW n
  PROVE  Parents(n) \subseteq known
BY ParentsAre DEF Elements, Links

\* Children are operations of the hierarchy.
LEMMA ChildrenKnown ==
  ASSUME Elements, NEW n, NEW P
  PROVE  Children(n, P) \subseteq known
BY ChildrenAre DEF Elements, Links

-----------------------------------------------------------------------------
\* The first layer has two positions, the last one for the goal.
LEMMA InitShape == Init => Shape
<1> SUFFICES ASSUME Init PROVE Shape
  OBVIOUS
<1>1. PICK init \in SUBSET domain.init :
        /\ ops = {Node(0, 0, r) : r \in init} \cup {Node(0, 1, Goal)}
        /\ sizes = [l \in {0} |-> [p \in {0, 1} |->
                     IF p = 0 THEN ExpansionSize(init) ELSE 1]]
  BY Zenon DEF Init
<1>2. /\ domain \in Domains /\ layer = 0 /\ pos = 1 /\ phase = "layer"
      /\ known = ops /\ opVars = ops
  BY DEF Init
<1>3. LayerBound \in Nat /\ domain.init \subseteq Names /\ Goal \in Names
  BY <1>2, DomainFacts DEF Names
<1>4. ExpansionSize(init) \in Nat \ {0}
  BY <1>2, ExpansionSizeTyped
<1>5. DOMAIN sizes = 0..0 /\ DOMAIN sizes[0] = 0..1 /\ sizes[0] \in [0..1 -> Nat \ {0}]
  BY <1>1, <1>4
<1>6. Row(0)
  BY <1>5 DEF Row
<1>7. Hierarchy
  BY <1>2, <1>3, <1>5, <1>6 DEF Hierarchy, Phases
<1>8. known \subseteq Nodes
  BY <1>1, <1>2, <1>3, <1>5 DEF Nodes, Node
<1>9. Elements
  BY <1>2, <1>8 DEF Elements, Init
<1>10. Fresh
  BY <1>1, <1>2 DEF Fresh, Node
<1> QED BY <1>7, <1>9, <1>10 DEF Shape

\* The operations to prune are taken from the position on the left.
LEMMA PruneLeftShape == Shape /\ PruneLeft => Shape'
<1> SUFFICES ASSUME Shape, PruneLeft PROVE Shape'
  OBVIOUS
<1>1. /\ phase = "left" /\ phase' = "actions" /\ pruning = "no"
      /\ UNCHANGED <<domain, layer, pos, sizes, ops, exp, pred, opVars, units, pruning,
                     open, remove, taken, op, made, known, pruned, skipped, beyond>>
  BY DEF PruneLeft, Quiet, structure, formula, worklists, history
<1>2. todo' \subseteq ops
  BY DEF PruneLeft, Quiet, At
<1>3. Hierarchy'
  BY <1>1, SameHierarchy DEF Shape, Hierarchy, Phases
<1>4. Nodes' = Nodes /\ Links' = Links
  BY <1>1, SameNodes, SameKnown
<1>5. Elements'
  BY <1>1, <1>2, <1>4 DEF Shape, Elements
<1>6. Fresh'
  BY <1>1 DEF Shape, Fresh
<1> QED BY <1>3, <1>5, <1>6 DEF Shape

\* The operations to prune are taken from the position above.
LEMMA PruneAboveShape == Shape /\ PruneAbove => Shape'
<1> SUFFICES ASSUME Shape, PruneAbove PROVE Shape'
  OBVIOUS
<1>1. /\ phase = "actions" /\ phase' = "reductions" /\ pruning = "no"
      /\ UNCHANGED <<domain, layer, pos, sizes, ops, exp, pred, opVars, units, pruning,
                     open, remove, taken, op, made, known, pruned, skipped, beyond>>
  BY DEF PruneAbove, Quiet, structure, formula, worklists, history
<1>2. todo' \subseteq ops
  BY DEF PruneAbove, Above, At
<1>3. Hierarchy'
  BY <1>1, SameHierarchy DEF Shape, Hierarchy, Phases
<1>4. Nodes' = Nodes /\ Links' = Links
  BY <1>1, SameNodes, SameKnown
<1>5. Elements'
  BY <1>1, <1>2, <1>4 DEF Shape, Elements
<1>6. Fresh'
  BY <1>1 DEF Shape, Fresh
<1> QED BY <1>3, <1>5, <1>6 DEF Shape

\* Variables are given to operations of the layer.
LEMMA EncodeShape == Shape /\ Encode => Shape'
<1> SUFFICES ASSUME Shape, Encode PROVE Shape'
  OBVIOUS
<1>1. /\ phase = "encode" /\ phase' = "layer"
      /\ UNCHANGED <<domain, layer, pos, sizes, ops, exp, pred, units, todo, pruning,
                     open, remove, taken, op, made, known, pruned, skipped, beyond>>
  BY DEF Encode, structure, worklists, history
<1>2. opVars' \subseteq opVars \cup ops
  BY DEF Encode
<1>3. Hierarchy'
  BY <1>1, SameHierarchy DEF Shape, Hierarchy, Phases
<1>4. Nodes' = Nodes /\ Links' = Links
  BY <1>1, SameNodes, SameKnown
<1>5. Elements'
  BY <1>1, <1>2, <1>4 DEF Shape, Elements
<1>6. Fresh'
  BY <1>1 DEF Shape, Fresh
<1> QED BY <1>3, <1>5, <1>6 DEF Shape

\* The argument of prune is one of the operations to prune.
LEMMA StartPruneShape == Shape /\ StartPrune => Shape'
<1> SUFFICES ASSUME Shape, StartPrune PROVE Shape'
  OBVIOUS
<1>1. /\ pruning' = "up" /\ remove' = {} /\ taken' = {}
      /\ UNCHANGED <<domain, layer, pos, phase, sizes, ops, exp, pred, opVars, units,
                     made, known, skipped, beyond>>
  BY DEF StartPrune, place, structure, formula
<1>2. PICK n \in todo : /\ todo' = todo \ {n} /\ op' = n /\ open' = {n}
                        /\ pruned' = pruned \cup {n}
  BY DEF StartPrune
<1>3. Hierarchy'
  BY <1>1, SameHierarchy DEF Shape, Hierarchy, Phases
<1>4. Nodes' = Nodes /\ Links' = Links
  BY <1>1, SameNodes, SameKnown
<1>5. Elements'
  BY <1>1, <1>2, <1>4 DEF Shape, Elements
<1>6. Touched' \subseteq Touched
  BY <1>1, <1>2 DEF Touched
<1>7. Fresh'
  BY <1>1, <1>6 DEF Shape, Fresh
<1> QED BY <1>3, <1>5, <1>7 DEF Shape

\* When the downward loop starts, openOps is empty.
LEMMA RootsFoundShape == Shape /\ RootsFound => Shape'
<1> SUFFICES ASSUME Shape, RootsFound PROVE Shape'
  OBVIOUS
<1>1. /\ pruning = "up" /\ open = {} /\ pruning' = "down"
      /\ UNCHANGED <<domain, layer, pos, phase, sizes, ops, exp, pred, opVars, units, todo,
                     open, remove, taken, op, made, known, pruned, skipped, beyond>>
  BY DEF RootsFound, place, structure, formula, history
<1>3. Hierarchy'
  BY <1>1, SameHierarchy DEF Shape, Hierarchy, Phases
<1>4. Nodes' = Nodes /\ Links' = Links
  BY <1>1, SameNodes, SameKnown
<1>5. Elements'
  BY <1>1, <1>4 DEF Shape, Elements
<1>6. Touched' = Touched
  BY <1>1 DEF Touched
<1>7. Fresh'
  BY <1>1, <1>6 DEF Shape, Fresh
<1> QED BY <1>3, <1>5, <1>7 DEF Shape

\* When prune returns, both worklists are empty.
LEMMA ReturnShape == Shape /\ Return => Shape'
<1> SUFFICES ASSUME Shape, Return PROVE Shape'
  OBVIOUS
<1>1. /\ pruning = "down" /\ remove = {} /\ pruning' = "no"
      /\ UNCHANGED <<domain, layer, pos, phase, sizes, ops, exp, pred, opVars, units,
                     open, remove, taken, op, made, known, pruned, beyond>>
  BY DEF Return, place, structure, formula
<1>2. PICK over : over \subseteq todo /\ todo' = todo \ over /\ skipped' = skipped \cup over
  BY DEF Return
<1>3. Hierarchy'
  BY <1>1, SameHierarchy DEF Shape, Hierarchy, Phases
<1>4. Nodes' = Nodes /\ Links' = Links
  BY <1>1, SameNodes, SameKnown
<1>5. Elements'
  BY <1>1, <1>2, <1>4 DEF Shape, Elements
<1>6. Touched' \subseteq Touched
  BY <1>1, <1>2 DEF Touched
<1>7. Fresh'
  BY <1>1, <1>6 DEF Shape, Fresh
<1> QED BY <1>3, <1>5, <1>7 DEF Shape

\* A parent lies one layer above its child.
LEMMA ParentsLayer ==
  ASSUME NEW n, NEW m \in Parents(n)
  PROVE  m.layer = n.layer - 1 /\ m.pos = OldPos(n.layer, n.pos)
BY DEF Parents, Node

\* Upwards, prune goes from operations to their parents.
LEMMA PruneUpShape == Shape /\ PruneUp => Shape'
<1> SUFFICES ASSUME Shape, PruneUp PROVE Shape'
  OBVIOUS
<1>1. /\ pruning = "up" /\ pruning' = "up"
      /\ UNCHANGED <<domain, layer, pos, phase, sizes, ops, exp, pred, opVars, units, todo,
                     op, made, known, pruned, skipped, beyond>>
  BY DEF PruneUp, place, structure, formula, history
<1>2. PICK n \in open :
        /\ taken' \subseteq taken \cup {<<m, n>> : m \in Parents(n)}
        /\ open' \subseteq open \cup Parents(n)
        /\ remove' \subseteq remove \cup {n}
  BY DEF PruneUp, Reopened, EmptiedParents
<1>3. Hierarchy'
  BY <1>1, SameHierarchy DEF Shape, Hierarchy, Phases
<1>4. Nodes' = Nodes /\ Links' = Links
  BY <1>1, SameNodes, SameKnown
<1>5. n \in known /\ Parents(n) \subseteq known
  BY <1>2, ParentsKnown DEF Shape, Elements
<1>6. Elements'
  <2>1. /\ taken' \subseteq known' \X known'
        /\ open' \subseteq known' /\ remove' \subseteq known'
    BY <1>1, <1>2, <1>5 DEF Shape, Elements
  <2> QED BY <1>1, <1>4, <2>1 DEF Shape, Elements
<1>7. Touched' \subseteq Touched \cup Parents(n)
  BY <1>1, <1>2 DEF Touched
<1>8. \A m \in Parents(n) : m.layer # layer
  <2>1. n.layer \in 0..layer /\ layer \in Nat
    BY <1>5, DomainFacts DEF Shape, Elements, Hierarchy, Nodes
  <2> QED BY <2>1, ParentsLayer
<1>9. Fresh'
  BY <1>1, <1>7, <1>8 DEF Shape, Fresh
<1> QED BY <1>3, <1>6, <1>9 DEF Shape

\* Downwards, prune goes from operations to their children.
LEMMA PruneDownShape == Shape /\ PruneDown => Shape'
<1> SUFFICES ASSUME Shape, PruneDown PROVE Shape'
  OBVIOUS
<1>1. /\ pruning = "down" /\ pruning' = "down"
      /\ UNCHANGED <<domain, layer, pos, phase, sizes, opVars, todo, open, taken, op, made,
                     known, pruned, skipped>>
  BY DEF PruneDown, place
<1>2. PICK n \in remove : \E P \in Visited(n) :
        /\ remove' = (remove \ {n}) \cup Doomed(n, P)
        /\ RemoveOccurrence(n, Children(n, P) \ Doomed(n, P))
        /\ beyond' = (beyond \/ (n.layer < layer /\ n.pos = Last(n.layer)))
  BY Zenon DEF PruneDown
<1>3. Hierarchy'
  BY <1>1, SameHierarchy DEF Shape, Hierarchy, Phases
<1>4. Nodes' = Nodes /\ Links' = Links
  BY <1>1, SameNodes, SameKnown
<1>5. remove' \subseteq known
  BY <1>2, ChildrenKnown DEF Doomed, Shape, Elements
<1>6. ops' \subseteq ops /\ exp' \subseteq exp /\ pred' \subseteq pred /\ beyond' \in BOOLEAN
  BY <1>2 DEF RemoveOccurrence, Shape, Elements
<1>7. Elements'
  BY <1>1, <1>4, <1>5, <1>6 DEF Shape, Elements
<1>8. Touched' = Touched
  BY <1>1 DEF Touched
<1>9. Fresh'
  BY <1>1, <1>8 DEF Shape, Fresh
<1> QED BY <1>3, <1>7, <1>9 DEF Shape

\* Nothing changes when nothing happens.
LEMMA StutterShape == Shape /\ UNCHANGED vars => Shape'
<1> SUFFICES ASSUME Shape, UNCHANGED vars PROVE Shape'
  OBVIOUS
<1>1. UNCHANGED <<domain, layer, pos, phase, sizes, ops, exp, pred, opVars, units, todo, pruning,
                     open, remove, taken, op, made, known, pruned, skipped, beyond>>
  BY DEF vars, place, structure, formula, worklists, history
<1>3. Hierarchy'
  BY <1>1, SameHierarchy DEF Shape, Hierarchy, Phases
<1>4. Nodes' = Nodes /\ Links' = Links
  BY <1>1, SameNodes, SameKnown
<1>5. Elements'
  BY <1>1, <1>4 DEF Shape, Elements
<1>6. Fresh'
  BY <1>1 DEF Shape, Fresh, Touched
<1> QED BY <1>3, <1>5, <1>6 DEF Shape

\* Links into layers whose parents' positions stay where they are.
LEMMA LinkStays ==
  ASSUME Hierarchy, Elements, domain' = domain, NEW e \in Links,
         sizes'[e[2].layer-1] = sizes[e[2].layer-1],
         e[2] \in known', Parent(e) \in known'
  PROVE  e \in Links' /\ Parent(e)' = Parent(e)
<1>1. /\ e \in Names \X known /\ e[2].layer > 0 /\ e[2].layer \in Nat
  BY DomainFacts DEF Links, Elements, Nodes, Hierarchy
<1>2. /\ e[2].layer-1 \in Nat /\ (e[2].layer-1)+1 = e[2].layer
  BY <1>1
<1>3. OldPos(e[2].layer, e[2].pos)' = OldPos(e[2].layer, e[2].pos)
  <2>1. \A l \in Nat : sizes'[l] = sizes[l] =>
          \A p : OldPos(l+1, p)' = OldPos(l+1, p)
    BY StablePositions
  <2>2. \A p : OldPos((e[2].layer-1)+1, p)' = OldPos((e[2].layer-1)+1, p)
    BY <1>2, <2>1
  <2> QED BY <1>2, <2>2
<1>4. Parent(e)' = Parent(e)
  BY <1>3, Zenon DEF Parent
<1>5. Names' = Names
  BY DEF Names, Reductions, Actions
<1> QED BY <1>1, <1>4, <1>5, Zenon DEF Links

\* The operations above the current position.
LEMMA AboveFacts ==
  ASSUME Hierarchy, Elements, layer > 0, NEW n \in Above
  PROVE  /\ n \in ops /\ n.layer = layer - 1 /\ n.pos = OldPos(layer, pos)
         /\ n.op \in Names /\ n = Node(layer-1, OldPos(layer, pos), n.op)
         /\ Offset(layer, pos) \in Nat
<1>1. /\ layer \in Nat /\ layer-1 \in Nat /\ layer-1 \in 0..layer /\ (layer-1)+1 = layer
  BY DomainFacts DEF Hierarchy
<1>2. Row(layer-1) /\ pos \in Nat
  <2>1. Row(layer) /\ Row(layer-1)
    BY <1>1, DomainFacts DEF Hierarchy
  <2>2. DOMAIN sizes[layer] = 0..Last(layer)
    BY <2>1, LastOfRow
  <2> QED BY <2>1, <2>2 DEF Hierarchy
<1>3. /\ OldPos(layer, pos) \in DOMAIN sizes[layer-1]
      /\ SuccessorPos(layer-1, OldPos(layer, pos)) <= pos
  <2>1. /\ OldPos((layer-1)+1, pos) \in DOMAIN sizes[layer-1]
        /\ SuccessorPos(layer-1, OldPos((layer-1)+1, pos)) <= pos
    BY <1>1, <1>2, OldPosFacts
  <2> QED BY <1>1, <2>1
<1>4. OldPos(layer, pos) \in Nat
  BY <1>2, <1>3, LastOfRow
<1>5. SuccessorPos(layer-1, OldPos(layer, pos)) \in Nat
  BY <1>2, <1>4, SuccessorType
<1>6. Offset(layer, pos) \in Nat
  BY <1>2, <1>3, <1>5 DEF Offset
<1>7. n \in ops /\ n.layer = layer - 1 /\ n.pos = OldPos(layer, pos)
  BY DEF Above, At
<1>8. n \in [layer : 0..layer, pos : Nat, op : Names]
  BY <1>7 DEF Elements, Nodes
<1> QED BY <1>6, <1>7, <1>8 DEF Node

\* What is put at the current position has its parents one layer above, and
\* the position gets a positive size, which no position filled so far needs.
LEMMA PropagateShape == Shape /\ Propagate => Shape'
<1> SUFFICES ASSUME Shape, Propagate PROVE Shape'
  OBVIOUS
<1> DEFINE names(A) == UNION {Kids(n, A) : n \in Above}
           links(A) == UNION {{n.op} \X Here(Kids(n, A)) : n \in Above}
<1>1. PICK A :
        /\ ops'   = ops \cup Here(names(A))
        /\ exp'   = exp \cup links(A)
        /\ pred'  = pred \cup links(A)
        /\ made'  = made \cup links(A)
        /\ known' = known \cup Here(names(A))
        /\ sizes' = [sizes EXCEPT ![layer][pos] = ExpansionSize(names(A))]
        /\ todo'  = {n \in Above : Kids(n, A) = {}}
  BY Zenon DEF Propagate
<1> HIDE DEF names, links
<1>2. /\ phase = "reductions" /\ phase' = "dominate" /\ pruning = "no" /\ layer > 0
      /\ UNCHANGED <<domain, layer, pos, opVars, units, pruning, open, remove, taken, op,
                     pruned, skipped, beyond>>
  BY DEF Propagate, Quiet, formula, worklists, Shape, Hierarchy
<1>3. /\ layer \in Nat /\ layer-1 \in 0..layer /\ layer-1 \in Nat /\ Row(layer) /\ Row(layer-1)
      /\ (layer-1)+1 = layer
  BY <1>2, DomainFacts DEF Shape, Hierarchy
<1>4. pos \in DOMAIN sizes[layer] /\ pos \in Nat /\ DOMAIN sizes = 0..layer
  BY <1>3, LastOfRow DEF Shape, Hierarchy
<1>5. ExpansionSize(names(A)) \in Nat \ {0}
  BY ExpansionSizeTyped DEF Shape, Hierarchy
<1>6. /\ DOMAIN sizes' = 0..layer
      /\ \A l \in 0..layer : l # layer => sizes'[l] = sizes[l]
      /\ sizes'[layer] = [sizes[layer] EXCEPT ![pos] = ExpansionSize(names(A))]
      /\ DOMAIN sizes'[layer] = DOMAIN sizes[layer]
  BY <1>1, <1>3, <1>4
<1>7. \A l \in 0..layer : DOMAIN sizes'[l] = DOMAIN sizes[l]
  BY <1>6
<1>8. Row(layer)'
  <2>1. PICK k \in Nat : sizes[layer] \in [0..k -> Nat \ {0}]
    BY <1>3 DEF Row
  <2>2. sizes'[layer] \in [0..k -> Nat \ {0}]
    BY <1>4, <1>5, <1>6, <2>1
  <2> QED BY <1>2, <2>2 DEF Row
<1>9. \A l \in 0..layer : l # layer =>
        /\ \A p : SuccessorPos(l, p)' = SuccessorPos(l, p)
        /\ Last(l)' = Last(l) /\ (Row(l)' <=> Row(l))
  <2>1. \A l \in Nat : sizes'[l] = sizes[l] =>
          /\ \A p : SuccessorPos(l, p)' = SuccessorPos(l, p)
          /\ Last(l)' = Last(l) /\ (Row(l)' <=> Row(l))
    BY StablePositions
  <2> QED BY <1>6, <2>1
<1>10. Hierarchy'
  <2>1. \A l \in 0..layer' : Row(l)'
    <3> SUFFICES ASSUME NEW l \in 0..layer PROVE Row(l)'
      BY <1>2
    <3>1. CASE l = layer
      BY <1>2, <1>8, <3>1
    <3>2. CASE l # layer
      BY <1>9, <3>2 DEF Shape, Hierarchy
    <3> QED BY <3>1, <3>2
  <2>2. ASSUME NEW l \in 0..layer'-1
        PROVE  DOMAIN sizes'[l+1] = 0..SuccessorPos(l, Last(l))'
    <3>1. l \in 0..layer-1 /\ l \in 0..layer /\ l+1 \in 0..layer /\ l # layer
      BY <1>2, <1>3
    <3>2. DOMAIN sizes[l+1] = 0..SuccessorPos(l, Last(l))
      BY <3>1 DEF Shape, Hierarchy
    <3>3. SuccessorPos(l, Last(l))' = SuccessorPos(l, Last(l))
      <4>1. \A p : SuccessorPos(l, p)' = SuccessorPos(l, p)
        BY <1>9, <3>1
      <4>2. Last(l)' = Last(l)
        BY <1>9, <3>1
      <4> QED BY <4>1, <4>2
    <3> QED BY <1>7, <3>1, <3>2, <3>3
  <2>3. /\ domain' \in Domains /\ layer' \in 0..LayerBound /\ DOMAIN sizes' = 0..layer'
        /\ pos' \in DOMAIN sizes'[layer'] /\ phase' \in Phases /\ layer' > 0
    BY <1>2, <1>4, <1>6, <1>7 DEF Shape, Hierarchy, Phases
  <2> QED BY <2>1, <2>2, <2>3 DEF Hierarchy
<1>11. \A n \in Above : Kids(n, A) \subseteq Names
  BY <1>2, AboveFacts, ChildNamesTyped DEF Kids, Shape, Hierarchy
<1>12. Names' = Names
  BY <1>2 DEF Names, Reductions, Actions
<1>13. \A n \in Here(names(A)) : /\ n \in [layer : 0..layer, pos : Nat, op : Names]
                                  /\ n.layer = layer /\ n.pos = pos
  BY <1>3, <1>4, <1>11 DEF names, Here, Node
<1>14. Nodes' = Nodes
  BY <1>2, <1>3, <1>7, <1>12 DEF Nodes
<1>15. known' \subseteq Nodes'
  BY <1>1, <1>4, <1>13, <1>14 DEF Nodes, Shape, Elements
<1>16. Links \subseteq Links'
  <2> SUFFICES ASSUME NEW e \in Links PROVE e \in Links'
    OBVIOUS
  <2>1. e[2].layer \in 0..layer /\ e[2].layer > 0 /\ e[2] \in known /\ Parent(e) \in known
    BY DEF Links, Shape, Elements, Nodes
  <2>2. sizes'[e[2].layer-1] = sizes[e[2].layer-1]
    BY <1>3, <1>6, <2>1
  <2>3. e[2] \in known' /\ Parent(e) \in known'
    BY <1>1, <2>1
  <2> QED BY <1>2, <2>2, <2>3, LinkStays DEF Shape
<1>17. links(A) \subseteq Links'
  <2> SUFFICES ASSUME NEW e \in links(A) PROVE e \in Links'
    OBVIOUS
  <2>1. PICK n \in Above : e[1] = n.op /\ e[2] \in Here(Kids(n, A)) /\ e = <<e[1], e[2]>>
    BY DEF links
  <2>2. e[2] \in Here(names(A))
    BY <2>1 DEF names, Here
  <2>3. e[2] \in known' /\ e[2].layer = layer /\ e[2].pos = pos
    BY <1>1, <1>13, <2>2
  <2>4. n \in ops /\ n.op \in Names /\ n = Node(layer-1, OldPos(layer, pos), n.op)
    BY <1>2, AboveFacts DEF Shape
  <2>5. OldPos(layer, pos)' = OldPos(layer, pos)
    <3>1. \A l \in Nat : sizes'[l] = sizes[l] => \A p : OldPos(l+1, p)' = OldPos(l+1, p)
      BY StablePositions
    <3>2. sizes'[layer-1] = sizes[layer-1]
      BY <1>3, <1>6
    <3>3. \A p : OldPos(layer, p)' = OldPos(layer, p)
      BY <1>2, <1>3, <3>1, <3>2
    <3> QED BY <1>2, <3>3
  <2>6. Parent(e)' = n
    BY <1>2, <2>1, <2>3, <2>4, <2>5 DEF Parent
  <2>7. n \in known'
    BY <1>1, <2>4 DEF Shape, Elements
  <2> QED BY <1>2, <1>12, <2>1, <2>3, <2>4, <2>6, <2>7 DEF Links
<1>18. Above \subseteq ops
  BY DEF Above, At
<1>19. Elements'
  <2>1. known \subseteq known' /\ ops' \subseteq known' /\ todo' \subseteq known'
    BY <1>1, <1>18 DEF Shape, Elements
  <2>2. exp' \subseteq Links' /\ pred' \subseteq Links' /\ made' \subseteq Links'
    BY <1>1, <1>16, <1>17 DEF Shape, Elements
  <2> QED BY <1>2, <1>15, <2>1, <2>2 DEF Shape, Elements
<1>20. \A n \in known : n.layer = layer => n.pos < pos
  BY <1>2 DEF Shape, Fresh
<1>21. \A n \in Above : n \in known /\ n.layer # layer
  BY <1>2, <1>3, <1>18, AboveFacts DEF Shape, Elements
<1>22. \A n \in Touched' : n \in known /\ (n \in known => ~(n.layer = layer /\ n.pos = pos))
  <2>1. Touched' \subseteq known
    BY <1>1, <1>2, <1>21 DEF Touched, Shape, Elements
  <2> QED BY <1>4, <1>20, <2>1
<1>23. \A n \in known' : n.layer = layer => n.pos <= pos
  BY <1>1, <1>4, <1>13, <1>20 DEF Shape, Elements, Nodes
<1>24. Fresh'
  BY <1>2, <1>22, <1>23 DEF Fresh
<1> QED BY <1>10, <1>19, <1>24 DEF Shape

\* The links to operations that stay, and those that lead to the operations
\* By replaces the others by.
Staying(s, gone)    == {e \in s : e[2] \notin gone}
Moving(s, gone, By) == {<<e[1], By[e[2]]>> : e \in {x \in s : x[2] \in gone}}

\* What DominationResolver does to the position: some of its operations go,
\* and their links lead to others of the position.
LEMMA DominateFacts ==
  ASSUME Hierarchy, Elements, Dominate
  PROVE  \E gone \in SUBSET At(layer, pos) : \E By \in [gone -> At(layer, pos) \ gone] :
           /\ ops' = ops \ gone
           /\ known' = known \ gone
           /\ exp' = Staying(exp, gone) \cup Moving(pred, gone, By)
           /\ pred' = Staying(pred, gone) \cup Moving(pred, gone, By)
           /\ made' = Staying(made, gone) \cup Moving(made, gone, By)
<1> DEFINE here == {n.op : n \in At(layer, pos)}
           from == {a \in here : \E b \in here : <<a, b>> \in domain.dominated}
           Kept(s) == {e \in s : e[2] \notin Here(from)}
           Moved(s, by) == {<<e[1], Node(layer, pos, by[e[2].op])>> : e \in s \ Kept(s)}
<1>1. PICK by \in [from -> here \ from] :
        /\ ops'   = ops \ Here(from)
        /\ known' = known \ Here(from)
        /\ exp'   = Kept(exp) \cup Moved(pred, by)
        /\ pred'  = Kept(pred) \cup Moved(pred, by)
        /\ made'  = Kept(made) \cup Moved(made, by)
  BY Zenon DEF Dominate
<1> DEFINE gone == Here(from)
           By == [n \in gone |-> Node(layer, pos, by[n.op])]
<1>2. \A a \in here : Node(layer, pos, a) \in At(layer, pos)
  BY DEF At, Elements, Nodes, Node
<1>3. from \subseteq here
  OBVIOUS
<1> HIDE DEF here, from
<1>4. gone \subseteq At(layer, pos)
  BY <1>2, <1>3 DEF Here
<1>5. ASSUME NEW n \in gone PROVE n.op \in from
  BY DEF Here, Node
<1>6. ASSUME NEW a \in here \ from PROVE Node(layer, pos, a) \notin gone
  BY DEF Here, Node
<1>7. By \in [gone -> At(layer, pos) \ gone]
  <2>1. \A n \in gone : Node(layer, pos, by[n.op]) \in At(layer, pos) \ gone
    BY <1>2, <1>5, <1>6
  <2> HIDE DEF gone
  <2> QED BY <2>1
<1>8. ASSUME NEW s PROVE Kept(s) = Staying(s, gone) /\ Moved(s, by) = Moving(s, gone, By)
  BY DEF Staying, Moving
<1> HIDE DEF gone, By
<1>9. /\ ops' = ops \ gone /\ known' = known \ gone
      /\ exp' = Staying(exp, gone) \cup Moving(pred, gone, By)
      /\ pred' = Staying(pred, gone) \cup Moving(pred, gone, By)
      /\ made' = Staying(made, gone) \cup Moving(made, gone, By)
  BY <1>1, <1>8, Zenon DEF gone
<1> QED BY <1>4, <1>7, <1>9

\* A link that is moved stays at its position, below the same parent.
LEMMA MovedLink ==
  ASSUME Hierarchy, Elements, NEW gone \in SUBSET At(layer, pos),
         NEW By \in [gone -> At(layer, pos) \ gone],
         NEW s \in SUBSET Links, NEW e \in Moving(s, gone, By)
  PROVE  /\ e[2] \in At(layer, pos) \ gone /\ e \in Links
         /\ \E x \in s : x[1] = e[1] /\ x[2] \in gone /\ Parent(x) = Parent(e)
<1>1. PICK x \in s : x[2] \in gone /\ e = <<x[1], By[x[2]]>>
  BY DEF Moving
<1>2. e[1] = x[1] /\ e[2] = By[x[2]] /\ e = <<e[1], e[2]>>
  BY <1>1
<1>3. e[2] \in At(layer, pos) \ gone /\ x[2] \in At(layer, pos)
  BY <1>1, <1>2
<1>4. x[2].layer = layer /\ x[2].pos = pos /\ e[2].layer = layer /\ e[2].pos = pos
  BY <1>3 DEF At
<1>5. Parent(x) = Parent(e)
  BY <1>2, <1>4, Zenon DEF Parent
<1>6. x \in Names \X known /\ x[2].layer > 0 /\ Parent(x) \in known
  BY DEF Links
<1>7. e[2] \in known
  BY <1>3 DEF At, Elements
<1>8. e \in Names \X known /\ e[2].layer > 0 /\ Parent(e) \in known
  BY <1>2, <1>4, <1>5, <1>6, <1>7
<1> QED BY <1>1, <1>2, <1>3, <1>5, <1>8, Zenon DEF Links

\* The operations that domination takes away were just created: nothing but
\* their links knows of them.
LEMMA DominateShape == Shape /\ IInv /\ Dominate => Shape'
<1> SUFFICES ASSUME Shape, IInv, Dominate PROVE Shape'
  OBVIOUS
<1>0. PICK gone \in SUBSET At(layer, pos) : \E By \in [gone -> At(layer, pos) \ gone] :
        /\ ops' = ops \ gone
        /\ known' = known \ gone
        /\ exp' = Staying(exp, gone) \cup Moving(pred, gone, By)
        /\ pred' = Staying(pred, gone) \cup Moving(pred, gone, By)
        /\ made' = Staying(made, gone) \cup Moving(made, gone, By)
  BY DominateFacts, Zenon DEF Shape
<1>1. PICK By \in [gone -> At(layer, pos) \ gone] :
        /\ ops' = ops \ gone
        /\ known' = known \ gone
        /\ exp' = Staying(exp, gone) \cup Moving(pred, gone, By)
        /\ pred' = Staying(pred, gone) \cup Moving(pred, gone, By)
        /\ made' = Staying(made, gone) \cup Moving(made, gone, By)
  BY <1>0
<1>2. /\ phase = "dominate" /\ pruning = "no" /\ todo = {} /\ layer > 0 /\ layer \in Nat
      /\ UNCHANGED <<domain, layer, sizes, opVars, units, todo, pruning, open, remove,
                     taken, op, pruned, skipped, beyond>>
  BY DomainFacts DEF Dominate, Quiet, formula, worklists, Shape, Hierarchy
<1>3. /\ pos \in Nat /\ pos+1 \in Nat /\ pos \in DOMAIN sizes[layer]
      /\ \/ pos = Last(layer) /\ phase' = "encode" /\ pos' = pos
         \/ pos # Last(layer) /\ phase' = "left" /\ pos' = pos+1
      /\ DOMAIN sizes[layer] = 0..Last(layer) /\ Last(layer) \in Nat
  <2>1. Row(layer)
    BY <1>2 DEF Shape, Hierarchy
  <2>2. DOMAIN sizes[layer] = 0..Last(layer) /\ Last(layer) \in Nat
    BY <2>1, LastOfRow
  <2>3. \/ pos = Last(layer) /\ phase' = "encode" /\ pos' = pos
        \/ pos # Last(layer) /\ phase' = "left" /\ pos' = pos+1
    BY DEF Dominate
  <2> QED BY <2>2, <2>3 DEF Shape, Hierarchy
<1>4. Hierarchy'
  <2>1. pos' \in DOMAIN sizes[layer] /\ phase' \in Phases
    BY <1>3 DEF Phases
  <2> QED BY <1>2, <2>1, SameHierarchy DEF Shape
<1>5. Nodes' = Nodes
  BY <1>2, SameNodes
<1>6. gone \subseteq known /\ \A n \in gone : n.layer = layer /\ n.pos = pos
  BY DEF At, Shape, Elements
<1>7. \A e \in Links : Parent(e) \notin gone
  <2> SUFFICES ASSUME NEW e \in Links PROVE Parent(e).layer # layer
    BY <1>6
  <2>1. e[2].layer \in 0..layer
    BY DEF Links, Shape, Elements, Nodes
  <2> QED BY <1>2, <2>1 DEF Parent, Node
<1>8. ASSUME NEW e \in Links, e[2] \notin gone PROVE e \in Links'
  <2>1. e[2] \in known' /\ Parent(e) \in known'
    BY <1>1, <1>7, <1>8 DEF Links
  <2> QED BY <1>2, <2>1, SameLinks
<1>9. ASSUME NEW s \in SUBSET Links
      PROVE  Staying(s, gone) \subseteq Links' /\ Moving(s, gone, By) \subseteq Links'
  <2>1. Staying(s, gone) \subseteq Links'
    BY <1>8 DEF Staying
  <2>2. \A e \in Moving(s, gone, By) : e \in Links /\ e[2] \notin gone
    BY MovedLink DEF Shape
  <2> QED BY <1>8, <2>1, <2>2
<1>10. /\ Touched \cap gone = {} /\ opVars \cap gone = {}
  <2>1. Touched \cap gone = {}
    BY <1>2, <1>6 DEF Shape, Fresh
  <2>2. \A n \in opVars : n.layer # layer
    BY <1>2 DEF IInv, EncodedIsComplete
  <2> QED BY <1>6, <2>1, <2>2
<1>11. Elements'
  <2>1. /\ opVars \subseteq known' /\ todo \subseteq known' /\ open \subseteq known'
        /\ remove \subseteq known' /\ pruned \subseteq known' /\ skipped \subseteq known'
    BY <1>1, <1>2, <1>10 DEF Touched, Shape, Elements
  <2>2. taken \subseteq known' \X known'
    BY <1>1, <1>10 DEF Touched, Shape, Elements
  <2>3. exp' \subseteq Links' /\ pred' \subseteq Links' /\ made' \subseteq Links'
    BY <1>1, <1>9 DEF Shape, Elements
  <2>4. known' \subseteq Nodes' /\ ops' \subseteq known'
    BY <1>1, <1>5 DEF Shape, Elements
  <2> QED BY <1>2, <2>1, <2>2, <2>3, <2>4 DEF Shape, Elements
<1>12. \A n \in known : n.layer = layer => n.pos \in Nat /\ n.pos <= pos
  BY DEF Shape, Fresh, Elements, Nodes
<1>13. \A n \in known' : n.layer = layer' => n.pos <= pos' /\ (phase' = "left" => n.pos < pos')
  BY <1>1, <1>2, <1>3, <1>12
<1>14. Fresh'
  BY <1>3, <1>13 DEF Fresh
<1> QED BY <1>4, <1>11, <1>14 DEF Shape

\* The new layer has one position for every unit of size in the last one.
LEMMA NextLayerShape == Shape /\ NextLayer => Shape'
<1> SUFFICES ASSUME Shape, NextLayer PROVE Shape'
  OBVIOUS
<1>1. /\ phase = "layer" /\ layer < LayerBound /\ layer' = layer + 1 /\ pruning = "no"
      /\ pos' = 0 /\ phase' = "left"
      /\ UNCHANGED <<domain, ops, exp, pred, opVars, units, todo, pruning, open, remove,
                     taken, op, made, known, pruned, skipped, beyond>>
  BY DEF NextLayer, Quiet, formula, worklists, history
<1>2. /\ layer \in Nat /\ layer+1 \in 0..LayerBound /\ Row(layer)
      /\ DOMAIN sizes = 0..layer
  BY <1>1, DomainFacts DEF Shape, Hierarchy
<1>3. sizes' = [l \in 0 .. layer + 1 |->
                 IF l <= layer THEN sizes[l]
                 ELSE [p \in 0 .. NextLayerSize(layer) - 1 |-> 1]]
  BY DEF NextLayer
<1>4. SuccessorPos(layer, Last(layer)) \in Nat
  <2>1. Last(layer) \in Nat
    BY <1>2, LastOfRow
  <2> QED BY <1>2, <2>1, SuccessorType
<1>5. NextLayerSize(layer) - 1 = SuccessorPos(layer, Last(layer))
  <2> HIDE DEF SuccessorPos
  <2> QED BY <1>4 DEF NextLayerSize
<1>6. /\ DOMAIN sizes' = 0..layer'
      /\ \A l \in 0..layer : sizes'[l] = sizes[l]
      /\ sizes'[layer+1] = [p \in 0..SuccessorPos(layer, Last(layer)) |-> 1]
  <2>1. DOMAIN sizes' = 0..layer'
    BY <1>1, <1>3
  <2>2. layer+1 \in 0..layer+1 /\ ~(layer+1 <= layer)
    BY <1>2
  <2>3. sizes'[layer+1] = [p \in 0 .. NextLayerSize(layer) - 1 |-> 1]
    BY <1>3, <2>2, Zenon
  <2>4. sizes'[layer+1] = [p \in 0 .. SuccessorPos(layer, Last(layer)) |-> 1]
    BY <1>5, <2>3, Zenon
  <2>5. \A l \in 0..layer : l \in 0..layer+1 /\ l <= layer
    BY <1>2
  <2>6. \A l \in 0..layer : sizes'[l] = sizes[l]
    BY <1>3, <2>5, Zenon
  <2> QED BY <2>1, <2>4, <2>6
<1>7. Row(layer)'
  <2>1. sizes'[layer+1] \in [0..SuccessorPos(layer, Last(layer)) -> Nat \ {0}]
    BY <1>6
  <2>2. PICK k \in Nat : sizes'[layer'] \in [0..k -> Nat \ {0}]
    BY <1>1, <1>4, <2>1
  <2> QED BY <2>2 DEF Row
<1>8. \A l \in 0..layer :
        /\ \A p : SuccessorPos(l, p)' = SuccessorPos(l, p)
        /\ Last(l)' = Last(l) /\ (Row(l)' <=> Row(l))
  <2>1. \A l \in Nat : sizes'[l] = sizes[l] =>
          /\ \A p : SuccessorPos(l, p)' = SuccessorPos(l, p)
          /\ Last(l)' = Last(l) /\ (Row(l)' <=> Row(l))
    BY StablePositions
  <2> QED BY <1>6, <2>1
<1>9. Hierarchy'
  <2>1. ASSUME NEW l \in 0..layer' PROVE Row(l)'
    <3>1. CASE l \in 0..layer
      BY <1>8, <3>1 DEF Shape, Hierarchy
    <3>2. CASE l = layer+1
      BY <1>1, <1>7, <3>2
    <3> QED BY <1>1, <1>2, <3>1, <3>2
  <2>2. ASSUME NEW l \in 0..layer'-1
        PROVE  DOMAIN sizes'[l+1] = 0..SuccessorPos(l, Last(l))'
    <3>1. l \in 0..layer /\ l \in Nat
      BY <1>1, <1>2
    <3>2. SuccessorPos(l, Last(l))' = SuccessorPos(l, Last(l))
      <4>1. \A p : SuccessorPos(l, p)' = SuccessorPos(l, p)
        BY <1>8, <3>1
      <4>2. Last(l)' = Last(l)
        BY <1>8, <3>1
      <4> QED BY <4>1, <4>2
    <3>3. CASE l = layer
      BY <1>6, <3>2, <3>3
    <3>4. CASE l # layer
      <4>1. l \in 0..layer-1 /\ l+1 \in 0..layer
        BY <1>2, <3>1, <3>4
      <4>2. DOMAIN sizes[l+1] = 0..SuccessorPos(l, Last(l))
        BY <4>1 DEF Shape, Hierarchy
      <4> QED BY <1>6, <3>2, <4>1, <4>2
    <3> QED BY <3>3, <3>4
  <2>3. pos' \in DOMAIN sizes'[layer']
    BY <1>1, <1>4, <1>6
  <2>4. /\ domain' \in Domains /\ layer' \in 0..LayerBound
        /\ phase' \in Phases /\ layer' > 0
    BY <1>1, <1>2 DEF Shape, Hierarchy, Phases
  <2> QED BY <1>6, <2>1, <2>2, <2>3, <2>4 DEF Hierarchy
<1>10. Names' = Names
  BY <1>1 DEF Names, Reductions, Actions
<1>11. Nodes \subseteq Nodes'
  <2>1. 0..layer \subseteq 0..layer'
    BY <1>1, <1>2
  <2> QED BY <1>6, <1>10, <2>1 DEF Nodes
<1>12. Links \subseteq Links'
  <2> SUFFICES ASSUME NEW e \in Links PROVE e \in Links'
    OBVIOUS
  <2>1. e[2].layer \in 0..layer /\ e[2].layer > 0 /\ e[2] \in known /\ Parent(e) \in known
    BY DEF Links, Shape, Elements, Nodes
  <2>2. sizes'[e[2].layer-1] = sizes[e[2].layer-1]
    BY <1>2, <1>6, <2>1
  <2> QED BY <1>1, <2>1, <2>2, LinkStays DEF Shape
<1>13. Elements'
  BY <1>1, <1>11, <1>12 DEF Shape, Elements
<1>14. \A n \in known : n.layer # layer+1
  BY <1>2 DEF Shape, Elements, Nodes
<1>15. Fresh'
  BY <1>1, <1>14 DEF Fresh
<1> QED BY <1>9, <1>13, <1>15 DEF Shape

\* The hierarchy keeps its shape.  One step per action.
LEMMA NextShape == Shape /\ IInv /\ [Next]_vars => Shape'
<1> SUFFICES ASSUME Shape, IInv, [Next]_vars PROVE Shape'
  OBVIOUS
<1>1. CASE PruneLeft
  BY <1>1, PruneLeftShape
<1>2. CASE PruneAbove
  BY <1>2, PruneAboveShape
<1>3. CASE Propagate
  BY <1>3, PropagateShape
<1>4. CASE Dominate
  BY <1>4, DominateShape
<1>5. CASE Encode
  BY <1>5, EncodeShape
<1>6. CASE NextLayer
  BY <1>6, NextLayerShape
<1>7. CASE StartPrune
  BY <1>7, StartPruneShape
<1>8. CASE PruneUp
  BY <1>8, PruneUpShape
<1>9. CASE RootsFound
  BY <1>9, RootsFoundShape
<1>10. CASE PruneDown
  BY <1>10, PruneDownShape
<1>11. CASE Return
  BY <1>11, ReturnShape
<1>12. CASE UNCHANGED vars
  BY <1>12, StutterShape
<1> QED
  BY <1>1, <1>2, <1>3, <1>4, <1>5, <1>6, <1>7, <1>8, <1>9, <1>10, <1>11, <1>12
  DEF Next, Step, CreateNextPosition, Prune, Finished

\* In every reachable state the hierarchy has its shape.
LEMMA ShapeHolds == Spec => [](Shape /\ IInv)
<1>1. Init => Shape /\ IInv
  BY InitShape, InitInvariant
<1>2. Shape /\ IInv /\ [Next]_vars => (Shape /\ IInv)'
  BY NextShape, NextInvariant
<1> QED BY <1>1, <1>2, PTL DEF Spec

\* Whatever the order of propagation, domination and pruning, the positions
\* of every layer fit the expansion sizes of the layer above, no map or
\* worklist holds an operation that never was, and no read of the sizes or
\* of the positions leaves their range.
THEOREM TypesCorrect == Spec => []TypeOK
<1>1. ASSUME Shape, IInv PROVE TypeOK
  <2>1. ASSUME NEW l \in 0..layer, NEW p \in DOMAIN sizes[l] PROVE sizes[l][p] \in Nat \ {0}
    <3>1. Row(l)
      BY <1>1 DEF Shape, Hierarchy
    <3>2. PICK k \in Nat : sizes[l] \in [0..k -> Nat \ {0}]
      BY <3>1 DEF Row
    <3> QED BY <3>2
  <2>2. /\ known \subseteq [layer : 0..layer, pos : Nat, op : Names]
        /\ \A n \in known : n.pos \in DOMAIN sizes[n.layer]
    BY <1>1 DEF Shape, Elements, Nodes
  <2>3. exp \cup pred \cup made \subseteq Names \X known
    BY <1>1 DEF Shape, Elements, Links
  <2>4. units \subseteq known
    BY <1>1 DEF IInv, UnitsExact, Shape, Elements
  <2>5. /\ domain \in Domains /\ layer \in 0..LayerBound /\ DOMAIN sizes = 0..layer
        /\ pos \in DOMAIN sizes[layer] /\ phase \in Phases
    BY <1>1 DEF Shape, Hierarchy
  <2>6. /\ pruning \in {"no", "up", "down"} /\ beyond \in BOOLEAN
        /\ taken \subseteq known \X known
        /\ ops \cup opVars \subseteq known
        /\ todo \cup open \cup remove \cup pruned \cup skipped \subseteq known
    BY <1>1 DEF Shape, Elements
  <2> QED BY <2>1, <2>2, <2>3, <2>4, <2>5, <2>6 DEF TypeOK
<1> QED BY <1>1, ShapeHolds, PTL
=============================================================================
