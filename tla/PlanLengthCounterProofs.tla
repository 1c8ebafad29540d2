---------------------- MODULE PlanLengthCounterProofs ----------------------
(***************************************************************************)
(* The plan length counter is exact for every layer.                       *)
(*                                                                         *)
(* Two facts about the clauses are carried from position to position: any  *)
(* assignment that satisfies them makes the variable of the true length    *)
(* true (Sound), and the assignment that makes nothing else true satisfies *)
(* them (Canonical, in Satisfiable).                                       *)
(***************************************************************************)
EXTENDS PlanLengthCounter, TLAPS, FiniteSetTheorems, SequenceTheorems

\* The assignment in which every variable has its meaning.
Canonical(plan) ==
  {OpVar(p, plan[p]) : p \in DOMAIN layer} \cup
  {LengthVar(p, Length(plan, p)) : p \in 0..Len(layer)} \cup
  {EmptyVar(p) : p \in {q \in DOMAIN layer : plan[q] \in layer[q].empty}}

\* The variables of operations in truth are those of plan.
Fits(plan, truth) ==
  \A p \in DOMAIN layer : \A o \in Ops : OpVar(p, o) \in truth <=> plan[p] = o

Holds(c, truth) == c.if \subseteq truth => c.then \cap truth # {}

Types ==
  /\ layer \in Layers
  /\ pos \in 0..Len(layer)
  /\ cap \in Nat
  /\ min \in Nat
  /\ max \in 0..cap

\* One variable for each length between the bounds.
Window ==
  /\ min <= max
  /\ lengthVars \in Seq({LengthVar(p, n) : p \in Nat, n \in Nat})
  /\ Len(lengthVars) = max - min + 1

\* cap is the length of some plan.
CapIsReached == \E plan \in Plans : Length(plan, Len(layer)) = cap

Bounds ==
  \A plan \in Plans :
    min <= Length(plan, pos) /\ (max < cap => Length(plan, pos) <= max)

\* The counter's variables still mean what they meant when they were made.
Meaning ==
  \A plan \in Plans : \A i \in 1..(max - min + 1) :
    lengthVars[i] \in Canonical(plan) <=> Length(plan, pos) = min + i - 1

Sound ==
  \A plan \in Plans : \A truth :
    Fits(plan, truth) /\ Satisfied(truth) =>
      /\ Length(plan, pos) <= max
      /\ lengthVars[Length(plan, pos) - min + 1] \in truth

Satisfiable ==
  \A plan \in Plans : Length(plan, pos) <= max => Satisfied(Canonical(plan))

IInv ==
  /\ Types /\ Window /\ CapIsReached /\ Bounds
  /\ Meaning /\ Sound /\ Satisfiable

-----------------------------------------------------------------------------
(* Plans and their lengths.                                                *)

\* The length of the first p positions is a number, which grows with p by
\* the actual actions.
LEMMA LengthFacts ==
  ASSUME Types, NEW plan \in Plans, NEW p \in 0..Len(layer)
  PROVE  /\ Length(plan, p) \in Nat
         /\ Length(plan, 0) = 0
         /\ p < Len(layer) =>
              Length(plan, p+1) = Length(plan, p) +
                IF plan[p+1] \in layer[p+1].actual THEN 1 ELSE 0
<1> DEFINE S(n) == {q \in 1..n : plan[q] \in layer[q].actual}
<1>0. Len(layer) \in Nat
  BY LayersAssumption DEF Types
<1>1. \A n \in Nat : IsFiniteSet(S(n))
  <2> SUFFICES ASSUME NEW n \in Nat PROVE IsFiniteSet(S(n))
    OBVIOUS
  <2>1. IsFiniteSet(1..n)
    BY FS_Interval
  <2> QED BY <2>1, FS_Subset
<1>2. Length(plan, p) \in Nat
  <2>1. IsFiniteSet(S(p))
    BY <1>0, <1>1
  <2> QED BY <2>1, FS_CardinalityType DEF Length
<1>3. Length(plan, 0) = 0
  <2>1. S(0) = {}
    OBVIOUS
  <2> QED BY <2>1, FS_EmptySet DEF Length
<1>4. ASSUME p < Len(layer), plan[p+1] \in layer[p+1].actual
      PROVE  Length(plan, p+1) = Length(plan, p) + 1
  <2>1. S(p+1) = S(p) \cup {p+1} /\ p+1 \notin S(p)
    BY <1>0, <1>4
  <2>2. IsFiniteSet(S(p))
    BY <1>0, <1>1
  <2> HIDE DEF S
  <2>3. Cardinality(S(p) \cup {p+1}) = Cardinality(S(p)) + 1
    BY <2>1, <2>2, FS_AddElement
  <2>4. Cardinality(S(p+1)) = Cardinality(S(p)) + 1
    BY <2>1, <2>3
  <2> QED BY <2>4 DEF Length, S
<1>5. ASSUME p < Len(layer), plan[p+1] \notin layer[p+1].actual
      PROVE  Length(plan, p+1) = Length(plan, p)
  <2>1. S(p+1) = S(p)
    BY <1>0, <1>5
  <2> QED BY <2>1 DEF Length
<1> QED BY <1>0, <1>2, <1>3, <1>4, <1>5

\* What a prefix adds it does not lose.
LEMMA LengthMonotone ==
  ASSUME Types, NEW plan \in Plans, NEW p \in 0..Len(layer)
  PROVE  Length(plan, p) <= Length(plan, Len(layer))
<1> DEFINE S(n) == {q \in 1..n : plan[q] \in layer[q].actual}
<1>0. Len(layer) \in Nat
  BY LayersAssumption DEF Types
<1>1. IsFiniteSet(1..Len(layer))
  BY <1>0, FS_Interval
<1>2. IsFiniteSet(S(Len(layer)))
  BY <1>1, FS_Subset
<1>3. S(p) \subseteq S(Len(layer))
  BY <1>0
<1>4. Cardinality(S(p)) <= Cardinality(S(Len(layer)))
  BY <1>2, <1>3, FS_Subset
<1> QED BY <1>4 DEF Length

\* The operation of a plan at a position is either empty or actual.
LEMMA OneSort ==
  ASSUME Types, NEW plan \in Plans, NEW p \in DOMAIN layer
  PROVE  /\ plan[p] \in Ops
         /\ plan[p] \in layer[p].empty <=> plan[p] \notin layer[p].actual
         /\ layer[p].empty \subseteq Ops /\ layer[p].actual \subseteq Ops
<1>1. layer[p] \in [empty : SUBSET Ops, actual : SUBSET Ops]
  <2> DEFINE Spots == [empty : SUBSET Ops, actual : SUBSET Ops]
  <2>1. layer \in Seq(Spots)
    BY LayersAssumption DEF Types
  <2> HIDE DEF Spots
  <2>2. layer[p] \in Spots
    BY <2>1, ElementOfSeq, LenProperties
  <2> QED BY <2>2 DEF Spots
<1>2. layer[p].empty \cap layer[p].actual = {}
  BY LayersAssumption DEF Types
<1> QED BY <1>1, <1>2 DEF Plans

\* The canonical assignment says of every variable what it means.
LEMMA CanonicalVars ==
  ASSUME Types, NEW plan \in Plans
  PROVE  /\ Fits(plan, Canonical(plan))
         /\ \A p \in 0..Len(layer), n \in Nat :
              LengthVar(p, n) \in Canonical(plan) <=> Length(plan, p) = n
         /\ \A p \in DOMAIN layer :
              EmptyVar(p) \in Canonical(plan) <=> plan[p] \in layer[p].empty
<1>1. Fits(plan, Canonical(plan))
  BY DEF Fits, Canonical, OpVar, LengthVar, EmptyVar
<1>2. \A p \in 0..Len(layer), n \in Nat :
        LengthVar(p, n) \in Canonical(plan) <=> Length(plan, p) = n
  BY DEF Canonical, OpVar, LengthVar, EmptyVar
<1>3. \A p \in DOMAIN layer :
        EmptyVar(p) \in Canonical(plan) <=> plan[p] \in layer[p].empty
  BY DEF Canonical, OpVar, LengthVar, EmptyVar
<1> QED BY <1>1, <1>2, <1>3

-----------------------------------------------------------------------------
(* The clauses of a position.                                              *)

\* The helper variable, if there is one, says whether the spot is empty.
Says(plan, truth) ==
  EncodeDirectly \/ (EmptyVar(Here) \in truth <=> plan[Here] \in EmptyOps)

\* A clause for each of a set of operations holds if the one that occurs is
\* not among them or the conclusion is true.
LEMMA PerOperation ==
  ASSUME Types, pos < Len(layer), NEW plan \in Plans, NEW truth,
         Fits(plan, truth), NEW prev, NEW then, NEW S \in SUBSET Ops
  PROVE  (\A c \in {Clause({prev, v}, then) : v \in Vars(S)} : Holds(c, truth))
           <=> (prev \in truth /\ plan[Here] \in S => then \cap truth # {})
<1>0. Here \in DOMAIN layer
  BY LayersAssumption, LenProperties DEF Types, Here
<1>1. \A o \in S : OpVar(Here, o) \in truth <=> plan[Here] = o
  BY <1>0 DEF Fits
<1>2. \A o \in S : Holds(Clause({prev, OpVar(Here, o)}, then), truth)
                     <=> (prev \in truth /\ plan[Here] = o => then \cap truth # {})
  BY <1>1 DEF Holds, Clause
<1>3. (\A c \in {Clause({prev, v}, then) : v \in Vars(S)} : Holds(c, truth))
        <=> \A o \in S : Holds(Clause({prev, OpVar(Here, o)}, then), truth)
  BY DEF Vars
<1> QED BY <1>2, <1>3

\* A clause with all of them in its conclusion holds if the one that occurs
\* is among them, or the conclusion is true.
LEMMA AllOperations ==
  ASSUME Types, pos < Len(layer), NEW plan \in Plans, NEW truth,
         Fits(plan, truth), NEW prev, NEW then, NEW S \in SUBSET Ops
  PROVE  Holds(Clause({prev}, then \cup Vars(S)), truth)
           <=> (prev \in truth /\ plan[Here] \notin S => then \cap truth # {})
<1>0. Here \in DOMAIN layer
  BY LayersAssumption, LenProperties DEF Types, Here
<1>1. \A o \in S : OpVar(Here, o) \in truth <=> plan[Here] = o
  BY <1>0 DEF Fits
<1>2. Vars(S) \cap truth # {} <=> plan[Here] \in S
  BY <1>1 DEF Vars
<1>3. (then \cup Vars(S)) \cap truth # {}
        <=> (then \cap truth # {} \/ Vars(S) \cap truth # {})
  OBVIOUS
<1> QED BY <1>2, <1>3 DEF Holds, Clause

LEMMA SpotClausesSay ==
  ASSUME Types, pos < Len(layer), NEW plan \in Plans, NEW truth,
         Fits(plan, truth)
  PROVE  (\A c \in SpotClauses : Holds(c, truth)) <=> Says(plan, truth)
<1>0. Here \in DOMAIN layer
  BY LayersAssumption, LenProperties DEF Types, Here
<1>1. CASE EncodeDirectly
  BY <1>1 DEF SpotClauses, Says
<1>2. CASE ~EncodeDirectly
  <2>1. /\ plan[Here] \in EmptyOps <=> plan[Here] \notin ActualOps
        /\ EmptyOps \subseteq Ops /\ ActualOps \subseteq Ops
    BY <1>0, OneSort DEF EmptyOps, ActualOps
  <2>2. \A o \in Ops : OpVar(Here, o) \in truth <=> plan[Here] = o
    BY <1>0 DEF Fits
  <2>3. (\A c \in {Clause({v}, {EmptyVar(Here)}) : v \in Vars(EmptyOps)} : Holds(c, truth))
          <=> (plan[Here] \in EmptyOps => EmptyVar(Here) \in truth)
    <3>1. \A o \in EmptyOps : Holds(Clause({OpVar(Here, o)}, {EmptyVar(Here)}), truth)
                                <=> (plan[Here] = o => EmptyVar(Here) \in truth)
      BY <2>1, <2>2 DEF Holds, Clause
    <3> QED BY <3>1 DEF Vars
  <2>4. (\A c \in {Clause({v, EmptyVar(Here)}, {}) : v \in Vars(ActualOps)} : Holds(c, truth))
          <=> (plan[Here] \in ActualOps => EmptyVar(Here) \notin truth)
    <3>1. \A o \in ActualOps : Holds(Clause({OpVar(Here, o), EmptyVar(Here)}, {}), truth)
                                 <=> (plan[Here] = o => EmptyVar(Here) \notin truth)
      BY <2>1, <2>2 DEF Holds, Clause
    <3> QED BY <3>1 DEF Vars
  <2> QED BY <1>2, <2>1, <2>3, <2>4 DEF SpotClauses, Says
<1> QED BY <1>1, <1>2

LEMMA IfEmptySays ==
  ASSUME Types, pos < Len(layer), NEW plan \in Plans, NEW truth,
         Fits(plan, truth), Says(plan, truth), NEW prev, NEW then
  PROVE  (\A c \in IfEmpty(prev, then) : Holds(c, truth))
           <=> (prev \in truth /\ plan[Here] \in EmptyOps => then \cap truth # {})
<1>0. Here \in DOMAIN layer
  BY LayersAssumption, LenProperties DEF Types, Here
<1>1. /\ plan[Here] \in EmptyOps <=> plan[Here] \notin ActualOps
      /\ EmptyOps \subseteq Ops /\ ActualOps \subseteq Ops
  BY <1>0, OneSort DEF EmptyOps, ActualOps
<1>2. CASE ~EncodeDirectly
  <2>1. IfEmpty(prev, then) = {Clause({prev, EmptyVar(Here)}, then)}
    BY <1>2 DEF IfEmpty
  <2>2. EmptyVar(Here) \in truth <=> plan[Here] \in EmptyOps
    BY <1>2 DEF Says
  <2> QED BY <2>1, <2>2 DEF Holds, Clause
<1>3. CASE EncodeDirectly /\ Fewer(EmptyOps, ActualOps)
  <2>1. IfEmpty(prev, then) = {Clause({prev, v}, then) : v \in Vars(EmptyOps)}
    BY <1>3 DEF IfEmpty
  <2>2. EmptyOps \in SUBSET Ops
    BY <1>1
  <2>3. (\A c \in {Clause({prev, v}, then) : v \in Vars(EmptyOps)} : Holds(c, truth))
          <=> (prev \in truth /\ plan[Here] \in EmptyOps => then \cap truth # {})
    BY <2>2, PerOperation, Zenon
  <2> QED BY <2>1, <2>3
<1>4. CASE EncodeDirectly /\ ~Fewer(EmptyOps, ActualOps)
  BY <1>1, <1>4, AllOperations DEF IfEmpty
<1> QED BY <1>2, <1>3, <1>4

LEMMA IfActualSays ==
  ASSUME Types, pos < Len(layer), NEW plan \in Plans, NEW truth,
         Fits(plan, truth), Says(plan, truth), NEW prev, NEW then
  PROVE  (\A c \in IfActual(prev, then) : Holds(c, truth))
           <=> (prev \in truth /\ plan[Here] \in ActualOps => then \cap truth # {})
<1>0. Here \in DOMAIN layer
  BY LayersAssumption, LenProperties DEF Types, Here
<1>1. /\ plan[Here] \in EmptyOps <=> plan[Here] \notin ActualOps
      /\ EmptyOps \subseteq Ops /\ ActualOps \subseteq Ops
  BY <1>0, OneSort DEF EmptyOps, ActualOps
<1>2. CASE ~EncodeDirectly
  <2>1. IfActual(prev, then) = {Clause({prev}, then \cup {EmptyVar(Here)})}
    BY <1>2 DEF IfActual
  <2>2. EmptyVar(Here) \in truth <=> plan[Here] \in EmptyOps
    BY <1>2 DEF Says
  <2>3. (then \cup {EmptyVar(Here)}) \cap truth # {}
          <=> (then \cap truth # {} \/ EmptyVar(Here) \in truth)
    OBVIOUS
  <2> QED BY <1>1, <2>1, <2>2, <2>3 DEF Holds, Clause
<1>3. CASE EncodeDirectly /\ Fewer(ActualOps, EmptyOps)
  <2>1. IfActual(prev, then) = {Clause({prev, v}, then) : v \in Vars(ActualOps)}
    BY <1>3 DEF IfActual
  <2>2. ActualOps \in SUBSET Ops
    BY <1>1
  <2>3. (\A c \in {Clause({prev, v}, then) : v \in Vars(ActualOps)} : Holds(c, truth))
          <=> (prev \in truth /\ plan[Here] \in ActualOps => then \cap truth # {})
    BY <2>2, PerOperation, Zenon
  <2> QED BY <2>1, <2>3
<1>4. CASE EncodeDirectly /\ ~Fewer(ActualOps, EmptyOps)
  BY <1>1, <1>4, AllOperations DEF IfActual
<1> QED BY <1>2, <1>3, <1>4

-----------------------------------------------------------------------------
(* The invariant.                                                          *)

\* What every step to the next position does with the plans.
LEMMA NextPosition ==
  ASSUME IInv, pos < Len(layer), layer' = layer, cap' = cap, pos' = Here
  PROVE  /\ Len(layer) \in Nat
         /\ pos' \in 0..Len(layer)'
         /\ Plans' = Plans
         /\ CapIsReached'
         /\ \A plan \in Plans :
              /\ Canonical(plan)' = Canonical(plan)
              /\ \A truth : Fits(plan, truth)' <=> Fits(plan, truth)
              /\ Length(plan, pos) \in Nat
              /\ Length(plan, pos)' = Length(plan, Here)
              /\ Length(plan, Here) = Length(plan, pos) +
                   IF plan[Here] \in ActualOps THEN 1 ELSE 0
              /\ plan[Here] \in EmptyOps <=> plan[Here] \notin ActualOps
<1>1. Len(layer) \in Nat /\ Here \in DOMAIN layer /\ Here \in 0..Len(layer)
  BY LayersAssumption, LenProperties DEF IInv, Types, Here
<1>2. pos' \in 0..Len(layer)'
  BY <1>1
<1>3. Plans' = Plans
  BY DEF Plans
<1>4. \A plan, p : Length(plan, p)' = Length(plan, p)
  BY DEF Length
<1>5. CapIsReached'
  <2>1. PICK plan \in Plans : Length(plan, Len(layer)) = cap
    BY DEF IInv, CapIsReached
  <2>2. (\E q \in Plans : Length(q, Len(layer)) = cap)'
          <=> \E q \in Plans' : Cardinality({r \in 1..Len(layer) : q[r] \in layer[r].actual}) = cap
    BY DEF Length
  <2>3. Cardinality({r \in 1..Len(layer) : plan[r] \in layer[r].actual}) = cap
    BY <2>1 DEF Length
  <2> QED BY <1>3, <2>2, <2>3 DEF CapIsReached
<1>6. ASSUME NEW plan \in Plans
      PROVE  /\ Canonical(plan)' = Canonical(plan)
             /\ \A truth : Fits(plan, truth)' <=> Fits(plan, truth)
             /\ Length(plan, pos) \in Nat
             /\ Length(plan, pos)' = Length(plan, Here)
             /\ Length(plan, Here) = Length(plan, pos) +
                  IF plan[Here] \in ActualOps THEN 1 ELSE 0
             /\ plan[Here] \in EmptyOps <=> plan[Here] \notin ActualOps
  <2>1. Canonical(plan)' = Canonical(plan)
    BY DEF Canonical, Length
  <2>2. \A truth : Fits(plan, truth)' <=> Fits(plan, truth)
    BY DEF Fits
  <2>3. Length(plan, pos)' = Length(plan, Here)
    BY DEF Length
  <2>4. /\ Length(plan, pos) \in Nat
        /\ Length(plan, Here) = Length(plan, pos) +
             IF plan[Here] \in ActualOps THEN 1 ELSE 0
    BY LengthFacts DEF IInv, Types, Here, ActualOps
  <2>5. plan[Here] \in EmptyOps <=> plan[Here] \notin ActualOps
    BY <1>1, OneSort DEF IInv, EmptyOps, ActualOps
  <2> QED BY <2>1, <2>2, <2>3, <2>4, <2>5
<1> QED BY <1>1, <1>2, <1>3, <1>5, <1>6

LEMMA InitEstablishes == Init => IInv
<1> SUFFICES ASSUME Init PROVE IInv
  OBVIOUS
<1>0. Len(layer) \in Nat
  BY LayersAssumption, LenProperties DEF Init
<1>1. PICK best \in Plans : cap = Length(best, Len(layer))
  BY DEF Init
<1>2. cap \in Nat
  <2>1. IsFiniteSet(1..Len(layer))
    BY <1>0, FS_Interval
  <2>2. IsFiniteSet({q \in 1..Len(layer) : best[q] \in layer[q].actual})
    BY <2>1, FS_Subset
  <2> QED BY <1>1, <2>2, FS_CardinalityType DEF Length
<1>3. Types
  BY <1>0, <1>2 DEF Init, Types
<1>4. Window
  BY DEF Init, Window
<1>5. CapIsReached
  BY <1>1 DEF CapIsReached
<1>6. \A plan \in Plans : Length(plan, pos) = 0
  BY <1>0, <1>3, LengthFacts DEF Init
<1>7. Bounds
  BY <1>6 DEF Init, Bounds
<1>8. \A plan \in Plans : LengthVar(0, 0) \in Canonical(plan)
  BY <1>0, <1>3, <1>6, CanonicalVars DEF Init
<1>9. Meaning
  BY <1>6, <1>8 DEF Init, Meaning
<1>10. Sound
  <2>1. \A truth : Satisfied(truth) => LengthVar(0, 0) \in truth
    BY DEF Init, Satisfied, Clause
  <2> QED BY <1>6, <2>1 DEF Init, Sound
<1>11. Satisfiable
  <2>1. \A plan \in Plans : Satisfied(Canonical(plan))
    BY <1>8 DEF Init, Satisfied, Clause
  <2> QED BY <2>1 DEF Satisfiable
<1> QED BY <1>3, <1>4, <1>5, <1>7, <1>9, <1>10, <1>11 DEF IInv

\* An empty spot changes nothing.
LEMMA OnlyEmptyOpsPreserves == IInv /\ OnlyEmptyOps => IInv'
<1> SUFFICES ASSUME IInv, OnlyEmptyOps PROVE IInv'
  OBVIOUS
<1>1. /\ pos < Len(layer) /\ pos' = Here /\ ActualOps = {}
      /\ UNCHANGED <<layer, cap, min, max, lengthVars, clauses>>
  BY DEF OnlyEmptyOps
<1>2. /\ pos' \in 0..Len(layer)' /\ Plans' = Plans /\ CapIsReached'
      /\ \A plan \in Plans :
           /\ Canonical(plan)' = Canonical(plan)
           /\ \A truth : Fits(plan, truth)' <=> Fits(plan, truth)
           /\ Length(plan, pos)' = Length(plan, pos)
  BY <1>1, NextPosition
<1>3. \A truth : Satisfied(truth)' <=> Satisfied(truth)
  BY <1>1 DEF Satisfied
<1>4. Types' /\ Window'
  BY <1>1, <1>2 DEF IInv, Types, Window
<1>5. Bounds'
  BY <1>1, <1>2 DEF IInv, Bounds
<1>6. Meaning'
  BY <1>1, <1>2 DEF IInv, Meaning
<1>7. Sound'
  BY <1>1, <1>2, <1>3 DEF IInv, Sound
<1>8. Satisfiable'
  <2>1. \A plan \in Plans : Satisfied(Canonical(plan))' <=> Satisfied(Canonical(plan))
    BY <1>1, <1>2 DEF Satisfied
  <2> QED BY <1>1, <1>2, <2>1 DEF IInv, Satisfiable
<1> QED BY <1>2, <1>4, <1>5, <1>6, <1>7, <1>8 DEF IInv

\* A spot that is never empty shifts the meaning of all variables by one.
LEMMA NoEmptyOpsPreserves == IInv /\ NoEmptyOps => IInv'
<1> SUFFICES ASSUME IInv, NoEmptyOps PROVE IInv'
  OBVIOUS
<1>1. /\ pos < Len(layer) /\ pos' = Here /\ EmptyOps = {} /\ min' = min + 1
      /\ UNCHANGED <<layer, cap>>
  BY DEF NoEmptyOps
<1>2. /\ pos' \in 0..Len(layer)' /\ Plans' = Plans /\ CapIsReached'
      /\ \A plan \in Plans :
           /\ Canonical(plan)' = Canonical(plan)
           /\ \A truth : Fits(plan, truth)' <=> Fits(plan, truth)
           /\ Length(plan, pos) \in Nat
           /\ Length(plan, pos)' = Length(plan, pos) + 1
  BY <1>1, NextPosition
<1>3. /\ cap \in Nat /\ min \in Nat /\ max \in Nat /\ max <= cap /\ min <= max
      /\ Len(lengthVars) = max - min + 1
      /\ lengthVars \in Seq({LengthVar(p, n) : p \in Nat, n \in Nat})
  BY DEF IInv, Types, Window
<1>4. \A plan \in Plans : min' <= Length(plan, pos)'
  BY <1>1, <1>2, <1>3 DEF IInv, Bounds
<1>5. min' <= cap
  <2>1. PICK best \in Plans : Length(best, Len(layer)) = cap
    BY DEF IInv, CapIsReached
  <2>2. Length(best, pos)' = Length(best, Here)
    BY <1>1, NextPosition
  <2>3. Length(best, Here) <= cap
    <3>1. Here \in 0..Len(layer)
      BY <1>1, <1>2
    <3> QED BY <2>1, <3>1, LengthMonotone DEF IInv
  <2> QED BY <1>1, <1>2, <1>3, <1>4, <2>2, <2>3
<1>6. CASE Grows
  <2>1. max < cap /\ max' = max + 1 /\ UNCHANGED <<lengthVars, clauses>>
    BY <1>6 DEF NoEmptyOps, Grows
  <2>2. Types' /\ Window'
    BY <1>1, <1>2, <1>3, <2>1 DEF IInv, Types, Window
  <2>3. Bounds'
    BY <1>1, <1>2, <1>3, <1>4, <2>1 DEF IInv, Bounds
  <2>4. Meaning'
    BY <1>1, <1>2, <1>3, <2>1 DEF IInv, Meaning
  <2>5. \A truth : Satisfied(truth)' <=> Satisfied(truth)
    BY <2>1 DEF Satisfied
  <2>6. Sound'
    <3> SUFFICES ASSUME NEW plan \in Plans, NEW truth,
                        Fits(plan, truth), Satisfied(truth)
                 PROVE  /\ Length(plan, pos)' <= max'
                        /\ lengthVars'[Length(plan, pos)' - min' + 1] \in truth
      BY <1>2, <2>5 DEF Sound
    <3>1. /\ Length(plan, pos) <= max
          /\ lengthVars[Length(plan, pos) - min + 1] \in truth
      BY DEF IInv, Sound
    <3>2. Length(plan, pos)' - min' + 1 = Length(plan, pos) - min + 1
      BY <1>1, <1>2, <1>3
    <3> QED BY <1>2, <1>3, <2>1, <3>1, <3>2
  <2>7. Satisfiable'
    <3>1. \A plan \in Plans : Satisfied(Canonical(plan))' <=> Satisfied(Canonical(plan))
      BY <1>2, <2>1 DEF Satisfied
    <3> QED BY <1>2, <1>3, <2>1, <3>1 DEF IInv, Satisfiable
  <2> QED BY <1>2, <2>2, <2>3, <2>4, <2>6, <2>7 DEF IInv
<1>7. CASE ~Grows
  <2> DEFINE top == lengthVars[Len(lengthVars)]
  <2>1. /\ max = cap /\ max' = max
        /\ clauses' = clauses \cup {Clause({top}, {})} /\ lengthVars' = Cut
    <3>1. max = cap
      BY <1>3, <1>7 DEF Grows
    <3>2. /\ clauses' = clauses \cup {Clause({top}, {})} /\ lengthVars' = Cut
          /\ UNCHANGED max
      BY <1>7 DEF NoEmptyOps
    <3> QED BY <3>1, <3>2
  <2>2. /\ lengthVars' \in Seq({LengthVar(p, n) : p \in Nat, n \in Nat})
        /\ Len(lengthVars') = max' - min' + 1
        /\ \A i \in 1..(max' - min' + 1) : lengthVars'[i] = lengthVars[i]
    <3> DEFINE V == {LengthVar(p, n) : p \in Nat, n \in Nat}
    <3> HIDE DEF V
    <3>1. lengthVars \in Seq(V) /\ Len(lengthVars) - 1 \in Nat
      BY <1>1, <1>3 DEF V
    <3>2. Cut \in [1..(Len(lengthVars) - 1) -> V]
      BY <3>1, ElementOfSeq DEF Cut
    <3>3. Cut \in Seq(V) /\ Len(Cut) = Len(lengthVars) - 1
      BY <3>1, <3>2
    <3>4. Len(lengthVars) - 1 = max' - min' + 1
      BY <1>1, <1>3, <2>1
    <3>5. \A i \in 1..(Len(lengthVars) - 1) : Cut[i] = lengthVars[i]
      BY DEF Cut
    <3> QED BY <2>1, <3>3, <3>4, <3>5 DEF V
  <2>3. Types' /\ Window'
    BY <1>1, <1>2, <1>3, <1>5, <2>1, <2>2 DEF IInv, Types, Window
  <2>4. Bounds'
    BY <1>1, <1>2, <1>3, <1>4, <2>1 DEF IInv, Bounds
  <2>5. Meaning'
    <3> SUFFICES ASSUME NEW plan \in Plans, NEW i \in 1..(max' - min' + 1)
                 PROVE  lengthVars'[i] \in Canonical(plan)
                          <=> Length(plan, pos)' = min' + i - 1
      BY <1>2 DEF Meaning
    <3>1. i \in 1..(max - min + 1)
      BY <1>1, <1>3, <2>1
    <3>2. lengthVars[i] \in Canonical(plan) <=> Length(plan, pos) = min + i - 1
      BY <3>1 DEF IInv, Meaning
    <3>3. Length(plan, pos) \in Nat /\ Length(plan, pos)' = Length(plan, pos) + 1
      BY <1>2
    <3>4. Length(plan, pos) = min + i - 1 <=> Length(plan, pos)' = min' + i - 1
      BY <1>1, <1>3, <3>1, <3>3
    <3> QED BY <2>2, <3>2, <3>4
  <2>6. \A truth : Satisfied(truth)' <=> Satisfied(truth) /\ top \notin truth
    <3>1. \A truth : Holds(Clause({top}, {}), truth) <=> top \notin truth
      BY DEF Holds, Clause
    <3> QED BY <2>1, <3>1 DEF Satisfied, Holds
  <2>7. Sound'
    <3> SUFFICES ASSUME NEW plan \in Plans, NEW truth,
                        Fits(plan, truth), Satisfied(truth), top \notin truth
                 PROVE  /\ Length(plan, pos)' <= max'
                        /\ lengthVars'[Length(plan, pos)' - min' + 1] \in truth
      BY <1>2, <2>6 DEF Sound
    <3>1. /\ Length(plan, pos) <= max
          /\ lengthVars[Length(plan, pos) - min + 1] \in truth
      BY DEF IInv, Sound
    <3>2. Length(plan, pos) # max
      BY <1>3, <3>1
    <3>3. min <= Length(plan, pos)
      BY DEF IInv, Bounds
    <3>4. PICK n \in Nat : n = Length(plan, pos) /\ Length(plan, pos)' = n + 1
      BY <1>2
    <3>5. n < max /\ min <= n
      BY <1>3, <3>1, <3>2, <3>3, <3>4
    <3>6. n + 1 - min' + 1 = n - min + 1 /\ n - min + 1 \in 1..(max' - min' + 1)
      BY <1>1, <1>3, <2>1, <3>5
    <3>7. lengthVars'[n - min + 1] \in truth
      BY <2>2, <3>1, <3>4, <3>6
    <3>8. Length(plan, pos)' <= max'
      BY <1>3, <2>1, <3>4, <3>5
    <3>9. Length(plan, pos)' - min' + 1 = n - min + 1
      BY <1>1, <1>3, <3>4, <3>6
    <3> QED BY <3>7, <3>8, <3>9
  <2>8. Satisfiable'
    <3> SUFFICES ASSUME NEW plan \in Plans, Length(plan, pos)' <= max'
                 PROVE  Satisfied(Canonical(plan))'
      BY <1>2 DEF Satisfiable
    <3>1. Length(plan, pos) < max
      BY <1>2, <1>3, <2>1
    <3>2. Satisfied(Canonical(plan))
      BY <1>2, <1>3, <3>1 DEF IInv, Satisfiable
    <3>3. top \notin Canonical(plan)
      <4>1. max - min + 1 \in 1..(max - min + 1) /\ Len(lengthVars) = max - min + 1
        BY <1>3
      <4>2. top \in Canonical(plan) <=> Length(plan, pos) = min + (max - min + 1) - 1
        BY <4>1 DEF IInv, Meaning
      <4> QED BY <1>2, <1>3, <3>1, <4>2
    <3>4. Canonical(plan)' = Canonical(plan)
      BY <1>2
    <3>5. Holds(Clause({top}, {}), Canonical(plan))
      BY <3>3 DEF Holds, Clause
    <3> QED BY <2>1, <3>2, <3>4, <3>5 DEF Satisfied, Holds
  <2> QED BY <1>2, <2>3, <2>4, <2>5, <2>7, <2>8 DEF IInv
<1> QED BY <1>6, <1>7

\* What the clauses for one previous length say.
LEMMA PropagateSays ==
  ASSUME Types, pos < Len(layer), NEW plan \in Plans, NEW truth,
         Fits(plan, truth), Says(plan, truth), NEW i
  PROVE  (\A c \in Propagate(i) : Holds(c, truth)) <=>
           (lengthVars[i] \in truth =>
              IF i < Len(NewVars)
              THEN /\ plan[Here] \in EmptyOps => NewVars[i] \in truth
                   /\ plan[Here] \in ActualOps => NewVars[i+1] \in truth
              ELSE plan[Here] \notin ActualOps /\ NewVars[i] \in truth)
<1> DEFINE prev == lengthVars[i]
<1>1. CASE i < Len(NewVars)
  <2>1. Propagate(i) = IfEmpty(prev, {NewVars[i]}) \cup IfActual(prev, {NewVars[i+1]})
    BY <1>1 DEF Propagate
  <2>2. (\A c \in IfEmpty(prev, {NewVars[i]}) : Holds(c, truth))
          <=> (prev \in truth /\ plan[Here] \in EmptyOps => {NewVars[i]} \cap truth # {})
    BY IfEmptySays, Zenon
  <2>3. (\A c \in IfActual(prev, {NewVars[i+1]}) : Holds(c, truth))
          <=> (prev \in truth /\ plan[Here] \in ActualOps => {NewVars[i+1]} \cap truth # {})
    BY IfActualSays, Zenon
  <2>4. /\ {NewVars[i]} \cap truth # {} <=> NewVars[i] \in truth
        /\ {NewVars[i+1]} \cap truth # {} <=> NewVars[i+1] \in truth
    OBVIOUS
  <2> HIDE DEF prev
  <2>5. (\A c \in Propagate(i) : Holds(c, truth)) <=>
          /\ \A c \in IfEmpty(prev, {NewVars[i]}) : Holds(c, truth)
          /\ \A c \in IfActual(prev, {NewVars[i+1]}) : Holds(c, truth)
    BY <2>1
  <2> QED BY <1>1, <2>2, <2>3, <2>4, <2>5 DEF prev
<1>2. CASE ~(i < Len(NewVars))
  <2>1. Propagate(i) = IfActual(prev, {}) \cup {Clause({prev}, {NewVars[i]})}
    BY <1>2 DEF Propagate
  <2>2. (\A c \in IfActual(prev, {}) : Holds(c, truth))
          <=> (prev \in truth /\ plan[Here] \in ActualOps => {} \cap truth # {})
    BY IfActualSays, Zenon
  <2>3. Holds(Clause({prev}, {NewVars[i]}), truth)
          <=> (prev \in truth => NewVars[i] \in truth)
    BY DEF Holds, Clause
  <2> HIDE DEF prev
  <2>4. (\A c \in Propagate(i) : Holds(c, truth)) <=>
          /\ \A c \in IfActual(prev, {}) : Holds(c, truth)
          /\ Holds(Clause({prev}, {NewVars[i]}), truth)
    BY <2>1
  <2> QED BY <1>2, <2>2, <2>3, <2>4 DEF prev
<1> QED BY <1>1, <1>2

\* A spot that may be filled gets variables of its own.
LEMMA MixedPreserves == IInv /\ Mixed => IInv'
<1> SUFFICES ASSUME IInv, Mixed PROVE IInv'
  OBVIOUS
<1>1. /\ pos < Len(layer) /\ pos' = Here
      /\ UNCHANGED <<layer, cap, min>> /\ lengthVars' = NewVars
      /\ max' = IF Grows THEN max + 1 ELSE max
      /\ clauses' = clauses \cup SpotClauses \cup
                    UNION {Propagate(i) : i \in DOMAIN lengthVars}
  BY DEF Mixed
<1>2. /\ pos' \in 0..Len(layer)' /\ Plans' = Plans /\ CapIsReached'
      /\ \A plan \in Plans :
           /\ Canonical(plan)' = Canonical(plan)
           /\ \A truth : Fits(plan, truth)' <=> Fits(plan, truth)
           /\ Length(plan, pos) \in Nat
           /\ Length(plan, pos)' = Length(plan, Here)
           /\ Length(plan, Here) = Length(plan, pos) +
                IF plan[Here] \in ActualOps THEN 1 ELSE 0
           /\ plan[Here] \in EmptyOps <=> plan[Here] \notin ActualOps
  BY <1>1, NextPosition
<1>3. /\ cap \in Nat /\ min \in Nat /\ max \in Nat /\ max <= cap /\ min <= max
      /\ Len(lengthVars) = max - min + 1
      /\ lengthVars \in Seq({LengthVar(p, n) : p \in Nat, n \in Nat})
      /\ pos \in Nat /\ Here \in Nat /\ Here \in 0..Len(layer)
      /\ DOMAIN lengthVars = 1..(max - min + 1)
  <2>1. /\ cap \in Nat /\ min \in Nat /\ max \in Nat /\ max <= cap /\ min <= max
        /\ Len(lengthVars) = max - min + 1
        /\ lengthVars \in Seq({LengthVar(p, n) : p \in Nat, n \in Nat})
    BY DEF IInv, Types, Window
  <2>2. pos \in Nat /\ Here \in Nat /\ Here \in 0..Len(layer)
    BY <1>1, <1>2 DEF IInv, Types, Here
  <2>3. DOMAIN lengthVars = 1..(max - min + 1)
    BY <2>1, LenProperties
  <2> QED BY <2>1, <2>2, <2>3
<1>4. PICK top \in Nat : /\ max' = top /\ max <= top /\ top <= max + 1 /\ top <= cap
                         /\ top = max + 1 <=> max < cap
  <2>1. \/ max < cap /\ max' = max + 1
        \/ max = cap /\ max' = max
    BY <1>1, <1>3 DEF Grows
  <2> QED BY <1>3, <2>1
<1>5. NewVars = [i \in 1..(top - min + 1) |-> LengthVar(Here, min + i - 1)]
  BY <1>3, <1>4 DEF NewVars, Grows
<1>6. Window'
  <2> DEFINE V == {LengthVar(p, n) : p \in Nat, n \in Nat}
  <2>1. \A i \in 1..(top - min + 1) : LengthVar(Here, min + i - 1) \in V
    <3>1. \A i \in 1..(top - min + 1) : min + i - 1 \in Nat
      BY <1>3, <1>4
    <3> QED BY <1>3, <3>1
  <2> HIDE DEF V
  <2>2. top - min + 1 \in Nat
    BY <1>3, <1>4
  <2>3. NewVars \in [1..(top - min + 1) -> V]
    BY <1>5, <2>1
  <2>4. NewVars \in Seq(V) /\ Len(NewVars) = top - min + 1
    BY <2>2, <2>3
  <2> QED BY <1>1, <1>3, <1>4, <2>4 DEF Window, V
<1>7. Types'
  BY <1>1, <1>2, <1>3, <1>4 DEF IInv, Types
<1>8. Bounds'
  <2> SUFFICES ASSUME NEW plan \in Plans
               PROVE  /\ min' <= Length(plan, pos)'
                      /\ max' < cap' => Length(plan, pos)' <= max'
    BY <1>2 DEF Bounds
  <2>1. min <= Length(plan, pos) /\ (max < cap => Length(plan, pos) <= max)
    BY DEF IInv, Bounds
  <2>2. PICK n \in Nat : /\ n = Length(plan, pos)
                         /\ Length(plan, pos)' = n \/ Length(plan, pos)' = n + 1
    BY <1>2
  <2> QED BY <1>1, <1>3, <1>4, <2>1, <2>2
<1>9. Meaning'
  <2> SUFFICES ASSUME NEW plan \in Plans, NEW i \in 1..(top - min + 1)
               PROVE  NewVars[i] \in Canonical(plan)
                        <=> Length(plan, Here) = min + i - 1
    BY <1>1, <1>2, <1>4 DEF Meaning
  <2>1. NewVars[i] = LengthVar(Here, min + i - 1)
    BY <1>5
  <2>2. min + i - 1 \in Nat
    BY <1>3, <1>4
  <2> QED BY <1>3, <2>1, <2>2, CanonicalVars DEF IInv
<1>10. \A truth : (\A c \in clauses' : Holds(c, truth)) <=>
          /\ Satisfied(truth)
          /\ \A c \in SpotClauses : Holds(c, truth)
          /\ \A i \in 1..(max - min + 1) : \A c \in Propagate(i) : Holds(c, truth)
  <2>1. \A truth : Satisfied(truth) <=> \A c \in clauses : Holds(c, truth)
    BY DEF Satisfied, Holds
  <2>2. clauses' = clauses \cup SpotClauses \cup
                   UNION {Propagate(i) : i \in 1..(max - min + 1)}
    BY <1>1, <1>3
  <2> QED BY <2>1, <2>2
<1>11. Len(NewVars) = top - min + 1
  BY <1>1, <1>4, <1>6 DEF Window
<1>12. Sound'
  <2> SUFFICES ASSUME NEW plan \in Plans, NEW truth,
                      Fits(plan, truth), \A c \in clauses' : Holds(c, truth)
               PROVE  /\ Length(plan, Here) <= top
                      /\ NewVars[Length(plan, Here) - min + 1] \in truth
    BY <1>1, <1>2, <1>4 DEF Sound, Satisfied, Holds
  <2>1. PICK n \in Nat : n = Length(plan, pos)
    BY <1>2
  <2>2. /\ Length(plan, Here) = n + IF plan[Here] \in ActualOps THEN 1 ELSE 0
        /\ plan[Here] \in EmptyOps <=> plan[Here] \notin ActualOps
    BY <1>2, <2>1
  <2>3. min <= n /\ n <= max /\ lengthVars[n - min + 1] \in truth
    BY <1>10, <2>1 DEF IInv, Bounds, Sound
  <2> DEFINE i == n - min + 1
  <2>4. i \in 1..(max - min + 1)
    BY <1>3, <2>3
  <2>5. Says(plan, truth)
    BY <1>1, <1>10, SpotClausesSay DEF IInv
  <2>6. IF i < Len(NewVars)
        THEN /\ plan[Here] \in EmptyOps => NewVars[i] \in truth
             /\ plan[Here] \in ActualOps => NewVars[i+1] \in truth
        ELSE plan[Here] \notin ActualOps /\ NewVars[i] \in truth
    <3>1. \A c \in Propagate(i) : Holds(c, truth)
      BY <1>10, <2>4
    <3>2. lengthVars[i] \in truth
      BY <2>3
    <3> HIDE DEF i
    <3> QED BY <1>1, <2>5, <3>1, <3>2, PropagateSays DEF IInv
  <2>7. CASE plan[Here] \in ActualOps
    <3>1. Length(plan, Here) = n + 1 /\ Length(plan, Here) - min + 1 = i + 1
      BY <1>3, <2>2, <2>7
    <3>2. i < Len(NewVars) /\ NewVars[i+1] \in truth
      BY <2>6, <2>7
    <3>3. n + 1 <= top
      BY <1>3, <1>11, <3>2
    <3> QED BY <3>1, <3>2, <3>3
  <2>8. CASE plan[Here] \notin ActualOps
    <3>1. Length(plan, Here) = n /\ n <= top
      BY <1>3, <1>4, <2>2, <2>3, <2>8
    <3>2. NewVars[i] \in truth
      BY <2>2, <2>6, <2>8
    <3> QED BY <3>1, <3>2
  <2> QED BY <2>7, <2>8
<1>13. Satisfiable'
  <2> SUFFICES ASSUME NEW plan \in Plans, Length(plan, Here) <= top
               PROVE  Satisfied(Canonical(plan))'
    BY <1>2, <1>4 DEF Satisfiable
  <2> DEFINE truth == Canonical(plan)
  <2>1. PICK n \in Nat : n = Length(plan, pos)
    BY <1>2
  <2>2. /\ Length(plan, Here) = n + IF plan[Here] \in ActualOps THEN 1 ELSE 0
        /\ plan[Here] \in EmptyOps <=> plan[Here] \notin ActualOps
    BY <1>2, <2>1
  <2>3. n <= max
    <3>1. max < cap => n <= max
      BY <2>1 DEF IInv, Bounds
    <3> QED BY <1>3, <1>4, <2>2, <3>1
  <2>4. Satisfied(truth)
    BY <2>1, <2>3 DEF IInv, Satisfiable
  <2>5. Fits(plan, truth) /\ Says(plan, truth)
    <3>1. Here \in DOMAIN layer
      BY <1>1, LayersAssumption, LenProperties DEF IInv, Types, Here
    <3> QED BY <3>1, CanonicalVars DEF IInv, Says, EmptyOps
  <2>6. \A c \in SpotClauses : Holds(c, truth)
    BY <1>1, <2>5, SpotClausesSay DEF IInv
  <2>7. ASSUME NEW i \in 1..(max - min + 1)
        PROVE  \A c \in Propagate(i) : Holds(c, truth)
    <3>1. lengthVars[i] \in truth <=> n = min + i - 1
      BY <2>1 DEF IInv, Meaning
    <3>2. \A j \in 1..(top - min + 1) :
            NewVars[j] \in truth <=> Length(plan, Here) = min + j - 1
      BY <1>1, <1>2, <1>4, <1>9 DEF Meaning
    <3>3. i \in 1..(top - min + 1)
      BY <1>3, <1>4
    <3>4. lengthVars[i] \in truth =>
            IF i < Len(NewVars)
            THEN /\ plan[Here] \in EmptyOps => NewVars[i] \in truth
                 /\ plan[Here] \in ActualOps => NewVars[i+1] \in truth
            ELSE plan[Here] \notin ActualOps /\ NewVars[i] \in truth
      <4> SUFFICES ASSUME n = min + i - 1
                   PROVE  IF i < Len(NewVars)
                          THEN /\ plan[Here] \in EmptyOps => NewVars[i] \in truth
                               /\ plan[Here] \in ActualOps => NewVars[i+1] \in truth
                          ELSE plan[Here] \notin ActualOps /\ NewVars[i] \in truth
        BY <3>1
      <4>1. CASE i < Len(NewVars)
        <5>1. i+1 \in 1..(top - min + 1)
          BY <1>3, <1>11, <4>1
        <5>2. plan[Here] \in EmptyOps => Length(plan, Here) = min + i - 1
          BY <2>2
        <5>3. plan[Here] \in ActualOps => Length(plan, Here) = min + (i+1) - 1
          BY <1>3, <2>2
        <5> QED BY <3>2, <3>3, <4>1, <5>1, <5>2, <5>3
      <4>2. CASE ~(i < Len(NewVars))
        <5>1. n = top
          BY <1>3, <1>11, <3>3, <4>2
        <5>2. plan[Here] \notin ActualOps
          BY <2>2, <5>1
        <5>3. Length(plan, Here) = min + i - 1
          BY <2>2, <5>2
        <5> QED BY <3>2, <3>3, <4>2, <5>2, <5>3
      <4> QED BY <4>1, <4>2
    <3> HIDE DEF truth
    <3> QED BY <1>1, <2>5, <3>4, PropagateSays DEF IInv
  <2>8. Canonical(plan)' = truth
    BY <1>2
  <2>9. \A c \in clauses' : Holds(c, truth)
    BY <1>10, <2>4, <2>6, <2>7
  <2> HIDE DEF truth
  <2> QED BY <2>8, <2>9 DEF Satisfied, Holds
<1> QED BY <1>2, <1>6, <1>7, <1>8, <1>9, <1>12, <1>13 DEF IInv

LEMMA NextPreserves == IInv /\ [Next]_vars => IInv'
<1> SUFFICES ASSUME IInv, [Next]_vars PROVE IInv'
  OBVIOUS
<1>1. CASE NoEmptyOps
  BY <1>1, NoEmptyOpsPreserves
<1>2. CASE OnlyEmptyOps
  BY <1>2, OnlyEmptyOpsPreserves
<1>3. CASE Mixed
  BY <1>3, MixedPreserves
<1>4. CASE UNCHANGED vars
  <2>1. /\ UNCHANGED <<layer, cap, pos, min, max, lengthVars, clauses>>
        /\ \A plan, p : Length(plan, p)' = Length(plan, p)
        /\ Plans' = Plans
    BY <1>4 DEF vars, Length, Plans
  <2>2. \A plan : Canonical(plan)' = Canonical(plan)
    BY <2>1 DEF Canonical
  <2>3. \A plan, truth : Fits(plan, truth)' <=> Fits(plan, truth)
    BY <2>1 DEF Fits
  <2>4. Types' /\ Window' /\ Bounds'
    BY <2>1 DEF IInv, Types, Window, Bounds, Length
  <2>5. CapIsReached'
    BY <2>1 DEF IInv, CapIsReached, Length
  <2>6. Meaning'
    BY <2>1, <2>2 DEF IInv, Meaning, Length
  <2>7. Sound'
    BY <2>1, <2>3 DEF IInv, Sound, Satisfied, Length
  <2>8. Satisfiable'
    BY <2>1, <2>2 DEF IInv, Satisfiable, Satisfied, Length
  <2> QED BY <2>4, <2>5, <2>6, <2>7, <2>8 DEF IInv
<1> QED BY <1>1, <1>2, <1>3, <1>4 DEF Next, Complete

LEMMA Invariant == Spec => []IInv
BY InitEstablishes, NextPreserves, PTL DEF Spec

-----------------------------------------------------------------------------
(* The results.                                                            *)

\* The number of variables always agrees with the bounds, as the assertion
\* after the walk over the positions demands (plan_optimizer.cpp:152).
THEOREM WindowAlwaysFits == Spec => []WindowFits
<1>1. IInv => WindowFits
  BY DEF IInv, Window, WindowFits
<1> QED BY <1>1, Invariant, PTL

\* What the canonical assignment makes true of the clauses' variables is an
\* answer for every bound above the length of the plan.
LEMMA CanonicalAnswers ==
  ASSUME IInv, NEW plan \in Plans, NEW b \in min..(max + 1),
         Length(plan, pos) < b
  PROVE  Canonical(plan) \cap AuxVars \in Answers(plan, b)
<1> DEFINE aux   == Canonical(plan) \cap AuxVars
           truth == Assignment(plan, aux)
<1>1. /\ min \in Nat /\ max \in Nat /\ pos \in 0..Len(layer)
      /\ Length(plan, pos) \in Nat
  BY LengthFacts DEF IInv, Types
<1>2. Satisfied(Canonical(plan))
  BY <1>1 DEF IInv, Satisfiable
<1>3. truth \subseteq Canonical(plan)
  BY DEF Assignment, Canonical
<1>4. ASSUME NEW c \in clauses, NEW v \in c.if \cup c.then, v \in Canonical(plan)
      PROVE  v \in truth
  <2>1. CASE v[1] = "op"
    <3>1. v \in {OpVar(p, plan[p]) : p \in DOMAIN layer}
      BY <1>4, <2>1 DEF Canonical, OpVar, LengthVar, EmptyVar
    <3> QED BY <3>1 DEF Assignment
  <2>2. CASE v[1] # "op"
    <3>1. v \in AuxVars
      BY <2>2 DEF AuxVars
    <3> QED BY <1>4, <3>1 DEF Assignment
  <2> QED BY <2>1, <2>2
<1>5. Satisfied(truth)
  <2> SUFFICES ASSUME NEW c \in clauses, c.if \subseteq truth
               PROVE  c.then \cap truth # {}
    BY DEF Satisfied
  <2>1. c.then \cap Canonical(plan) # {}
    BY <1>2, <1>3 DEF Satisfied
  <2> QED BY <1>4, <2>1
<1>6. ASSUME NEW n \in b..max
      PROVE  lengthVars[n - min + 1] \notin Canonical(plan)
  <2>1. n - min + 1 \in 1..(max - min + 1) /\ min + (n - min + 1) - 1 = n
    BY <1>1
  <2>2. lengthVars[n - min + 1] \in Canonical(plan)
          <=> Length(plan, pos) = min + (n - min + 1) - 1
    BY <2>1 DEF IInv, Meaning
  <2> QED BY <1>1, <2>1, <2>2
<1> QED BY <1>5, <1>6 DEF Answers

\* No assignment is an answer for a bound that the plan does not stay below.
LEMMA AnswersAreShorter ==
  ASSUME IInv, NEW plan \in Plans, NEW b \in min..(max + 1),
         NEW aux \in Answers(plan, b)
  PROVE  Length(plan, pos) < b
<1> DEFINE truth == Assignment(plan, aux)
<1>1. /\ min \in Nat /\ max \in Nat /\ pos \in 0..Len(layer)
      /\ Length(plan, pos) \in Nat
  BY LengthFacts DEF IInv, Types
<1>2. /\ aux \subseteq AuxVars /\ Satisfied(truth)
      /\ \A n \in b..max : lengthVars[n - min + 1] \notin aux
  BY DEF Answers
<1>3. Fits(plan, truth)
  <2> SUFFICES ASSUME NEW p \in DOMAIN layer, NEW o \in Ops
               PROVE  OpVar(p, o) \in truth <=> plan[p] = o
    BY DEF Fits
  <2>1. OpVar(p, o) \notin aux
    BY <1>2 DEF AuxVars, OpVar
  <2> QED BY <2>1 DEF Assignment, OpVar
<1>4. /\ min <= Length(plan, pos) /\ Length(plan, pos) <= max
      /\ lengthVars[Length(plan, pos) - min + 1] \in truth
  BY <1>2, <1>3 DEF IInv, Bounds, Sound
<1>5. lengthVars[Length(plan, pos) - min + 1] \in aux
  <2> DEFINE V == {LengthVar(p, n) : p \in Nat, n \in Nat}
             i == Length(plan, pos) - min + 1
  <2>1. lengthVars \in Seq(V) /\ Len(lengthVars) = max - min + 1
    BY DEF IInv, Window
  <2>2. i \in 1..Len(lengthVars)
    BY <1>1, <1>4, <2>1
  <2> HIDE DEF V, i
  <2>3. lengthVars[i] \in V
    BY <2>1, <2>2, ElementOfSeq
  <2>4. \A p : lengthVars[i] # OpVar(p, plan[p])
    BY <2>3 DEF V, LengthVar, OpVar
  <2> QED BY <1>4, <2>4 DEF Assignment, i
<1>6. SUFFICES ASSUME ~(Length(plan, pos) < b) PROVE FALSE
  OBVIOUS
<1>7. Length(plan, pos) \in b..max
  BY <1>1, <1>4, <1>6
<1> QED BY <1>2, <1>5, <1>7

\* Whatever the layer, the encodings chosen for its positions and the length
\* of the best plan: a probed bound admits exactly the shorter plans.
THEOREM ProbesAreExact == Spec => []ProbeExact
<1>1. IInv => ProbeExact
  BY CanonicalAnswers, AnswersAreShorter DEF ProbeExact
<1> QED BY <1>1, Invariant, PTL

-----------------------------------------------------------------------------
(* The bounds are tight.                                                   *)

\* Every length between the bounds is the length of some plan.
Reached == \A n \in min..max : \E plan \in Plans : Length(plan, pos) = n

\* A plan may take any operation of the next position, with no effect on its
\* length so far.
LEMMA ChooseOperation ==
  ASSUME Types, pos < Len(layer), NEW plan \in Plans,
         NEW o \in EmptyOps \cup ActualOps
  PROVE  \E q \in Plans : Length(q, pos) = Length(plan, pos) /\ q[Here] = o
<1> DEFINE q == [plan EXCEPT ![Here] = o]
<1>0. Len(layer) \in Nat /\ DOMAIN layer = 1..Len(layer) /\ Here \in DOMAIN layer
  BY LayersAssumption, LenProperties DEF Types, Here
<1>1. plan \in [DOMAIN layer -> Ops]
      /\ \A p \in DOMAIN layer : plan[p] \in layer[p].empty \cup layer[p].actual
  BY DEF Plans
<1>2. o \in Ops
  BY <1>0, OneSort DEF EmptyOps, ActualOps
<1>3. q \in [DOMAIN layer -> Ops] /\ q[Here] = o
      /\ \A p \in DOMAIN layer : p # Here => q[p] = plan[p]
  BY <1>0, <1>1, <1>2
<1> HIDE DEF q
<1>4. q \in Plans
  BY <1>1, <1>3 DEF Plans, EmptyOps, ActualOps
<1>5. \A p \in 1..pos : q[p] = plan[p]
  BY <1>0, <1>3 DEF Here, Types
<1>6. {p \in 1..pos : q[p] \in layer[p].actual} = {p \in 1..pos : plan[p] \in layer[p].actual}
  BY <1>5
<1>7. Length(q, pos) = Length(plan, pos)
  BY <1>6 DEF Length
<1> QED BY <1>3, <1>4, <1>7

LEMMA ReachedInitially == Init => Reached
<1> SUFFICES ASSUME Init PROVE Reached
  OBVIOUS
<1>1. IInv
  BY InitEstablishes
<1>2. PICK plan \in Plans : TRUE
  BY DEF Init
<1>3. Len(layer) \in Nat /\ 0 \in 0..Len(layer)
  BY LayersAssumption, LenProperties DEF Init
<1>4. Length(plan, pos) = 0
  BY <1>1, <1>3, LengthFacts DEF IInv, Init
<1> QED BY <1>4 DEF Init, Reached

\* Where a spot may be empty, plans can keep their length; where it may be
\* filled, they can grow by one.
LEMMA ReachedPreserved == IInv /\ Reached /\ [Next]_vars => Reached'
<1> SUFFICES ASSUME IInv, Reached, [Next]_vars PROVE Reached'
  OBVIOUS
<1>0. min \in Nat /\ max \in Nat /\ cap \in Nat /\ max <= cap /\ Types
  BY DEF IInv, Types
<1>1. ASSUME pos < Len(layer), layer' = layer, cap' = cap, pos' = Here
      PROVE  /\ Plans' = Plans
             /\ \A n \in min..max :
                  /\ EmptyOps # {} => \E plan \in Plans : Length(plan, pos)' = n
                  /\ ActualOps # {} => \E plan \in Plans : Length(plan, pos)' = n + 1
  <2>1. /\ Plans' = Plans
        /\ \A plan \in Plans :
             /\ Length(plan, pos) \in Nat
             /\ Length(plan, pos)' = Length(plan, pos) +
                  IF plan[Here] \in ActualOps THEN 1 ELSE 0
             /\ plan[Here] \in EmptyOps <=> plan[Here] \notin ActualOps
    BY <1>1, NextPosition
  <2>2. ASSUME NEW n \in min..max, NEW o \in EmptyOps \cup ActualOps
        PROVE  \E q \in Plans : Length(q, pos) = n /\ q[Here] = o
    <3>1. PICK plan \in Plans : Length(plan, pos) = n
      BY DEF Reached
    <3> QED BY <1>0, <1>1, <3>1, ChooseOperation
  <2>3. ASSUME NEW n \in min..max, NEW o \in EmptyOps
        PROVE  \E plan \in Plans : Length(plan, pos)' = n
    <3>1. PICK q \in Plans : Length(q, pos) = n /\ q[Here] = o
      BY <2>2
    <3>2. Length(q, pos)' = n
      BY <2>1, <3>1
    <3> QED BY <3>2
  <2>4. ASSUME NEW n \in min..max, NEW o \in ActualOps
        PROVE  \E plan \in Plans : Length(plan, pos)' = n + 1
    <3>1. PICK q \in Plans : Length(q, pos) = n /\ q[Here] = o
      BY <2>2
    <3>2. Length(q, pos)' = n + 1
      BY <2>1, <3>1
    <3> QED BY <3>2
  <2> QED BY <2>1, <2>3, <2>4
<1>2. CASE NoEmptyOps
  <2>1. /\ pos < Len(layer) /\ pos' = Here /\ EmptyOps = {} /\ min' = min + 1
        /\ UNCHANGED <<layer, cap>> /\ max' \in {max, max + 1}
    BY <1>2 DEF NoEmptyOps
  <2>2. ActualOps # {}
    <3>1. PICK plan \in Plans : TRUE
      BY DEF IInv, CapIsReached
    <3>2. plan[Here] \in EmptyOps <=> plan[Here] \notin ActualOps
      BY <2>1, NextPosition
    <3> QED BY <2>1, <3>2
  <2>3. \A n \in min'..max' : n - 1 \in min..max /\ (n - 1) + 1 = n
    BY <1>0, <2>1
  <2>4. \A n \in min'..max' : \E plan \in Plans : Length(plan, pos)' = n
    <3> TAKE n \in min'..max'
    <3>1. \E plan \in Plans : Length(plan, pos)' = (n - 1) + 1
      BY <1>1, <2>1, <2>2, <2>3
    <3> QED BY <2>3, <3>1
  <2> QED BY <1>1, <2>1, <2>4 DEF Reached
<1>3. CASE OnlyEmptyOps
  <2>1. /\ pos < Len(layer) /\ pos' = Here /\ EmptyOps # {}
        /\ UNCHANGED <<layer, cap, min, max>>
    BY <1>3 DEF OnlyEmptyOps
  <2> QED BY <1>1, <2>1 DEF Reached
<1>4. CASE Mixed
  <2>1. /\ pos < Len(layer) /\ pos' = Here /\ EmptyOps # {} /\ ActualOps # {}
        /\ UNCHANGED <<layer, cap, min>> /\ max' \in {max, max + 1}
    BY <1>4 DEF Mixed
  <2>2. min <= max
    BY DEF IInv, Window
  <2>3. \A n \in min'..max' : n \in min..max \/ n = max + 1
    BY <1>0, <2>1
  <2>4. \A n \in min'..max' : \E plan \in Plans : Length(plan, pos)' = n
    <3> TAKE n \in min'..max'
    <3>1. CASE n \in min..max
      BY <1>1, <2>1, <3>1
    <3>2. CASE n = max + 1
      <4>1. max \in min..max
        BY <1>0, <2>2
      <4> QED BY <1>1, <2>1, <3>2, <4>1
    <3> QED BY <2>3, <3>1, <3>2
  <2> QED BY <1>1, <2>1, <2>4 DEF Reached
<1>5. CASE UNCHANGED vars
  <2>1. UNCHANGED <<layer, pos, min, max>> /\ Plans' = Plans
        /\ \A plan, p : Length(plan, p)' = Length(plan, p)
    BY <1>5 DEF vars, Plans, Length
  <2>2. \A plan : Length(plan, pos)' = Length(plan, pos)
    BY <2>1 DEF Length
  <2> QED BY <2>1, <2>2 DEF Reached
<1> QED BY <1>2, <1>3, <1>4, <1>5 DEF Next, Complete

\* The bounds the code logs as tightened, and from which it concludes that a
\* plan is globally optimal, are the least and, up to the length of the best
\* plan, the greatest length of any plan (plan_optimizer.cpp:150, :178).
THEOREM BoundsAreExact == Spec => []BoundsExact
<1>1. IInv /\ Reached => BoundsExact
  <2> SUFFICES ASSUME IInv, Reached PROVE BoundsExact
    OBVIOUS
  <2>1. min \in min..max /\ max \in min..max
    BY DEF IInv, Types, Window
  <2>2. \A n \in {min, max} : \E plan \in Plans : n = Length(plan, pos)
    BY <2>1 DEF Reached
  <2>3. \A plan \in Plans :
          min <= Length(plan, pos) /\ (max < cap => Length(plan, pos) <= max)
    BY DEF IInv, Bounds
  <2> QED BY <2>2, <2>3 DEF BoundsExact
<1> QED BY <1>1, Invariant, ReachedInitially, ReachedPreserved, PTL DEF Spec

-----------------------------------------------------------------------------
(* Types: only variables that have been made are mentioned.                *)

\* A counter over pos positions reaches pos at most.
Made ==
  /\ max <= pos
  /\ lengthVars \in Seq(LengthVars)
  /\ clauses \subseteq [if : SUBSET VarsMade, then : SUBSET VarsMade]

\* Variables are never given up.
LEMMA VarsAreKept ==
  ASSUME Types, layer' = layer, cap' = cap, pos' = pos \/ pos' = Here
  PROVE  /\ MixedSpots \subseteq MixedSpots'
         /\ LengthVars \subseteq LengthVars'
         /\ VarsMade \subseteq VarsMade'
<1>1. pos \in Nat /\ 1..pos \subseteq 1..pos'
  BY LayersAssumption, LenProperties DEF Types, Here
<1>2. MixedSpots \subseteq MixedSpots'
  BY <1>1 DEF MixedSpots
<1>3. HelpedSpots \subseteq HelpedSpots'
  BY <1>2 DEF HelpedSpots
<1>4. OpVars \subseteq OpVars'
  BY <1>2 DEF OpVars
<1>5. LengthVars \subseteq LengthVars'
  BY <1>2 DEF LengthVars
<1>6. HelperVars \subseteq HelperVars'
  BY <1>3 DEF HelperVars
<1> QED BY <1>2, <1>4, <1>5, <1>6 DEF VarsMade

\* So what mentions only variables that have been made keeps doing so.
LEMMA StaysMade ==
  ASSUME Types, layer' = layer, cap' = cap, pos' = pos \/ pos' = Here, Made
  PROVE  /\ lengthVars \in Seq(LengthVars')
         /\ clauses \subseteq [if : SUBSET VarsMade', then : SUBSET VarsMade']
<1>1. LengthVars \subseteq LengthVars' /\ VarsMade \subseteq VarsMade'
  BY VarsAreKept
<1>2. ASSUME NEW S, NEW T, S \subseteq T
      PROVE  /\ \A s \in Seq(S) : s \in Seq(T)
             /\ [if : SUBSET S, then : SUBSET S] \subseteq [if : SUBSET T, then : SUBSET T]
  BY <1>2
<1> QED BY <1>1, <1>2 DEF Made

\* The clauses of a spot over variables V that have its operations and, where
\* they are not encoded directly, its helper variable.
SpotVarsIn(V) ==
  /\ Vars(EmptyOps) \subseteq V /\ Vars(ActualOps) \subseteq V
  /\ ~EncodeDirectly => EmptyVar(Here) \in V

LEMMA ClauseOver ==
  ASSUME NEW V, NEW if \in SUBSET V, NEW th \in SUBSET V
  PROVE  Clause(if, th) \in [if : SUBSET V, then : SUBSET V]
BY DEF Clause

LEMMA SpotClausesOver ==
  ASSUME NEW V, SpotVarsIn(V), NEW prev \in V, NEW th \in SUBSET V
  PROVE  /\ SpotClauses \subseteq [if : SUBSET V, then : SUBSET V]
         /\ IfEmpty(prev, th) \subseteq [if : SUBSET V, then : SUBSET V]
         /\ IfActual(prev, th) \subseteq [if : SUBSET V, then : SUBSET V]
<1> DEFINE R == [if : SUBSET V, then : SUBSET V]
           E == Vars(EmptyOps)
           A == Vars(ActualOps)
<1>1. E \subseteq V /\ A \subseteq V /\ (~EncodeDirectly => EmptyVar(Here) \in V)
  BY DEF SpotVarsIn
<1>2. \A if, then \in SUBSET V : Clause(if, then) \in R
  BY ClauseOver
<1> HIDE DEF R, E, A
<1>3. SpotClauses \subseteq R
  <2>1. ASSUME NEW c \in SpotClauses PROVE c \in R
    <3>1. ~EncodeDirectly /\ \/ \E v \in E : c = Clause({v}, {EmptyVar(Here)})
                             \/ \E v \in A : c = Clause({v, EmptyVar(Here)}, {})
      BY DEF SpotClauses, E, A
    <3> QED BY <1>1, <1>2, <3>1
  <2> QED BY <2>1
<1>4. IfEmpty(prev, th) \subseteq R
  <2>1. ASSUME NEW c \in IfEmpty(prev, th) PROVE c \in R
    <3>1. \/ ~EncodeDirectly /\ c = Clause({prev, EmptyVar(Here)}, th)
          \/ \E v \in E : c = Clause({prev, v}, th)
          \/ c = Clause({prev}, th \cup A)
      BY DEF IfEmpty, E, A
    <3> QED BY <1>1, <1>2, <3>1
  <2> QED BY <2>1
<1>5. IfActual(prev, th) \subseteq R
  <2>1. ASSUME NEW c \in IfActual(prev, th) PROVE c \in R
    <3>1. \/ ~EncodeDirectly /\ c = Clause({prev}, th \cup {EmptyVar(Here)})
          \/ \E v \in A : c = Clause({prev, v}, th)
          \/ c = Clause({prev}, th \cup E)
      BY DEF IfActual, E, A
    <3> QED BY <1>1, <1>2, <3>1
  <2> QED BY <2>1
<1> QED BY <1>3, <1>4, <1>5 DEF R

LEMMA PropagateOver ==
  ASSUME NEW V, SpotVarsIn(V), Window, min \in Nat, max \in Nat,
         lengthVars \in Seq(V), NewVars \in Seq(V), NEW i \in DOMAIN lengthVars
  PROVE  Propagate(i) \subseteq [if : SUBSET V, then : SUBSET V]
<1>1. i \in 1..Len(lengthVars) /\ Len(lengthVars) \in Nat
  BY LenProperties
<1>2. Len(NewVars) \in Nat /\ Len(lengthVars) <= Len(NewVars)
  BY <1>1 DEF NewVars
<1>3. \A j \in 1..Len(NewVars) : NewVars[j] \in V
  BY ElementOfSeq
<1>4. lengthVars[i] \in V
  BY <1>1, ElementOfSeq
<1> HIDE DEF NewVars
<1>5. CASE i < Len(NewVars)
  <2>1. NewVars[i] \in V /\ NewVars[i + 1] \in V
    BY <1>1, <1>2, <1>3, <1>5
  <2>2. {NewVars[i]} \in SUBSET V /\ {NewVars[i + 1]} \in SUBSET V
    BY <2>1
  <2>3. Propagate(i) = IfEmpty(lengthVars[i], {NewVars[i]}) \cup IfActual(lengthVars[i], {NewVars[i + 1]})
    BY <1>5, Zenon DEF Propagate
  <2> QED BY <1>4, <2>2, <2>3, SpotClausesOver
<1>6. CASE ~ (i < Len(NewVars))
  <2>1. NewVars[i] \in V
    BY <1>1, <1>2, <1>3
  <2>2. {NewVars[i]} \in SUBSET V /\ {lengthVars[i]} \in SUBSET V /\ {} \in SUBSET V
    BY <1>4, <2>1
  <2>3. Propagate(i) = IfActual(lengthVars[i], {}) \cup {Clause({lengthVars[i]}, {NewVars[i]})}
    BY <1>6, Zenon DEF Propagate
  <2> QED BY <1>4, <2>2, <2>3, SpotClausesOver, ClauseOver
<1> QED BY <1>5, <1>6

\* At a spot that may be empty or not, its variables are made.
LEMMA MixedMakesVars ==
  ASSUME Types, Window, Mixed, max <= pos
  PROVE  /\ max' <= Here /\ max' <= cap
         /\ SpotVarsIn(VarsMade')
         /\ NewVars \in Seq(LengthVars')
<1>1. pos \in Nat /\ Here \in Nat /\ Here = pos + 1 /\ max \in Nat /\ min \in Nat /\ cap \in Nat
  BY LayersAssumption, LenProperties DEF Types, Here
<1>2. layer' = layer /\ cap' = cap /\ pos' = Here
  BY DEF Mixed
<1>3. max' = (IF Grows THEN max + 1 ELSE max) /\ max' \in Nat /\ max' <= Here /\ max' <= cap
  BY <1>1 DEF Mixed, Grows, Types
<1>4. Here \in MixedSpots'
  BY <1>1, <1>2 DEF Mixed, MixedSpots, EmptyOps, ActualOps
<1>5. SpotVarsIn(VarsMade')
  <2>1. Vars(EmptyOps) \subseteq OpVars' /\ Vars(ActualOps) \subseteq OpVars'
    BY <1>2, <1>4 DEF Vars, OpVars, EmptyOps, ActualOps
  <2>2. ~EncodeDirectly => EmptyVar(Here) \in HelperVars'
    BY <1>2, <1>4 DEF EncodeDirectly, HelperVars, HelpedSpots, EmptyOps, ActualOps
  <2> QED BY <2>1, <2>2 DEF SpotVarsIn, VarsMade
<1>6. \A n \in 0..max' : LengthVar(Here, n) \in LengthVars'
  <2> SUFFICES ASSUME NEW n \in 0..max' PROVE LengthVar(Here, n) \in LengthVars'
    OBVIOUS
  <2>1. n \in {k \in 0..Here : k <= cap}
    BY <1>1, <1>3
  <2> QED BY <1>2, <1>4, <2>1 DEF LengthVars
<1>7. NewVars \in Seq(LengthVars')
  <2> DEFINE k == Len(lengthVars) + (IF Grows THEN 1 ELSE 0)
  <2>1. k \in Nat /\ k = max' - min + 1
    BY <1>1, <1>3 DEF Window
  <2>2. NewVars = [i \in 1..k |-> LengthVar(Here, min + i - 1)]
    BY DEF NewVars
  <2> HIDE DEF k
  <2>3. \A i \in 1..k : min + i - 1 \in 0..max'
    BY <1>1, <1>3, <2>1
  <2>4. \A i \in 1..k : LengthVar(Here, min + i - 1) \in LengthVars'
    BY <1>6, <2>3
  <2> QED BY <2>1, <2>2, <2>4
<1> QED BY <1>3, <1>5, <1>7

LEMMA MadeInitially == Init => Made
<1> SUFFICES ASSUME Init PROVE Made
  OBVIOUS
<1>1. IInv
  BY InitEstablishes
<1>2. cap \in Nat /\ pos = 0 /\ max = 0
  BY <1>1 DEF IInv, Types, Init
<1>3. LengthVar(0, 0) \in LengthVars
  BY <1>2 DEF LengthVars
<1>4. clauses = {Clause({}, {LengthVar(0, 0)})} /\ lengthVars = <<LengthVar(0, 0)>>
  BY DEF Init
<1>5. {} \in SUBSET VarsMade /\ {LengthVar(0, 0)} \in SUBSET VarsMade
  BY <1>3 DEF VarsMade
<1>6. Clause({}, {LengthVar(0, 0)}) \in [if : SUBSET VarsMade, then : SUBSET VarsMade]
  BY <1>5 DEF Clause
<1>7. lengthVars \in Seq(LengthVars)
  BY <1>3, <1>4
<1> QED BY <1>2, <1>4, <1>6, <1>7 DEF Made

LEMMA MadePreserved == IInv /\ Made /\ [Next]_vars => Made'
<1> SUFFICES ASSUME IInv, Made, [Next]_vars PROVE Made'
  OBVIOUS
<1>1. /\ Types /\ Window /\ pos \in Nat /\ Here = pos + 1 /\ max \in Nat /\ min \in Nat /\ max <= pos
      /\ lengthVars \in Seq(LengthVars)
  BY LayersAssumption, LenProperties DEF IInv, Types, Here, Made
<1>2. CASE NoEmptyOps
  <2>1. layer' = layer /\ cap' = cap /\ pos' = Here
    BY <1>2 DEF NoEmptyOps
  <2>2. lengthVars \in Seq(LengthVars') /\ clauses \subseteq [if : SUBSET VarsMade', then : SUBSET VarsMade']
    BY <1>1, <2>1, StaysMade
  <2>3. CASE Grows
    BY <1>1, <1>2, <2>1, <2>2, <2>3 DEF NoEmptyOps, Made
  <2>4. CASE ~Grows
    <3>1. /\ max' = max /\ lengthVars' = Cut
          /\ clauses' = clauses \cup {Clause({lengthVars[Len(lengthVars)]}, {})}
      BY <1>2, <2>4 DEF NoEmptyOps
    <3>2. Len(lengthVars) \in Nat /\ Len(lengthVars) >= 1
      BY <1>1 DEF Window
    <3>3. \A i \in 1..Len(lengthVars) : lengthVars[i] \in LengthVars'
      BY <2>2, ElementOfSeq
    <3>4. Cut \in Seq(LengthVars')
      BY <3>2, <3>3 DEF Cut
    <3>5. {lengthVars[Len(lengthVars)]} \in SUBSET (VarsMade') /\ {} \in SUBSET (VarsMade')
      BY <3>2, <3>3 DEF VarsMade
    <3>6. Clause({lengthVars[Len(lengthVars)]}, {}) \in [if : SUBSET VarsMade', then : SUBSET VarsMade']
      BY <3>5, ClauseOver
    <3>7. clauses' \subseteq [if : SUBSET VarsMade', then : SUBSET VarsMade']
      <4> DEFINE R == [if : SUBSET VarsMade', then : SUBSET VarsMade']
      <4> HIDE DEF R
      <4>1. clauses \subseteq R /\ Clause({lengthVars[Len(lengthVars)]}, {}) \in R
        BY <2>2, <3>6 DEF R
      <4>2. clauses' \subseteq R
        BY <3>1, <4>1
      <4> QED BY <4>2 DEF R
    <3>8. max' <= pos'
      BY <1>1, <2>1, <3>1
    <3>9. lengthVars' \in Seq(LengthVars')
      BY <3>1, <3>4, Zenon
    <3> QED BY <3>7, <3>8, <3>9, Zenon DEF Made
  <2> QED BY <2>3, <2>4
<1>3. CASE OnlyEmptyOps
  <2>1. layer' = layer /\ cap' = cap /\ pos' = Here /\ max' = max /\ lengthVars' = lengthVars /\ clauses' = clauses
    BY <1>3 DEF OnlyEmptyOps
  <2>2. lengthVars \in Seq(LengthVars') /\ clauses \subseteq [if : SUBSET VarsMade', then : SUBSET VarsMade']
    BY <1>1, <2>1, StaysMade
  <2> QED BY <1>1, <2>1, <2>2 DEF Made
<1>4. CASE Mixed
  <2>1. /\ layer' = layer /\ cap' = cap /\ pos' = Here /\ lengthVars' = NewVars
        /\ clauses' = clauses \cup SpotClauses \cup UNION {Propagate(i) : i \in DOMAIN lengthVars}
    BY <1>4 DEF Mixed
  <2>2. lengthVars \in Seq(LengthVars') /\ clauses \subseteq [if : SUBSET VarsMade', then : SUBSET VarsMade']
    BY <1>1, <2>1, StaysMade
  <2>3. max' <= Here /\ SpotVarsIn(VarsMade') /\ NewVars \in Seq(LengthVars')
    BY <1>1, <1>4, MixedMakesVars
  <2>4. lengthVars \in Seq(VarsMade') /\ NewVars \in Seq(VarsMade')
    <3>1. ASSUME NEW S, NEW T, S \subseteq T, NEW s \in Seq(S) PROVE s \in Seq(T)
      BY <3>1
    <3>2. LengthVars' \subseteq VarsMade'
      BY DEF VarsMade
    <3> QED BY <2>2, <2>3, <3>1, <3>2
  <2>5. lengthVars[1] \in VarsMade' /\ {} \in SUBSET (VarsMade')
    <3>1. Len(lengthVars) \in Nat /\ Len(lengthVars) >= 1
      BY <1>1 DEF Window
    <3> QED BY <2>4, <3>1, ElementOfSeq
  <2>6. SpotClauses \subseteq [if : SUBSET VarsMade', then : SUBSET VarsMade']
    BY <2>3, <2>5, SpotClausesOver
  <2>7. ASSUME NEW i \in DOMAIN lengthVars
        PROVE  Propagate(i) \subseteq [if : SUBSET VarsMade', then : SUBSET VarsMade']
    BY <1>1, <2>3, <2>4, PropagateOver
  <2>8. clauses' \subseteq [if : SUBSET VarsMade', then : SUBSET VarsMade']
    BY <2>1, <2>2, <2>6, <2>7
  <2> QED BY <2>1, <2>3, <2>8 DEF Made
<1>5. CASE UNCHANGED vars
  <2>1. layer' = layer /\ cap' = cap /\ pos' = pos /\ max' = max /\ lengthVars' = lengthVars /\ clauses' = clauses
    BY <1>5 DEF vars
  <2>2. lengthVars \in Seq(LengthVars') /\ clauses \subseteq [if : SUBSET VarsMade', then : SUBSET VarsMade']
    BY <1>1, <2>1, StaysMade
  <2> QED BY <1>1, <2>1, <2>2 DEF Made
<1> QED BY <1>2, <1>3, <1>4, <1>5 DEF Next, Complete

\* All variables keep their types: the upper bound never passes the length of
\* the best plan, and the counter and the clauses mention only operations of
\* positions that were passed and variables that were made there, the helper
\* variable (emptySpotVar) only where there is one.
THEOREM TypesCorrect == Spec => []TypeOK
<1>1. IInv /\ Made => TypeOK
  BY DEF IInv, Types, Made, TypeOK
<1> QED BY <1>1, Invariant, MadeInitially, MadePreserved, PTL DEF Spec
=============================================================================
