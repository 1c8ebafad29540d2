------------------------- MODULE PlanLengthCounter -------------------------
(***************************************************************************)
(* The plan length counter of PlanOptimizer::optimizePlan: walking over    *)
(* the positions of the final layer, it writes clauses which make one      *)
(* variable true for the number of actual actions so far.  findMinBySat    *)
(* asks for a plan shorter than b by forbidding the variables of all       *)
(* lengths from b on.                                                      *)
(*                                                                         *)
(* A plan is one operation at every position.  Operations of the same      *)
(* position exclude each other by other clauses of the encoding.           *)
(* Reductions with subtasks are not operations here: the layer is assumed  *)
(* to be primitive whenever the counter is used.                           *)
(***************************************************************************)
EXTENDS Integers, Sequences, FiniteSets

CONSTANTS
  Ops,         \* the names of operations
  Layers,      \* the layers a counter is built for
  DirectLimit  \* up to so many operations need no helper variable (3)

ASSUME LayersAssumption ==
  /\ DirectLimit \in Nat
  /\ Layers \subseteq Seq([empty : SUBSET Ops, actual : SUBSET Ops])
  /\ \A l \in Layers : \A p \in DOMAIN l : l[p].empty \cap l[p].actual = {}

VARIABLES
  layer,      \* the empty and the actual operations of each position
  cap,        \* currentPlanLength, the length of the best plan so far
  pos,        \* the number of positions done
  min, max,   \* minPlanLength, maxPlanLength
  lengthVars, \* planLengthVars, from length min to length max
  clauses     \* those added so far

vars == <<layer, cap, pos, min, max, lengthVars, clauses>>

-----------------------------------------------------------------------------
(* Variables and clauses of the formula.                                   *)

OpVar(p, o)     == <<"op", p, o>>
LengthVar(p, n) == <<"length", p, n>>  \* n actual actions at positions 1..p
EmptyVar(p)     == <<"empty", p>>      \* emptySpotVar

\* IF all of these variables are true THEN one of those is.
Clause(if, then) == [if |-> if, then |-> then]

\* The plans of the layer: an operation for each position.
Plans == {plan \in [DOMAIN layer -> Ops] :
            \A p \in DOMAIN layer : plan[p] \in layer[p].empty \cup layer[p].actual}

\* PlanOptimizer::getPlanLength, of the first p positions
Length(plan, p) == Cardinality({q \in 1..p : plan[q] \in layer[q].actual})

-----------------------------------------------------------------------------
(* The counter.                                                            *)

Here        == pos + 1
EmptyOps    == layer[Here].empty
ActualOps   == layer[Here].actual
Vars(names) == {OpVar(Here, o) : o \in names}

Grows == max < cap

Fewer(S, T)    == Cardinality(S) < Cardinality(T)
EncodeDirectly == \/ Cardinality(EmptyOps) <= DirectLimit
                  \/ Cardinality(ActualOps) <= DirectLimit

\* Faulty: the helper variable is used at spots that have none, too.
IfEmptyHelped(prev, then) == {Clause({prev, EmptyVar(Here)}, then)}

\* IF the counter shows prev AND the spot is empty THEN then.
IfEmpty(prev, then) ==
  IF ~EncodeDirectly THEN {Clause({prev, EmptyVar(Here)}, then)}
  ELSE IF Fewer(EmptyOps, ActualOps)
       THEN {Clause({prev, v}, then) : v \in Vars(EmptyOps)}
       ELSE {Clause({prev}, then \cup Vars(ActualOps))}

\* IF the counter shows prev AND the spot is not empty THEN then.
IfActual(prev, then) ==
  IF ~EncodeDirectly THEN {Clause({prev}, then \cup {EmptyVar(Here)})}
  ELSE IF Fewer(ActualOps, EmptyOps)
       THEN {Clause({prev, v}, then) : v \in Vars(ActualOps)}
       ELSE {Clause({prev}, then \cup Vars(EmptyOps))}

\* What makes the helper variable say whether the spot is empty.
SpotClauses ==
  IF EncodeDirectly THEN {}
  ELSE {Clause({v}, {EmptyVar(Here)}) : v \in Vars(EmptyOps)} \cup
       {Clause({v, EmptyVar(Here)}, {}) : v \in Vars(ActualOps)}

NewVars == [i \in 1..(Len(lengthVars) + (IF Grows THEN 1 ELSE 0)) |->
              LengthVar(Here, min + i - 1)]

\* Faulty: the largest length admits any operation.
PropagateUnlimited(i) ==
  IF i < Len(NewVars)
  THEN IfEmpty(lengthVars[i], {NewVars[i]}) \cup
       IfActual(lengthVars[i], {NewVars[i+1]})
  ELSE {Clause({lengthVars[i]}, {NewVars[i]})}

\* Once the limit is hit, the largest length admits only an empty spot.
Propagate(i) ==
  IF i < Len(NewVars)
  THEN IfEmpty(lengthVars[i], {NewVars[i]}) \cup
       IfActual(lengthVars[i], {NewVars[i+1]})
  ELSE IfActual(lengthVars[i], {}) \cup
       {Clause({lengthVars[i]}, {NewVars[i]})}

\* Faulty: the variable is kept.
Uncut == lengthVars

\* The counter without the variable of the largest length.
Cut == [i \in 1..(Len(lengthVars) - 1) |-> lengthVars[i]]

\* Only actual actions: the variables now stand for one more.  If that is
\* one too many for the last of them, it is forbidden and dropped.
NoEmptyOps ==
  /\ pos < Len(layer)
  /\ EmptyOps = {}
  /\ min' = min + 1
  /\ IF Grows
     THEN /\ max' = max + 1
          /\ UNCHANGED <<lengthVars, clauses>>
     ELSE /\ clauses' = clauses \cup {Clause({lengthVars[Len(lengthVars)]}, {})}
          /\ lengthVars' = Cut
          /\ UNCHANGED max
  /\ pos' = Here
  /\ UNCHANGED <<layer, cap>>

\* Faulty: an empty spot is taken for one that may be filled.
OnlyEmptyOpsRaise ==
  /\ pos < Len(layer)
  /\ EmptyOps # {}
  /\ ActualOps = {}
  /\ pos' = Here
  /\ max' = IF Grows THEN max + 1 ELSE max
  /\ UNCHANGED <<layer, cap, min, lengthVars, clauses>>

OnlyEmptyOps ==
  /\ pos < Len(layer)
  /\ EmptyOps # {}
  /\ ActualOps = {}
  /\ pos' = Here
  /\ UNCHANGED <<layer, cap, min, max, lengthVars, clauses>>

Mixed ==
  /\ pos < Len(layer)
  /\ EmptyOps # {}
  /\ ActualOps # {}
  /\ max' = IF Grows THEN max + 1 ELSE max
  /\ clauses' = clauses \cup SpotClauses \cup
                UNION {Propagate(i) : i \in DOMAIN lengthVars}
  /\ lengthVars' = NewVars
  /\ pos' = Here
  /\ UNCHANGED <<layer, cap, min>>

Init ==
  /\ layer \in Layers
  /\ pos = 0
  /\ min = 0
  /\ max = 0
  /\ lengthVars = <<LengthVar(0, 0)>>
  /\ clauses = {Clause({}, {LengthVar(0, 0)})}
  /\ cap \in {Length(plan, Len(layer)) : plan \in Plans}

\* The counter is complete; findMinBySat takes over (SearchControl).
Complete == pos = Len(layer) /\ UNCHANGED vars

Next == NoEmptyOps \/ OnlyEmptyOps \/ Mixed \/ Complete
Spec == Init /\ [][Next]_vars

-----------------------------------------------------------------------------
(* Correctness.                                                            *)

\* The variables that exist when the first pos positions are done: counter
\* variables are made at the spots that may be empty or not, for lengths no
\* plan exceeds, and a helper variable only where the spot is not encoded
\* directly (emptySpotVar is 0, no variable, elsewhere).
MixedSpots == {p \in 1..pos : layer[p].empty # {} /\ layer[p].actual # {}}
HelpedSpots ==
  {p \in MixedSpots : ~ \/ Cardinality(layer[p].empty) <= DirectLimit
                        \/ Cardinality(layer[p].actual) <= DirectLimit}
OpVars      == UNION {{OpVar(p, o) : o \in layer[p].empty \cup layer[p].actual} :
                        p \in MixedSpots}
LengthVars  == UNION {{LengthVar(p, n) : n \in {k \in 0..p : k <= cap}} :
                        p \in {0} \cup MixedSpots}
HelperVars  == {EmptyVar(p) : p \in HelpedSpots}
VarsMade    == OpVars \cup LengthVars \cup HelperVars

\* Types; the bound never exceeds the length of the best plan, and clauses and
\* counter mention only variables that have been made.
TypeOK ==
  /\ layer \in Layers
  /\ pos \in 0..Len(layer)
  /\ cap \in Nat
  /\ min \in Nat
  /\ max \in 0..cap
  /\ lengthVars \in Seq(LengthVars)
  /\ clauses \subseteq [if : SUBSET VarsMade, then : SUBSET VarsMade]

\* The assertion at the end of the walk (plan_optimizer.cpp:152), at every
\* position: there is one variable for each length between the bounds, at
\* least one.  varMap indexes the variables by this difference.
WindowFits ==
  /\ Len(lengthVars) = max - min + 1
  /\ min <= max

\* The bounds logged as tightened (line 150), one of which ends the search
\* with the claim that the plan is globally optimal (line 178): every plan
\* has at least min actions, some has no more, and none has more than max
\* unless max is the length of the best plan.
BoundsExact ==
  LET lengths == {Length(plan, pos) : plan \in Plans}
  IN /\ min \in lengths
     /\ \A n \in lengths : min <= n /\ (max < cap => n <= max)
     /\ max \in lengths

\* The variables of the clauses beside those of operations.
AuxVars == {v \in UNION {c.if \cup c.then : c \in clauses} : v[1] # "op"}

Assignment(plan, aux) == {OpVar(p, plan[p]) : p \in DOMAIN layer} \cup aux

Satisfied(truth) ==
  \A c \in clauses : c.if \subseteq truth => c.then \cap truth # {}

\* The assignments of findMinBySat's query for a plan shorter than b
\* (lines 208-221) in which the operations are those of plan.
Answers(plan, b) ==
  {aux \in SUBSET AuxVars :
     /\ Satisfied(Assignment(plan, aux))
     /\ \A n \in b..max : lengthVars[n - min + 1] \notin aux}

\* A probed bound admits exactly the plans that are shorter: forbidding the
\* lengths from b to max rules out every plan with b or more actions, by
\* whatever assignment of the counter, and no other plan.  Without any
\* forbidden length, exactly the plans of at most max actions remain.
ProbeExact ==
  \A plan \in Plans : \A b \in min..(max + 1) :
    Answers(plan, b) # {} <=> Length(plan, pos) < b
=============================================================================
