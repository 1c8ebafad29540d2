------------------------ MODULE SearchControlProofs ------------------------
(***************************************************************************)
(* Theorems about SearchControl, for every bound, every set of command     *)
(* lines and every planning problem that the assumptions on the constants  *)
(* admit.                                                                  *)
(***************************************************************************)
EXTENDS SearchControl, TLAPS

\* The places before the first solution, and those after it.
Working == {"create", "solve", "returned"}
Before  == pc \in {"layered", "loop"} \/ (pc \in Working /\ site \in {"main", "cs"})
After   == \/ pc \in {"improve", "batch", "extra", "final", "probe", "output"}
           \/ pc \in Working /\ site \in {"anytime", "final", "shrink"}

\* Where _has_plan is set: everywhere after improvePlan's first extraction.
Kept == /\ After /\ pc # "improve"
        /\ pc = "final" => params.el # 0

\* The optimizer's loop, and the extra layers behind a kept plan.
Shrinking == pc = "probe" \/ (pc \in {"solve", "returned"} /\ site = "shrink")
Extending == \/ pc = "extra" \/ (pc \in Working /\ site = "final")
             \/ pc = "final" /\ params.el > 0

\* Command lines under which extractPlan always decodes a plan of the layer.
Ideal == Permanent /\ ~(params.stl /\ params.el > 0)

\* The command line and the problem come from one instance.
InstanceInv ==
  \E inst \in Instances : params = inst.params /\ problem = inst.problem

\* Which call can be running where.
SiteInv ==
  /\ pc = "create" => site \in {"main", "anytime", "final"}
  /\ site = "anytime" => params.el = -1
  /\ site = "final" => params.el > 0
  /\ pc = "batch" => params.el = -1
  /\ pc = "extra" => params.el > 0
  /\ pc = "final" => params.el >= 0

\* The plan, the first solution and what has been printed.
PhaseInv ==
  /\ Before => ~firstPlan
  /\ After => firstPlan
  /\ plan # NoPlan => firstPlan
  /\ Kept => plan # NoPlan
  /\ pc = "improve" => plan = NoPlan
  /\ pc = "final" /\ params.el = 0 => plan = NoPlan
  /\ Running => out = NoPlan /\ reason = "running"
  /\ KeptPlanIsPrinted

\* The IPASIR state, the assignment and the result of the last solve.
SolverInv ==
  ~params.smt =>
    /\ ipasir = "SAT" <=> model # NoPlan
    /\ pc = "returned" => /\ result = 10 <=> ipasir = "SAT"
                          /\ result = 20 <=> ipasir = "UNSAT"
    /\ pc = "returned" /\ result = 0 /\ ~satLimit => TerminationRequested
    /\ pc = "returned" /\ result = 0 /\ ~limitHit => TerminationRequested
    /\ pc = "returned" /\ site = "final" => result # 20
    /\ ~params.stl => ~satLimit
    /\ pc = "improve" => ipasir = "SAT"
    /\ pc = "final" /\ ~(params.stl /\ params.el > 0) => ipasir = "SAT"
    /\ FailedRequiresUnsatWithoutLimit

\* What is assumed and what is asserted.
FormulaInv ==
  /\ (params.el >= 0 \/ ~firstPlan) /\ pc \notin {"solve", "exited"} =>
       asm = Nothing
  /\ params.el = -1 \/ ~firstPlan => perm = Nothing
  /\ ~firstPlan => counted = {}
  /\ params.el >= 0 /\ ~Shrinking /\ pc \notin {"output", "exited"} =>
       perm = Nothing /\ counted = {}
  /\ pc = "solve" /\ site \in {"main", "final"} =>
       asm = [prim |-> {iteration}, below |-> Unbounded]
  /\ pc = "solve" /\ site = "cs" => asm = Nothing
  /\ pc = "solve" /\ site = "anytime" => iteration \in asm.prim
  /\ params.el >= 0 /\ Shrinking => iteration \in perm.prim
  /\ params.el >= 0 /\ Shrinking /\ pc = "solve" => asm = Nothing
  /\ ~params.smt /\ Shrinking /\ pc = "solve" =>
       asm.below = cur \/ perm.below = cur

\* What an answer says of the problem.
AnswerInv ==
  /\ firstPlan => problem.lengths[iteration] # {}
  /\ pc = "returned" /\ site = "main" /\ result = 10 =>
       problem.lengths[iteration] # {}
  /\ pc = "returned" /\ site = "cs" /\ result = 20 =>
       \A l \in Layers : problem.lengths[l] = {}
  /\ pc = "returned" /\ site = "main" /\ result = 20 =>
       problem.lengths[iteration] = {}
  /\ pc = "loop" /\ iteration >= params.d /\ ~limitHit /\ ~params.smt =>
       problem.lengths[iteration] = {}
  /\ ShorterPlanIsShorterSat
  /\ UnsolvableIsTrue
  /\ NoSolutionIsTrue

\* The kept plan, the assignment and the length the optimizer works with.
PlanInv ==
  Ideal =>
    /\ plan # NoPlan => plan.prim /\ plan.len \in problem.lengths[iteration]
    /\ model # NoPlan /\ (\/ pc \in {"improve", "final"}
                          \/ pc = "returned" /\ site # "cs") =>
         model.prim /\ model.len \in problem.lengths[iteration]
    /\ Shrinking => cur = plan.len
    /\ Extending => upperBound = plan.len

IInv == /\ TypeOK /\ InstanceInv /\ SiteInv /\ PhaseInv /\ SolverInv
        /\ FormulaInv /\ AnswerInv /\ PlanInv

-----------------------------------------------------------------------------
(* Types.                                                                  *)

\* extractPlan decodes a plan of the model.
LEMMA ExtractedTyped == TypeOK => Extracted \subseteq Plans
BY NoPlanAssumption DEF TypeOK, Extracted, Plans

\* No step of the planner, the solver or the environment leaves the types.
LEMMA TypeStep == TypeOK /\ SiteInv /\ [Next]_vars => TypeOK'
<1> SUFFICES ASSUME TypeOK, SiteInv, [Next]_vars PROVE TypeOK'
  OBVIOUS
<1> USE BoundsAssumption, NoPlanAssumption, ExtractedTyped
<1> USE DEF TypeOK, vars, world, thread, limits, best, solver, final, Labels,
            Sites, Reasons, Literals, Layers, Lengths, Unbounded, Plans
<1>1. CASE LayerCreated
  BY <1>1 DEF LayerCreated, ToInput, SiteInv
<1>2. CASE SolveLayer
  BY <1>2 DEF SolveLayer, AssumeAndSolve, ToInput
<1>3. CASE SkipSolving
  BY <1>3 DEF SkipSolving
<1>4. CASE LayerSolved
  <2>1. satLimit' \in BOOLEAN /\ firstPlan' \in BOOLEAN
    BY <1>4, Zenon DEF LayerSolved
  <2> QED
    BY <1>4, <2>1 DEF LayerSolved
<1>5. CASE GiveUp
  <2>1. written' \in BOOLEAN
    BY <1>5 DEF GiveUp, ReturnNoPlan, Params
  <2> QED
    BY <1>5, <2>1 DEF GiveUp, ReturnNoPlan
<1>6. CASE Expand
  BY <1>6 DEF Expand, BeginLayer
<1>7. CASE CheckSolvability
  BY <1>7 DEF CheckSolvability
<1>8. CASE Unsolvable
  <2>1. written' \in BOOLEAN
    BY <1>8 DEF Unsolvable, ReturnNoPlan, Params
  <2> QED
    BY <1>8, <2>1 DEF Unsolvable, ReturnNoPlan
<1>9. CASE NotProvenUnsolvable
  BY <1>9 DEF NotProvenUnsolvable, BeginLayer
<1>10. CASE Improve
  BY <1>10 DEF Improve, Params
<1>11. CASE ExtraLayerAnytime
  BY <1>11 DEF ExtraLayerAnytime, BeginLayer, ExtraLayersLeft
<1>12. CASE SolveAnytime
  BY <1>12 DEF SolveAnytime, AssumeAndSolve, ToInput
<1>13. CASE AnytimeFailed
  BY <1>13 DEF AnytimeFailed
<1>14. CASE AnytimeSolved
  BY <1>14 DEF AnytimeSolved, StartOptimizer, ToInput
<1>15. CASE ExtraLayer
  BY <1>15 DEF ExtraLayer, BeginLayer, ExtraLayersLeft
<1>16. CASE SolveFinal
  BY <1>16 DEF SolveFinal, AssumeAndSolve, ToInput
<1>17. CASE FinalSolved
  BY <1>17 DEF FinalSolved
<1>18. CASE TakeFinalPlan
  BY <1>18 DEF TakeFinalPlan, StartOptimizer, ToInput
<1>19. CASE OutputPlan
  BY <1>19 DEF OutputPlan
<1>20. CASE LowerBoundReached
  BY <1>20 DEF LowerBoundReached, AfterOptimizer
<1>21. CASE Probe
  BY <1>21 DEF Probe, ToInput
<1>22. CASE ShorterPlan
  BY <1>22 DEF ShorterPlan
<1>23. CASE NoShorterPlan
  BY <1>23 DEF NoShorterPlan, AfterOptimizer
<1>24. CASE CheckTermination
  BY <1>24 DEF CheckTermination
<1>25. CASE AnswerSat
  BY <1>25 DEF AnswerSat, Return, ClearAssumptions, Nothing, Candidates
<1>26. CASE AnswerUnsat
  BY <1>26 DEF AnswerUnsat, Return, ClearAssumptions, Nothing
<1>27. CASE SmtUnknown
  BY <1>27 DEF SmtUnknown, Return, ClearAssumptions, Nothing
<1>28. CASE Interrupted
  <2>1. limitHit' \in BOOLEAN
    BY <1>28 DEF Interrupted
  <2>2. result' = 0 /\ ipasir' \in {"INPUT", "SAT", "UNSAT"}
    BY <1>28 DEF Interrupted, Return
  <2> QED
    BY <1>28, <2>1, <2>2 DEF Interrupted, Return, ClearAssumptions, Nothing
<1>29. CASE Signal
  BY <1>29 DEF Signal, Running
<1>30. CASE TimePasses
  <2>1. late' \in SUBSET {"init", "opt"}
    BY <1>30 DEF TimePasses
  <2> QED
    BY <1>30, <2>1 DEF TimePasses
<1>31. CASE UNCHANGED vars
  BY <1>31
<1> QED
  BY <1>1, <1>2, <1>3, <1>4, <1>5, <1>6, <1>7, <1>8, <1>9, <1>10, <1>11, <1>12, <1>13, <1>14, <1>15, <1>16, <1>17, <1>18, <1>19, <1>20, <1>21, <1>22, <1>23, <1>24, <1>25, <1>26, <1>27, <1>28, <1>29, <1>30, <1>31
  DEF Next, Planner, FindPlan, ImprovePlan, Optimize, Answer, Terminated
-----------------------------------------------------------------------------
(* Facts about the problem.                                                *)

\* A plan of a layer is a plan of every deeper one.
LEMMA PlansStay ==
  InstanceInv => \A k, l \in Layers :
    k <= l => problem.lengths[k] \subseteq problem.lengths[l]
BY InstancesAssumption DEF InstanceInv

\* No plan of a layer is shorter than the static lower bound.
LEMMA LowerBoundHolds ==
  InstanceInv => \A l \in Layers : \A n \in problem.lengths[l] :
    problem.lower[l] <= n
<1> SUFFICES ASSUME InstanceInv, NEW l \in Layers,
                    NEW n \in problem.lengths[l]
             PROVE  problem.lower[l] <= n
  OBVIOUS
<1>1. PICK inst \in Instances : problem = inst.problem
  BY DEF InstanceInv
<1>2. l <= l
  BY DEF Layers
<1> QED
  BY <1>1, <1>2, InstancesAssumption

\* Clauses that are unsatisfiable by themselves leave no plan anywhere.
LEMMA DeadHasNoPlan ==
  TypeOK /\ InstanceInv /\ Dead => \A l \in Layers : problem.lengths[l] = {}
<1> SUFFICES ASSUME TypeOK, InstanceInv, Dead, NEW l \in Layers,
                    problem.lengths[l] # {}
             PROVE  FALSE
  OBVIOUS
<1>1. PICK inst \in Instances : problem = inst.problem
  BY DEF InstanceInv
<1>2. problem.dead > LayerBound
  BY <1>1, InstancesAssumption
<1>3. problem.dead <= iteration /\ iteration <= LayerBound
  BY BoundsAssumption DEF TypeOK, Dead, Layers
<1>4. problem.dead \in Int /\ iteration \in Int
  BY BoundsAssumption DEF TypeOK, Problems, Layers
<1> QED
  BY <1>2, <1>3, <1>4, BoundsAssumption

-----------------------------------------------------------------------------
(* The inductive invariant, one lemma per part.                            *)

\* Neither the command line nor the problem ever changes.
LEMMA ParamsFixed == [Next]_vars => UNCHANGED <<params, problem>>
BY DEF vars, world, Next, Terminated, Planner, FindPlan, ImprovePlan,
       Optimize, Answer, LayerCreated, SolveLayer, SkipSolving, LayerSolved,
       GiveUp, Expand, CheckSolvability, Unsolvable, NotProvenUnsolvable,
       Improve, ExtraLayerAnytime, SolveAnytime, AnytimeFailed,
       AnytimeSolved, ExtraLayer, SolveFinal, FinalSolved, TakeFinalPlan,
       OutputPlan, LowerBoundReached, Probe, ShorterPlan, NoShorterPlan,
       CheckTermination, AnswerSat, AnswerUnsat, SmtUnknown, Interrupted,
       Return, Signal, TimePasses

\* So they still come from one instance.
LEMMA InstanceStep == InstanceInv /\ [Next]_vars => InstanceInv'
BY ParamsFixed DEF InstanceInv

\* Each call of createNextLayer and solve is made from its own place.
LEMMA SiteStep ==
  TypeOK /\ SiteInv /\ [Next]_vars => SiteInv'
<1> SUFFICES ASSUME TypeOK, SiteInv, [Next]_vars PROVE SiteInv'
  OBVIOUS
<1> USE DEF SiteInv, TypeOK, Params, vars, world, thread, limits, best,
            solver, final
<1>1. CASE LayerCreated
  BY <1>1 DEF LayerCreated
<1>2. CASE SolveLayer
  BY <1>2 DEF SolveLayer, AssumeAndSolve
<1>3. CASE SkipSolving
  BY <1>3 DEF SkipSolving
<1>4. CASE LayerSolved
  BY <1>4 DEF LayerSolved
<1>5. CASE GiveUp
  BY <1>5 DEF GiveUp, ReturnNoPlan
<1>6. CASE Expand
  BY <1>6 DEF Expand, BeginLayer
<1>7. CASE CheckSolvability
  BY <1>7 DEF CheckSolvability
<1>8. CASE Unsolvable
  BY <1>8 DEF Unsolvable, ReturnNoPlan
<1>9. CASE NotProvenUnsolvable
  BY <1>9 DEF NotProvenUnsolvable, BeginLayer
<1>10. CASE Improve
  BY <1>10 DEF Improve
<1>11. CASE ExtraLayerAnytime
  BY <1>11 DEF ExtraLayerAnytime, BeginLayer
<1>12. CASE SolveAnytime
  BY <1>12 DEF SolveAnytime, AssumeAndSolve
<1>13. CASE AnytimeFailed
  BY <1>13 DEF AnytimeFailed
<1>14. CASE AnytimeSolved
  BY <1>14 DEF AnytimeSolved, StartOptimizer
<1>15. CASE ExtraLayer
  BY <1>15 DEF ExtraLayer, BeginLayer
<1>16. CASE SolveFinal
  BY <1>16 DEF SolveFinal, AssumeAndSolve
<1>17. CASE FinalSolved
  BY <1>17 DEF FinalSolved
<1>18. CASE TakeFinalPlan
  BY <1>18 DEF TakeFinalPlan, StartOptimizer
<1>19. CASE OutputPlan
  BY <1>19 DEF OutputPlan
<1>20. CASE LowerBoundReached
  BY <1>20 DEF LowerBoundReached, AfterOptimizer
<1>21. CASE Probe
  BY <1>21 DEF Probe
<1>22. CASE ShorterPlan
  BY <1>22 DEF ShorterPlan
<1>23. CASE NoShorterPlan
  BY <1>23 DEF NoShorterPlan, AfterOptimizer
<1>24. CASE CheckTermination
  BY <1>24 DEF CheckTermination
<1>25. CASE AnswerSat
  BY <1>25 DEF AnswerSat, Return
<1>26. CASE AnswerUnsat
  BY <1>26 DEF AnswerUnsat, Return
<1>27. CASE SmtUnknown
  BY <1>27 DEF SmtUnknown, Return
<1>28. CASE Interrupted
  BY <1>28 DEF Interrupted, Return
<1>29. CASE Signal
  BY <1>29 DEF Signal
<1>30. CASE TimePasses
  BY <1>30 DEF TimePasses
<1>31. CASE UNCHANGED vars
  BY <1>31
<1> QED
  BY <1>1, <1>2, <1>3, <1>4, <1>5, <1>6, <1>7, <1>8, <1>9, <1>10, <1>11,
     <1>12, <1>13, <1>14, <1>15, <1>16, <1>17, <1>18, <1>19, <1>20, <1>21,
     <1>22, <1>23, <1>24, <1>25, <1>26, <1>27, <1>28, <1>29, <1>30, <1>31
  DEF Next, Planner, FindPlan, ImprovePlan, Optimize, Answer, Terminated

\* Only improvePlan keeps plans, and every exit prints the kept one.
LEMMA PhaseStep ==
  TypeOK /\ SiteInv /\ PhaseInv /\ [Next]_vars => PhaseInv'
<1> SUFFICES ASSUME TypeOK, SiteInv, PhaseInv, [Next]_vars PROVE PhaseInv'
  OBVIOUS
<1> USE NoPlanAssumption, ExtractedTyped
<1> USE DEF SiteInv, PhaseInv, KeptPlanIsPrinted, Before, After, Kept,
            Working, Running, vars, world, thread, limits, best, solver, final
<1>1. CASE LayerCreated
  BY <1>1 DEF LayerCreated
<1>2. CASE SolveLayer
  BY <1>2 DEF SolveLayer, AssumeAndSolve
<1>3. CASE SkipSolving
  BY <1>3 DEF SkipSolving
<1>4. CASE LayerSolved
  BY <1>4 DEF LayerSolved
<1>5. CASE GiveUp
  BY <1>5 DEF GiveUp, ReturnNoPlan
<1>6. CASE Expand
  BY <1>6 DEF Expand, BeginLayer
<1>7. CASE CheckSolvability
  BY <1>7 DEF CheckSolvability
<1>8. CASE Unsolvable
  BY <1>8 DEF Unsolvable, ReturnNoPlan
<1>9. CASE NotProvenUnsolvable
  BY <1>9 DEF NotProvenUnsolvable, BeginLayer
<1>10. CASE Improve
  BY <1>10 DEF Improve, TypeOK, Params
<1>11. CASE ExtraLayerAnytime
  BY <1>11 DEF ExtraLayerAnytime, BeginLayer
<1>12. CASE SolveAnytime
  BY <1>12 DEF SolveAnytime, AssumeAndSolve
<1>13. CASE AnytimeFailed
  BY <1>13 DEF AnytimeFailed
<1>14. CASE AnytimeSolved
  BY <1>14 DEF AnytimeSolved, StartOptimizer
<1>15. CASE ExtraLayer
  BY <1>15 DEF ExtraLayer, BeginLayer
<1>16. CASE SolveFinal
  BY <1>16 DEF SolveFinal, AssumeAndSolve
<1>17. CASE FinalSolved
  BY <1>17 DEF FinalSolved
<1>18. CASE TakeFinalPlan
  BY <1>18 DEF TakeFinalPlan, StartOptimizer, Better, TypeOK, Params
<1>19. CASE OutputPlan
  BY <1>19 DEF OutputPlan, TypeOK
<1>20. CASE LowerBoundReached
  BY <1>20 DEF LowerBoundReached, AfterOptimizer
<1>21. CASE Probe
  BY <1>21 DEF Probe
<1>22. CASE ShorterPlan
  BY <1>22 DEF ShorterPlan
<1>23. CASE NoShorterPlan
  BY <1>23 DEF NoShorterPlan, AfterOptimizer
<1>24. CASE CheckTermination
  BY <1>24 DEF CheckTermination, TerminationRequested, CancelOptimization,
      InitialTimeUp, TypeOK, Sites
<1>25. CASE AnswerSat
  BY <1>25 DEF AnswerSat, Return
<1>26. CASE AnswerUnsat
  BY <1>26 DEF AnswerUnsat, Return
<1>27. CASE SmtUnknown
  BY <1>27 DEF SmtUnknown, Return
<1>28. CASE Interrupted
  BY <1>28 DEF Interrupted, Return
<1>29. CASE Signal
  BY <1>29 DEF Signal
<1>30. CASE TimePasses
  BY <1>30 DEF TimePasses
<1>31. CASE UNCHANGED vars
  BY <1>31
<1> QED
  BY <1>1, <1>2, <1>3, <1>4, <1>5, <1>6, <1>7, <1>8, <1>9, <1>10, <1>11,
     <1>12, <1>13, <1>14, <1>15, <1>16, <1>17, <1>18, <1>19, <1>20, <1>21,
     <1>22, <1>23, <1>24, <1>25, <1>26, <1>27, <1>28, <1>29, <1>30, <1>31
  DEF Next, Planner, FindPlan, ImprovePlan, Optimize, Answer, Terminated
\* Each solve sees the assumptions and clauses that are meant for it.
LEMMA FormulaStep ==
  TypeOK /\ SiteInv /\ PhaseInv /\ FormulaInv /\ [Next]_vars => FormulaInv'
<1> SUFFICES ASSUME TypeOK, SiteInv, PhaseInv, FormulaInv, [Next]_vars PROVE FormulaInv'
  OBVIOUS
<1> USE DEF FormulaInv, SiteInv, PhaseInv, Before, After, Working, Shrinking,
            Nothing, TypeOK, Params, Literals, Sites, vars, world, thread,
            limits, best, solver, final
<1>1. CASE LayerCreated
  BY <1>1 DEF LayerCreated
<1>2. CASE SolveLayer
  <2>1. ~firstPlan /\ asm = Nothing
    BY <1>2 DEF SolveLayer
  <2>2. asm' = [prim |-> {iteration}, below |-> Unbounded]
    BY <1>2, <2>1 DEF SolveLayer, AssumeAndSolve
  <2> QED
    BY <1>2, <2>1, <2>2 DEF SolveLayer, AssumeAndSolve
<1>3. CASE SkipSolving
  BY <1>3 DEF SkipSolving
<1>4. CASE LayerSolved
  BY <1>4 DEF LayerSolved
<1>5. CASE GiveUp
  BY <1>5 DEF GiveUp, ReturnNoPlan
<1>6. CASE Expand
  BY <1>6 DEF Expand, BeginLayer
<1>7. CASE CheckSolvability
  BY <1>7 DEF CheckSolvability
<1>8. CASE Unsolvable
  BY <1>8 DEF Unsolvable, ReturnNoPlan
<1>9. CASE NotProvenUnsolvable
  BY <1>9 DEF NotProvenUnsolvable, BeginLayer
<1>10. CASE Improve
  BY <1>10 DEF Improve
<1>11. CASE ExtraLayerAnytime
  BY <1>11 DEF ExtraLayerAnytime, BeginLayer
<1>12. CASE SolveAnytime
  BY <1>12 DEF SolveAnytime, AssumeAndSolve
<1>13. CASE AnytimeFailed
  BY <1>13 DEF AnytimeFailed
<1>14. CASE AnytimeSolved
  BY <1>14 DEF AnytimeSolved, StartOptimizer, Transient
<1>15. CASE ExtraLayer
  BY <1>15 DEF ExtraLayer, BeginLayer
<1>16. CASE SolveFinal
  BY <1>16 DEF SolveFinal, AssumeAndSolve
<1>17. CASE FinalSolved
  BY <1>17 DEF FinalSolved
<1>18. CASE TakeFinalPlan
  BY <1>18 DEF TakeFinalPlan, StartOptimizer, Transient
<1>19. CASE OutputPlan
  BY <1>19 DEF OutputPlan
<1>20. CASE LowerBoundReached
  BY <1>20 DEF LowerBoundReached, AfterOptimizer
<1>21. CASE Probe
  BY <1>21 DEF Probe, Transient
<1>22. CASE ShorterPlan
  BY <1>22 DEF ShorterPlan
<1>23. CASE NoShorterPlan
  BY <1>23 DEF NoShorterPlan, AfterOptimizer
<1>24. CASE CheckTermination
  BY <1>24 DEF CheckTermination
<1>25. CASE AnswerSat
  BY <1>25 DEF AnswerSat, Return, ClearAssumptions
<1>26. CASE AnswerUnsat
  BY <1>26 DEF AnswerUnsat, Return, ClearAssumptions
<1>27. CASE SmtUnknown
  BY <1>27 DEF SmtUnknown, Return, ClearAssumptions
<1>28. CASE Interrupted
  BY <1>28 DEF Interrupted, Return, ClearAssumptions
<1>29. CASE Signal
  BY <1>29 DEF Signal
<1>30. CASE TimePasses
  BY <1>30 DEF TimePasses
<1>31. CASE UNCHANGED vars
  BY <1>31
<1> QED
  BY <1>1, <1>2, <1>3, <1>4, <1>5, <1>6, <1>7, <1>8, <1>9, <1>10, <1>11,
     <1>12, <1>13, <1>14, <1>15, <1>16, <1>17, <1>18, <1>19, <1>20, <1>21,
     <1>22, <1>23, <1>24, <1>25, <1>26, <1>27, <1>28, <1>29, <1>30, <1>31
  DEF Next, Planner, FindPlan, ImprovePlan, Optimize, Answer, Terminated
\* The assignment is there exactly when the last solve found one.
LEMMA SolverStep ==
  TypeOK /\ InstanceInv /\ SiteInv /\ PhaseInv /\ FormulaInv /\ AnswerInv /\ SolverInv /\ [Next]_vars => SolverInv'
<1> SUFFICES ASSUME TypeOK, InstanceInv, SiteInv, PhaseInv, FormulaInv, AnswerInv, SolverInv, [Next]_vars PROVE SolverInv'
  OBVIOUS
<1> USE NoPlanAssumption
<1> USE DEF SolverInv, SiteInv, TypeOK, FailedRequiresUnsatWithoutLimit,
            FailedRequiresUnsat, TerminationRequested, CancelOptimization,
            InitialTimeUp, vars, world, thread, limits, best, solver, final
<1>1. CASE LayerCreated
  BY <1>1 DEF LayerCreated, ToInput
<1>2. CASE SolveLayer
  BY <1>2 DEF SolveLayer, AssumeAndSolve, ToInput
<1>3. CASE SkipSolving
  BY <1>3 DEF SkipSolving, MinDepthReached, Layers, Params
<1>4. CASE LayerSolved
  BY <1>4 DEF LayerSolved, Solved
<1>5. CASE GiveUp
  BY <1>5 DEF GiveUp, ReturnNoPlan
<1>6. CASE Expand
  BY <1>6 DEF Expand, BeginLayer
<1>7. CASE CheckSolvability
  BY <1>7 DEF CheckSolvability
<1>8. CASE Unsolvable
  BY <1>8 DEF Unsolvable, ReturnNoPlan
<1>9. CASE NotProvenUnsolvable
  BY <1>9 DEF NotProvenUnsolvable, BeginLayer
<1>10. CASE Improve
  BY <1>10 DEF Improve
<1>11. CASE ExtraLayerAnytime
  BY <1>11 DEF ExtraLayerAnytime, BeginLayer
<1>12. CASE SolveAnytime
  BY <1>12 DEF SolveAnytime, AssumeAndSolve, ToInput
<1>13. CASE AnytimeFailed
  BY <1>13 DEF AnytimeFailed, Solved
<1>14. CASE AnytimeSolved
  BY <1>14 DEF AnytimeSolved, StartOptimizer, ToInput, Solved
<1>15. CASE ExtraLayer
  BY <1>15 DEF ExtraLayer, BeginLayer
<1>16. CASE SolveFinal
  BY <1>16 DEF SolveFinal, AssumeAndSolve, ToInput
<1>17. CASE FinalSolved
  BY <1>17 DEF FinalSolved, Solved, Sites
<1>18. CASE TakeFinalPlan
  BY <1>18 DEF TakeFinalPlan, StartOptimizer, ToInput
<1>19. CASE OutputPlan
  BY <1>19 DEF OutputPlan
<1>20. CASE LowerBoundReached
  BY <1>20 DEF LowerBoundReached, AfterOptimizer
<1>21. CASE Probe
  BY <1>21 DEF Probe, ToInput
<1>22. CASE ShorterPlan
  BY <1>22 DEF ShorterPlan
<1>23. CASE NoShorterPlan
  BY <1>23 DEF NoShorterPlan, AfterOptimizer
<1>24. CASE CheckTermination
  BY <1>24 DEF CheckTermination
<1>25. CASE AnswerSat
  <2>1. model' # NoPlan
    <3>1. PICK n \in Lengths : model' = [len |-> n, prim |-> Prim # {}]
      BY <1>25 DEF AnswerSat, Candidates
    <3>2. (Prim # {}) \in BOOLEAN
      OBVIOUS
    <3>3. model' \in Plans
      BY <3>1, <3>2 DEF Plans
    <3> QED
      BY <3>3
  <2> QED
    BY <1>25, <2>1 DEF AnswerSat, Return
<1>26. CASE AnswerUnsat
  <2>1. site # "final"
    <3> SUFFICES ASSUME site = "final" PROVE FALSE
      OBVIOUS
    <3>1. problem.lengths[iteration] # {}
      BY <1>26 DEF AnswerUnsat, Return, PhaseInv, After, Working, AnswerInv
    <3>2. ~Dead
      BY <3>1, DeadHasNoPlan
    <3>3. PICK n \in Lengths : n \in problem.lengths[iteration]
      BY <3>1 DEF Problems
    <3>4. Prim \cup counted = {iteration} /\ Below = Unbounded
      <4>1. asm = [prim |-> {iteration}, below |-> Unbounded]
        BY <1>26 DEF AnswerUnsat, Return, FormulaInv
      <4>2. perm = Nothing /\ counted = {}
        BY <1>26 DEF AnswerUnsat, Return, FormulaInv, Shrinking, Params
      <4> QED
        BY <4>1, <4>2 DEF Nothing, Prim, Below
    <3>5. n < Below
      BY <3>4, BoundsAssumption DEF Lengths, Unbounded
    <3>6. n \in Candidates(Prim \cup counted, Below)
      BY <3>3, <3>4, <3>5 DEF Candidates
    <3> QED
      BY <1>26, <3>2, <3>6 DEF AnswerUnsat
  <2> QED
    BY <1>26, <2>1 DEF AnswerUnsat, Return
<1>27. CASE SmtUnknown
  BY <1>27 DEF SmtUnknown, Return
<1>28. CASE Interrupted
  BY <1>28 DEF Interrupted, Return, CallbackFires
<1>29. CASE Signal
  BY <1>29 DEF Signal, Running
<1>30. CASE TimePasses
  BY <1>30 DEF TimePasses, Running
<1>31. CASE UNCHANGED vars
  BY <1>31
<1> QED
  BY <1>1, <1>2, <1>3, <1>4, <1>5, <1>6, <1>7, <1>8, <1>9, <1>10, <1>11,
     <1>12, <1>13, <1>14, <1>15, <1>16, <1>17, <1>18, <1>19, <1>20, <1>21,
     <1>22, <1>23, <1>24, <1>25, <1>26, <1>27, <1>28, <1>29, <1>30, <1>31
  DEF Next, Planner, FindPlan, ImprovePlan, Optimize, Answer, Terminated
\* An answer of the solver is true of the layer it is about.
LEMMA AnswerStep ==
  TypeOK /\ InstanceInv /\ SiteInv /\ PhaseInv /\ SolverInv /\ FormulaInv /\ AnswerInv /\ [Next]_vars => AnswerInv'
<1> SUFFICES ASSUME TypeOK, InstanceInv, SiteInv, PhaseInv, SolverInv, FormulaInv, AnswerInv, [Next]_vars PROVE AnswerInv'
  OBVIOUS
<1> USE BoundsAssumption
<1> USE DEF AnswerInv, ShorterPlanIsShorterSat, ShorterPlanIsShorter,
            UnsolvableIsTrue, NoSolutionIsTrue, SiteInv, TypeOK, vars, world,
            thread, limits, best, solver, final
<1>1. CASE LayerCreated
  BY <1>1 DEF LayerCreated
<1>2. CASE SolveLayer
  BY <1>2 DEF SolveLayer, AssumeAndSolve
<1>3. CASE SkipSolving
  BY <1>3 DEF SkipSolving, MinDepthReached, Layers, Params
<1>4. CASE LayerSolved
  BY <1>4 DEF LayerSolved, Solved, SolverInv, TerminationRequested, Params
<1>5. CASE GiveUp
  BY <1>5 DEF GiveUp, ReturnNoPlan, PhaseInv, Running
<1>6. CASE Expand
  <2>1. problem.lengths[iteration] \subseteq problem.lengths[iteration']
    BY <1>6, PlansStay DEF Expand, BeginLayer, Layers
  <2> QED
    BY <1>6, <2>1 DEF Expand, BeginLayer, PhaseInv, Running
<1>7. CASE CheckSolvability
  BY <1>7 DEF CheckSolvability
<1>8. CASE Unsolvable
  BY <1>8 DEF Unsolvable, ReturnNoPlan, PhaseInv, Running
<1>9. CASE NotProvenUnsolvable
  <2>1. problem.lengths[iteration] \subseteq problem.lengths[iteration']
    BY <1>9, PlansStay DEF NotProvenUnsolvable, BeginLayer, Layers
  <2> QED
    BY <1>9, <2>1 DEF NotProvenUnsolvable, BeginLayer, PhaseInv, Running
<1>10. CASE Improve
  BY <1>10 DEF Improve
<1>11. CASE ExtraLayerAnytime
  <2>1. problem.lengths[iteration] \subseteq problem.lengths[iteration']
    BY <1>11, PlansStay DEF ExtraLayerAnytime, BeginLayer, Layers
  <2> QED
    BY <1>11, <2>1 DEF ExtraLayerAnytime, BeginLayer, PhaseInv, Running
<1>12. CASE SolveAnytime
  BY <1>12 DEF SolveAnytime, AssumeAndSolve
<1>13. CASE AnytimeFailed
  BY <1>13 DEF AnytimeFailed
<1>14. CASE AnytimeSolved
  BY <1>14 DEF AnytimeSolved, StartOptimizer
<1>15. CASE ExtraLayer
  <2>1. problem.lengths[iteration] \subseteq problem.lengths[iteration']
    BY <1>15, PlansStay DEF ExtraLayer, BeginLayer, Layers
  <2> QED
    BY <1>15, <2>1 DEF ExtraLayer, BeginLayer, PhaseInv, Running
<1>16. CASE SolveFinal
  BY <1>16 DEF SolveFinal, AssumeAndSolve
<1>17. CASE FinalSolved
  BY <1>17 DEF FinalSolved
<1>18. CASE TakeFinalPlan
  BY <1>18 DEF TakeFinalPlan, StartOptimizer
<1>19. CASE OutputPlan
  BY <1>19 DEF OutputPlan, PhaseInv, Running
<1>20. CASE LowerBoundReached
  BY <1>20 DEF LowerBoundReached, AfterOptimizer
<1>21. CASE Probe
  BY <1>21 DEF Probe
<1>22. CASE ShorterPlan
  BY <1>22 DEF ShorterPlan
<1>23. CASE NoShorterPlan
  BY <1>23 DEF NoShorterPlan, AfterOptimizer
<1>24. CASE CheckTermination
  BY <1>24 DEF CheckTermination, PhaseInv, Running
<1>25. CASE AnswerSat
  <2>1. PICK n \in Candidates(Prim, Below) :
               model' = [len |-> n, prim |-> Prim # {}]
    BY <1>25 DEF AnswerSat
  <2>2. site = "main" => n \in problem.lengths[iteration]
    BY <1>25, <2>1 DEF AnswerSat, Return, FormulaInv, Prim, Candidates
  <2>3. ~params.smt /\ site = "shrink" => n < cur
    BY <1>25, <2>1 DEF AnswerSat, Return, FormulaInv, Shrinking, Below, Candidates,
       Literals, Lengths, Unbounded
  <2> QED
    BY <1>25, <2>1, <2>2, <2>3 DEF AnswerSat, Return
<1>26. CASE AnswerUnsat
  <2>1. site = "main" => problem.lengths[iteration] = {}
    <3> SUFFICES ASSUME site = "main", ~Dead
                 PROVE  problem.lengths[iteration] = {}
      BY DeadHasNoPlan
    <3>1. asm = [prim |-> {iteration}, below |-> Unbounded]
      BY <1>26 DEF AnswerUnsat, Return, FormulaInv
    <3>2. perm = Nothing /\ counted = {}
      BY <1>26 DEF AnswerUnsat, Return, FormulaInv, PhaseInv, Before, Working
    <3>3. Prim \cup counted = {iteration} /\ Below = Unbounded
      BY <3>1, <3>2 DEF Nothing, Prim, Below
    <3>4. Candidates({iteration}, Unbounded) = {}
      BY <1>26, <3>3 DEF AnswerUnsat
    <3> QED
      BY <3>4 DEF Candidates, Problems, Lengths, Unbounded
  <2>2. site = "cs" => \A l \in Layers : problem.lengths[l] = {}
    <3> SUFFICES ASSUME site = "cs" PROVE Dead
      BY DeadHasNoPlan
    <3>1. asm = Nothing
      BY <1>26 DEF AnswerUnsat, Return, FormulaInv
    <3>2. perm = Nothing /\ counted = {}
      BY <1>26 DEF AnswerUnsat, Return, FormulaInv, PhaseInv, Before, Working
    <3>3. Prim \cup counted = {} /\ Below = Unbounded
      BY <3>1, <3>2 DEF Nothing, Prim, Below
    <3>4. 0 \in Candidates(Prim \cup counted, Below)
      BY <3>3 DEF Candidates, Lengths, Unbounded
    <3> QED
      BY <1>26, <3>4 DEF AnswerUnsat
  <2> QED
    BY <1>26, <2>1, <2>2 DEF AnswerUnsat, Return
<1>27. CASE SmtUnknown
  BY <1>27 DEF SmtUnknown, Return
<1>28. CASE Interrupted
  BY <1>28 DEF Interrupted, Return, CallbackFires
<1>29. CASE Signal
  BY <1>29 DEF Signal, PhaseInv, Running
<1>30. CASE TimePasses
  BY <1>30 DEF TimePasses
<1>31. CASE UNCHANGED vars
  BY <1>31
<1> QED
  BY <1>1, <1>2, <1>3, <1>4, <1>5, <1>6, <1>7, <1>8, <1>9, <1>10, <1>11,
     <1>12, <1>13, <1>14, <1>15, <1>16, <1>17, <1>18, <1>19, <1>20, <1>21,
     <1>22, <1>23, <1>24, <1>25, <1>26, <1>27, <1>28, <1>29, <1>30, <1>31
  DEF Next, Planner, FindPlan, ImprovePlan, Optimize, Answer, Terminated
\* Under an ideal command line improvePlan works with complete plans only.
LEMMA PlanStep ==
  TypeOK /\ InstanceInv /\ SiteInv /\ PhaseInv /\ SolverInv /\ FormulaInv /\ AnswerInv /\ PlanInv /\ [Next]_vars => PlanInv'
<1> SUFFICES ASSUME TypeOK, InstanceInv, SiteInv, PhaseInv, SolverInv, FormulaInv, AnswerInv, PlanInv, [Next]_vars PROVE PlanInv'
  OBVIOUS
<1> USE BoundsAssumption, NoPlanAssumption
<1> USE DEF PlanInv, Ideal, Permanent, Shrinking, Extending, Working,
            SiteInv, PhaseInv, TypeOK, Sites, vars, world, thread, limits,
            best, solver, final
<1>1. CASE LayerCreated
  BY <1>1 DEF LayerCreated, ToInput
<1>2. CASE SolveLayer
  BY <1>2 DEF SolveLayer, AssumeAndSolve, ToInput
<1>3. CASE SkipSolving
  BY <1>3 DEF SkipSolving
<1>4. CASE LayerSolved
  BY <1>4 DEF LayerSolved
<1>5. CASE GiveUp
  BY <1>5 DEF GiveUp, ReturnNoPlan
<1>6. CASE Expand
  <2>1. problem.lengths[iteration] \subseteq problem.lengths[iteration']
    BY <1>6, PlansStay DEF Expand, BeginLayer, Layers
  <2> QED
    BY <1>6, <2>1 DEF Expand, BeginLayer, Shrinking, Extending
<1>7. CASE CheckSolvability
  BY <1>7 DEF CheckSolvability
<1>8. CASE Unsolvable
  BY <1>8 DEF Unsolvable, ReturnNoPlan
<1>9. CASE NotProvenUnsolvable
  <2>1. problem.lengths[iteration] \subseteq problem.lengths[iteration']
    BY <1>9, PlansStay DEF NotProvenUnsolvable, BeginLayer, Layers
  <2> QED
    BY <1>9, <2>1 DEF NotProvenUnsolvable, BeginLayer, Shrinking, Extending
<1>10. CASE Improve
  <2> SUFFICES ASSUME Ideal PROVE PlanInv'
    BY <1>10 DEF Improve
  <2>1. model # NoPlan
    BY <1>10 DEF Improve, SolverInv
  <2>2. Extracted = {model}
    BY <2>1 DEF Extracted
  <2> QED
    BY <1>10, <2>1, <2>2 DEF Improve
<1>11. CASE ExtraLayerAnytime
  <2>1. problem.lengths[iteration] \subseteq problem.lengths[iteration']
    BY <1>11, PlansStay DEF ExtraLayerAnytime, BeginLayer, Layers
  <2> QED
    BY <1>11, <2>1 DEF ExtraLayerAnytime, BeginLayer, Shrinking, Extending
<1>12. CASE SolveAnytime
  BY <1>12 DEF SolveAnytime, AssumeAndSolve, ToInput
<1>13. CASE AnytimeFailed
  BY <1>13 DEF AnytimeFailed
<1>14. CASE AnytimeSolved
  BY <1>14 DEF AnytimeSolved, StartOptimizer, ToInput, Transient
<1>15. CASE ExtraLayer
  <2>1. problem.lengths[iteration] \subseteq problem.lengths[iteration']
    BY <1>15, PlansStay DEF ExtraLayer, BeginLayer, Layers
  <2> QED
    BY <1>15, <2>1 DEF ExtraLayer, BeginLayer, Shrinking, Extending
<1>16. CASE SolveFinal
  BY <1>16 DEF SolveFinal, AssumeAndSolve, ToInput
<1>17. CASE FinalSolved
  BY <1>17 DEF FinalSolved
<1>18. CASE TakeFinalPlan
  <2> SUFFICES ASSUME Ideal PROVE PlanInv'
    BY <1>18 DEF TakeFinalPlan
  <2>1. model # NoPlan
    BY <1>18 DEF TakeFinalPlan, SolverInv
  <2>2. Extracted = {model}
    BY <2>1 DEF Extracted
  <2>3. plan = NoPlan \/ upperBound = plan.len
    BY <1>18 DEF TakeFinalPlan, Params
  <2> QED
    BY <1>18, <2>1, <2>2, <2>3 DEF TakeFinalPlan, StartOptimizer, ToInput, Better
<1>19. CASE OutputPlan
  BY <1>19 DEF OutputPlan
<1>20. CASE LowerBoundReached
  BY <1>20 DEF LowerBoundReached, AfterOptimizer
<1>21. CASE Probe
  BY <1>21 DEF Probe, ToInput
<1>22. CASE ShorterPlan
  <2> SUFFICES ASSUME Ideal PROVE PlanInv'
    BY <1>22 DEF ShorterPlan
  <2>1. model # NoPlan
    BY <1>22 DEF ShorterPlan, Solved, SolverInv
  <2>2. Extracted = {model}
    BY <2>1 DEF Extracted
  <2> QED
    BY <1>22, <2>1, <2>2 DEF ShorterPlan
<1>23. CASE NoShorterPlan
  BY <1>23 DEF NoShorterPlan, AfterOptimizer
<1>24. CASE CheckTermination
  BY <1>24 DEF CheckTermination
<1>25. CASE AnswerSat
  <2> SUFFICES ASSUME Ideal, site # "cs" PROVE PlanInv'
    BY <1>25 DEF AnswerSat, Return
  <2>1. PICK n \in Candidates(Prim, Below) :
               model' = [len |-> n, prim |-> Prim # {}]
    BY <1>25 DEF AnswerSat
  <2>2. iteration \in Prim
    BY <1>25 DEF AnswerSat, Return, FormulaInv, Prim, Params
  <2>3. model'.prim /\ model'.len \in problem.lengths[iteration]
    BY <2>1, <2>2 DEF Candidates
  <2> QED
    BY <1>25, <2>3 DEF AnswerSat, Return
<1>26. CASE AnswerUnsat
  BY <1>26 DEF AnswerUnsat, Return
<1>27. CASE SmtUnknown
  BY <1>27 DEF SmtUnknown, Return
<1>28. CASE Interrupted
  BY <1>28 DEF Interrupted, Return
<1>29. CASE Signal
  BY <1>29 DEF Signal
<1>30. CASE TimePasses
  BY <1>30 DEF TimePasses
<1>31. CASE UNCHANGED vars
  BY <1>31
<1> QED
  BY <1>1, <1>2, <1>3, <1>4, <1>5, <1>6, <1>7, <1>8, <1>9, <1>10, <1>11,
     <1>12, <1>13, <1>14, <1>15, <1>16, <1>17, <1>18, <1>19, <1>20, <1>21,
     <1>22, <1>23, <1>24, <1>25, <1>26, <1>27, <1>28, <1>29, <1>30, <1>31
  DEF Next, Planner, FindPlan, ImprovePlan, Optimize, Answer, Terminated
-----------------------------------------------------------------------------
(* The invariant and what follows from it.                                 *)

\* The planner starts with nothing assumed, asserted, solved or kept.
LEMMA InitInv == Init => IInv
<1> SUFFICES ASSUME Init PROVE IInv
  OBVIOUS
<1> USE BoundsAssumption
<1>1. InstanceInv
  BY DEF Init, InstanceInv
<1>2. params \in Params /\ problem \in Problems
  BY <1>1, InstancesAssumption DEF InstanceInv
<1>3. satLimit \in BOOLEAN
  BY <1>2 DEF Init, Params
<1>4. Nothing \in Literals
  BY DEF Nothing, Literals, Layers, Unbounded
<1>5. TypeOK
  <2>1. iteration \in Layers /\ upperBound \in Lengths /\ cur \in Lengths
    BY DEF Init, Layers, Lengths
  <2>2. asm \in Literals /\ perm \in Literals /\ counted \in SUBSET Layers
    BY <1>4, Zenon DEF Init
  <2>3. extra \in [el : Nat, left : Nat] /\ signals \in 0 .. 5 /\ result = 0
    BY DEF Init
  <2> QED
    BY <1>2, <1>3, <2>1, <2>2, <2>3 DEF Init, TypeOK, Labels, Sites, Reasons
<1>6. SiteInv /\ PhaseInv
  BY DEF Init, SiteInv, PhaseInv, KeptPlanIsPrinted, Before, After, Kept,
     Working, Running
<1>7. SolverInv /\ FormulaInv
  BY DEF Init, SolverInv, FormulaInv, FailedRequiresUnsatWithoutLimit,
     FailedRequiresUnsat, Shrinking
<1>8. AnswerInv /\ PlanInv
  BY DEF Init, AnswerInv, ShorterPlanIsShorterSat, ShorterPlanIsShorter,
     UnsolvableIsTrue, NoSolutionIsTrue, PlanInv, Shrinking, Extending,
     Working
<1> QED
  BY <1>1, <1>5, <1>6, <1>7, <1>8 DEF IInv

\* Every step of the program preserves the invariant.
LEMMA NextInv == IInv /\ [Next]_vars => IInv'
BY TypeStep, InstanceStep, SiteStep, PhaseStep, SolverStep, FormulaStep,
   AnswerStep, PlanStep DEF IInv

\* The invariant holds in every reachable state.
THEOREM Invariance == Spec => []IInv
<1> QED
  BY InitInv, NextInv, PTL DEF Spec

\* Every variable keeps its type: in particular the layer index stays within
\* the layers and the pending literals name existing layers only.
THEOREM TypeCorrect == Spec => []TypeOK
<1>1. IInv => TypeOK
  BY DEF IInv
<1> QED
  BY <1>1, Invariance, PTL

\* Without -stl on top of extra layers, extractPlan always reads an
\* assignment (ipasir_val is only called in state SAT).
THEOREM ExtractionSound == Spec => []ExtractRequiresSatWithoutLimit
<1>1. IInv => ExtractRequiresSatWithoutLimit
  BY DEF IInv, ExtractRequiresSatWithoutLimit, ExtractRequiresSat,
         Extracting, SolverInv, SiteInv, TypeOK, Params
<1> QED
  BY <1>1, Invariance, PTL

\* Without -stl, printFailedVars only asks for failed assumptions after a
\* refutation.
THEOREM FailedVarsSound == Spec => []FailedRequiresUnsatWithoutLimit
<1>1. IInv => FailedRequiresUnsatWithoutLimit
  BY DEF IInv, FailedRequiresUnsatWithoutLimit, SolverInv
<1> QED
  BY <1>1, Invariance, PTL

\* When the optimizer adds clauses, every plan the planner keeps is complete.
THEOREM KeptPlansComplete == Spec => []KeptPlanIsCompletePermanent
<1>1. IInv => KeptPlanIsCompletePermanent
  BY DEF IInv, KeptPlanIsCompletePermanent, KeptPlanIsComplete, PlanInv, Ideal
<1> QED
  BY <1>1, Invariance, PTL

\* The assertion of optimizePlan holds with the SAT encoding.
THEOREM OptimizerShrinks == Spec => []ShorterPlanIsShorterSat
<1>1. IInv => ShorterPlanIsShorterSat
  BY DEF IInv, AnswerInv
<1> QED
  BY <1>1, Invariance, PTL

\* The optimizer stays above its static lower bound.
THEOREM ProbesInRange == Spec => []ProbeInRange
<1>1. IInv => ProbeInRange
  <2> SUFFICES ASSUME IInv, Ideal, pc = "probe"
               PROVE  problem.lower[iteration] <= cur
    BY DEF ProbeInRange, Ideal
  <2>1. plan # NoPlan /\ cur = plan.len
    BY DEF IInv, PhaseInv, PlanInv, Kept, After, Shrinking
  <2>2. cur \in problem.lengths[iteration]
    BY <2>1 DEF IInv, PlanInv
  <2> QED
    BY <2>2, LowerBoundHolds DEF IInv, TypeOK
<1> QED
  BY <1>1, Invariance, PTL

\* No solve sees an assumption that was meant for another one.
THEOREM AssumptionsFresh == Spec => []NoStaleAssumptions
<1>1. IInv => NoStaleAssumptions
  BY DEF IInv, NoStaleAssumptions, FormulaInv, Permanent, Shrinking, SiteInv
<1> QED
  BY <1>1, Invariance, PTL

\* A problem that -cs reports unsolvable has no plan at any layer.
THEOREM UnsolvableSound == Spec => []UnsolvableIsTrue
<1>1. IInv => UnsolvableIsTrue
  BY DEF IInv, AnswerInv
<1> QED
  BY <1>1, Invariance, PTL

\* Giving up at the maximum depth is justified unless a solve was cut off.
THEOREM NoSolutionSound == Spec => []NoSolutionIsTrue
<1>1. IInv => NoSolutionIsTrue
  BY DEF IInv, AnswerInv
<1> QED
  BY <1>1, Invariance, PTL

\* Whatever ends the program, short of the fifth signal, prints the kept plan.
THEOREM PlanPrinted == Spec => []KeptPlanIsPrinted
<1>1. IInv => KeptPlanIsPrinted
  BY DEF IInv, PhaseInv
<1> QED
  BY <1>1, Invariance, PTL

-----------------------------------------------------------------------------
(* The planner as an anytime planner.                                      *)

\* A step keeps the plan or, while running, takes another one: the first, or
\* under OptimizesBest a strictly shorter one.
LEMMA PlanChanges ==
  IInv /\ [Next]_vars /\ plan' # plan =>
    /\ Running /\ Running' /\ out' = out
    /\ plan' \in Plans
    /\ OptimizesBest /\ plan # NoPlan => plan'.len < plan.len
<1> SUFFICES ASSUME IInv, [Next]_vars, plan' # plan
             PROVE  /\ Running /\ Running' /\ out' = out
                    /\ plan' \in Plans
                    /\ OptimizesBest /\ plan # NoPlan => plan'.len < plan.len
  OBVIOUS
<1> USE DEF IInv, OptimizesBest, Permanent, Running, vars, world, thread,
            limits, best, solver, final
<1>1. Extracted \subseteq Plans
  BY ExtractedTyped
<1>2. CASE Improve
  BY <1>1, <1>2 DEF Improve, PhaseInv
<1>3. CASE TakeFinalPlan
  <2>1. OptimizesBest => plan = NoPlan \/ upperBound = plan.len
    BY <1>3 DEF TakeFinalPlan, PhaseInv, PlanInv, Ideal, Extending, TypeOK,
       Params
  <2>2. params.of # 0 \/ plan = NoPlan \/ ~OptimizesBest
    BY <1>3 DEF TakeFinalPlan, PhaseInv
  <2> QED
    BY <1>1, <1>3, <2>1, <2>2 DEF TakeFinalPlan, StartOptimizer, Better
<1>4. CASE ShorterPlan
  <2> SUFFICES ASSUME OptimizesBest PROVE plan'.len < plan.len
    BY <1>1, <1>4 DEF ShorterPlan
  <2>1. model # NoPlan /\ model.len < cur
    BY <1>4 DEF ShorterPlan, Solved, SolverInv, AnswerInv,
       ShorterPlanIsShorterSat, ShorterPlanIsShorter
  <2>2. cur = plan.len
    BY <1>4 DEF ShorterPlan, PlanInv, Ideal, Shrinking
  <2> QED
    BY <1>4, <2>1, <2>2 DEF ShorterPlan, Extracted
<1>5. CASE AnytimeSolved
  BY <1>1, <1>5 DEF AnytimeSolved, StartOptimizer, SiteInv
<1> QED
  BY <1>2, <1>3, <1>4, <1>5
  DEF Next, Terminated, Planner, FindPlan, ImprovePlan, Optimize, Answer,
      LayerCreated, SolveLayer, SkipSolving, LayerSolved, GiveUp, Expand,
      CheckSolvability, Unsolvable, NotProvenUnsolvable, ExtraLayerAnytime,
      SolveAnytime, AnytimeFailed, ExtraLayer, SolveFinal, FinalSolved,
      OutputPlan, LowerBoundReached, Probe, NoShorterPlan, CheckTermination,
      AnswerSat, AnswerUnsat, SmtUnknown, Interrupted, Return, Signal,
      TimePasses

\* The program ends by showing the kept plan, or by the fifth signal.
LEMMA EndsWithPlan ==
  IInv /\ [Next]_vars /\ plan' = plan /\ Running =>
    \/ Running' /\ out' = out
    \/ ~Running' /\ reason' # "forced" /\ out' = plan
    \/ ~Running' /\ reason' = "forced" /\ out' = out
<1> SUFFICES ASSUME IInv, [Next]_vars, plan' = plan, Running
             PROVE  \/ Running' /\ out' = out
                    \/ ~Running' /\ reason' # "forced" /\ out' = plan
                    \/ ~Running' /\ reason' = "forced" /\ out' = out
  OBVIOUS
<1>1. Running' => out' = out
  BY NextInv DEF IInv, PhaseInv
<1>2. ~Running' /\ reason' # "forced" => out' = plan
  BY NextInv DEF IInv, PhaseInv, KeptPlanIsPrinted
<1>3. reason' = "forced" => out' = out
  BY DEF IInv, PhaseInv, Running, vars, world, thread, limits, best, solver,
      final, Next, Terminated, Planner, FindPlan, ImprovePlan, Optimize,
      Answer, LayerCreated, SolveLayer, SkipSolving, LayerSolved, GiveUp,
      Expand, CheckSolvability, Unsolvable, NotProvenUnsolvable, Improve,
      ExtraLayerAnytime, SolveAnytime, AnytimeFailed, AnytimeSolved,
      ExtraLayer, SolveFinal, FinalSolved, TakeFinalPlan, ReturnNoPlan,
      OutputPlan, LowerBoundReached, Probe, ShorterPlan, NoShorterPlan,
      CheckTermination, AnswerSat, AnswerUnsat, SmtUnknown, Interrupted,
      Return, Signal, TimePasses
<1> QED
  BY <1>1, <1>2, <1>3

\* The detailed planner implements the anytime planner: every step keeps what
\* there is, improves it strictly, or stops and shows it.
THEOREM ImplementsAnytime == Spec => IsAnytimePlanner
<1>1. Init => Anytime!Init
  BY DEF Init, Anytime!Init, LengthOf, Status, Running, OptimizesBest, Permanent
<1>2. IInv /\ [Next]_vars => [Anytime!Next]_(Anytime!vars)
  <2> SUFFICES ASSUME IInv, [Next]_vars
               PROVE  [Anytime!Next]_(Anytime!vars)
    OBVIOUS
  <2> USE DEF Anytime!vars, Anytime!Next, LengthOf
  <2>1. UNCHANGED OptimizesBest
    BY ParamsFixed DEF OptimizesBest, Permanent
  <2>2. CASE plan' # plan
    <3>1. /\ Running /\ Running' /\ out' = out
          /\ plan' \in Plans
          /\ OptimizesBest /\ plan # NoPlan => plan'.len < plan.len
      BY <2>2, PlanChanges
    <3>2. Anytime!Improve
      BY <2>1, <3>1, NoPlanAssumption DEF Anytime!Improve, Plans, Status
    <3> QED
      BY <3>2
  <2>3. CASE plan' = plan /\ Running
    BY <2>1, <2>3, EndsWithPlan DEF Anytime!Stop, Anytime!Kill, Status
  <2>4. CASE plan' = plan /\ ~Running
    <3>1. UNCHANGED <<out, pc, reason>>
      BY <2>4
      DEF Running, vars, world, thread, limits, best, solver, final,
          Next, Terminated, Planner, FindPlan, ImprovePlan, Optimize, Answer,
          LayerCreated, SolveLayer, SkipSolving, LayerSolved, GiveUp, Expand,
          CheckSolvability, Unsolvable, NotProvenUnsolvable, Improve,
          ExtraLayerAnytime, SolveAnytime, AnytimeFailed, AnytimeSolved,
          ExtraLayer, SolveFinal, FinalSolved, TakeFinalPlan, OutputPlan,
          LowerBoundReached, Probe, ShorterPlan, NoShorterPlan,
          CheckTermination, AnswerSat, AnswerUnsat, SmtUnknown, Interrupted,
          Return, Signal, TimePasses
    <3> QED
      BY <2>1, <2>4, <3>1 DEF Running, Status
  <2> QED
    BY <2>2, <2>3, <2>4
<1> QED
  BY <1>1, <1>2, Invariance, PTL DEF Spec, IsAnytimePlanner, Anytime!Spec
=============================================================================
