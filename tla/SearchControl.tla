--------------------------- MODULE SearchControl ---------------------------
(***************************************************************************)
(* The control of the planner: Planner::findPlan and Planner::improvePlan, *)
(* the plan length optimisation they start, the two places from which the  *)
(* program stops early (checkTermination and the fifth signal), and the    *)
(* incremental SAT solver behind them, with the IPASIR state its header    *)
(* gives it.                                                               *)
(*                                                                         *)
(* Three actors take steps: the planner's single thread, the search inside *)
(* ipasir_solve (which polls the terminate callback), and the environment  *)
(* (signals and the clock).  A formula is abstracted to the lengths of the *)
(* plans each layer admits.                                                *)
(***************************************************************************)
EXTENDS Integers

CONSTANTS
  LayerBound,  \* deepest layer index the model builds
  MaxLen,      \* longest plan the model distinguishes
  Instances,   \* pairs of a command line (params) and a planning problem
  NoPlan       \* the value of _plan while _has_plan is false

Layers    == 0 .. LayerBound
Lengths   == 0 .. MaxLen
Unbounded == MaxLen + 1     \* no counter literal is assumed or asserted
Plans     == [len : Lengths, prim : BOOLEAN]

\* The options of util/params.cpp that steer the control.  A time limit is
\* only on or off: when it strikes is up to the clock.
Params == [d : Nat, D : Nat, el : Nat \cup {-1}, of : {-1, 0, 1},
           cs : BOOLEAN, stl : BOOLEAN, T : BOOLEAN, smt : BOOLEAN,
           wf : BOOLEAN, cleanup : BOOLEAN]

\* lengths[l]: the lengths of the plans whose leaves are all primitive at
\* layer l.  lower[l]: the static lower bound the counter computes there.
\* dead: the first layer at which the clauses alone are unsatisfiable.
Problems == [lengths : [Layers -> SUBSET Lengths],
             lower   : [Layers -> Lengths],
             dead    : 0 .. LayerBound + 1]

ASSUME BoundsAssumption == LayerBound \in Nat /\ MaxLen \in Nat

ASSUME NoPlanAssumption == NoPlan \notin Plans

\* A plan of a layer is still there at every deeper layer (its actions are
\* repeated and padded with blanks), so lower bounds never exceed it, and a
\* problem with a plan never becomes unsatisfiable without assumptions.
ASSUME InstancesAssumption ==
  \A inst \in Instances :
    /\ inst.params \in Params /\ inst.problem \in Problems
    /\ \A k, l \in Layers : k <= l =>
         /\ inst.problem.lengths[k] \subseteq inst.problem.lengths[l]
         /\ \A n \in inst.problem.lengths[k] : inst.problem.lower[l] <= n
    /\ \A l \in Layers : inst.problem.lengths[l] # {} =>
         inst.problem.dead > LayerBound

VARIABLES
  params, problem,  \* fixed for a run
  pc,         \* where the planner thread is
  site,       \* which call of createNextLayer / solve is running
  iteration,  \* iteration == _layer_idx whenever a layer is complete
  extra,      \* [el, left]: size of the batch of extra layers, how many remain
  satLimit,   \* _sat_time_limit > 0
  firstPlan,  \* _time_at_first_plan > 0
  plan,       \* _plan and _has_plan
  upperBound, \* improvePlan's local of that name
  cur,        \* findMinBySat's local current
  asm,        \* assumptions added since the last solve
  perm,       \* primitiveness and length bounds added as clauses
  counted,    \* layers that carry a plan length counter
  ipasir,     \* state of the IPASIR object
  model,      \* what the last satisfying assignment decodes to
  result,     \* what the last solve returned
  signals,    \* SignalManager::numSignals
  late,       \* the clocks that have passed their limit
  limitHit,   \* some solve was cut off by the SAT time limit (history)
  out,        \* what outputPlan printed
  reason,     \* why the program ended
  written     \* f.cnf exists

world  == <<params, problem, signals, late, limitHit>>
thread == <<pc, site, iteration, extra>>
limits == <<satLimit, firstPlan>>
best   == <<plan, upperBound, cur>>
solver == <<asm, perm, counted, ipasir, model, result>>
final  == <<out, reason, written>>
vars   == <<world, thread, limits, best, solver, final>>

Sites   == {"main", "cs", "anytime", "final", "shrink"}
Labels  == {"create", "layered", "loop", "solve", "returned", "improve",
            "batch", "extra", "final", "probe", "output", "exited"}
Reasons == {"running", "signal", "forced", "cancel", "timeout", "nosolution",
            "unsolvable", "done"}
Literals == [prim : SUBSET Layers, below : 0 .. Unbounded]
Nothing  == [prim |-> {}, below |-> Unbounded]

Running == pc # "exited"

-----------------------------------------------------------------------------
(* The termination conditions.                                             *)

\* Planner::cancelOptimization
CancelOptimization == firstPlan /\ params.of > 0 /\ "opt" \in late

\* Faulty: the limit keeps counting after the first plan.
InitialTimeUpAlways == params.T /\ "init" \in late

\* The limit -T counts only until there is a first plan.
InitialTimeUp == ~firstPlan /\ params.T /\ "init" \in late

\* Faulty: checkTermination forgets the limit -T.
TerminationWithoutTime == signals > 0 \/ CancelOptimization

\* The condition under which Planner::checkTermination calls exit.
TerminationRequested == signals > 0 \/ CancelOptimization \/ InitialTimeUp

\* Faulty: the callback does not look at the signals.
CallbackDeaf == InitialTimeUp \/ CancelOptimization

\* Planner::getTerminateSatCall, which the IPASIR solver polls, apart from
\* the SAT time limit.
CallbackFires == InitialTimeUp \/ CancelOptimization \/ signals > 0

-----------------------------------------------------------------------------
(* The formula.                                                            *)

\* Faulty: the probed length itself is not forbidden.
CandidatesUpTo(P, b) ==
  {n \in Lengths : n <= b /\ \A l \in P : n \in problem.lengths[l]}

\* Lengths of the assignments in which the layers of P are all primitive and
\* the counter stays below b.
Candidates(P, b) ==
  {n \in Lengths : n < b /\ \A l \in P : n \in problem.lengths[l]}

Dead  == problem.dead <= iteration
Prim  == asm.prim \cup perm.prim
Below == IF asm.below < perm.below THEN asm.below ELSE perm.below

\* Any clause or assumption takes the IPASIR object back to INPUT, and the
\* assignment is gone.  The SMT interface keeps the last model instead.
ToInput == /\ ipasir' = IF params.smt THEN ipasir ELSE "INPUT"
           /\ model'  = IF params.smt THEN model ELSE NoPlan

\* Faulty: assumptions survive the solve they were meant for.
KeepAssumptions == UNCHANGED asm

\* ipasir_solve clears the assumptions.
ClearAssumptions == asm' = Nothing

\* What extractPlan decodes: the assignment, or anything when there is none.
Extracted == IF model # NoPlan THEN {model} ELSE [len : Lengths, prim : {FALSE}]

-----------------------------------------------------------------------------
(* Conditions and steps several places of the planner share.               *)

\* Faulty: an interrupted solve counts as a solved one.
SolvedUnlessUnsat == result # 20

Solved == result = 10

\* Faulty: the minimum depth is off by one.
BeyondMinDepth == iteration > params.d

\* The minimum depth -d is reached.
MinDepthReached == iteration >= params.d

ExpandingAllowed == params.D = 0 \/ iteration < params.D

\* Faulty: one iteration too many.
ExtraLayersLeftOrZero == extra.left >= 0

ExtraLayersLeft == extra.left > 0

\* Faulty: the last plan is taken, not the best.
AnyIsBetter(p) == TRUE

\* "Update plan only if it is better than any previous plan."
Better(p) == p.len < upperBound \/ plan = NoPlan

\* Faulty: the optimizer always works with assumptions.
AlwaysTransient == TRUE

\* improvePlan optimises with assumptions (TRANSIENT) iff el = -1.
Transient == params.el = -1

\* iteration++ and the start of createNextLayer on behalf of caller s.
BeginLayer(s) ==
  /\ iteration < LayerBound
  /\ iteration' = iteration + 1
  /\ pc' = "create" /\ site' = s

\* _enc.addAssumptions(_layer_idx) followed by _enc.solve().
AssumeAndSolve(s) ==
  /\ asm' = [asm EXCEPT !.prim = @ \cup {iteration}]
  /\ ToInput
  /\ pc' = "solve" /\ site' = s
  /\ UNCHANGED <<perm, counted, result>>

\* Faulty: the primitiveness of the final layer is not added.
StartWithoutPrimitiveness(bound) ==
  /\ cur' = bound
  /\ counted' = counted \cup {iteration}
  /\ ToInput
  /\ pc' = "probe"
  /\ UNCHANGED <<asm, perm, result>>

\* optimizePlan up to findMinBySat: the counter's clauses, then the
\* primitiveness of this layer, as clauses only in PERMANENT mode.
StartOptimizer(bound) ==
  /\ cur' = bound
  /\ counted' = counted \cup {iteration}
  /\ IF Transient
     THEN asm' = [asm EXCEPT !.prim = @ \cup {iteration}] /\ UNCHANGED perm
     ELSE perm' = [perm EXCEPT !.prim = @ \cup {iteration}] /\ UNCHANGED asm
  /\ ToInput
  /\ pc' = "probe"
  /\ UNCHANGED result

\* findPlan returns 1, so run() returns and the destructors write f.cnf.
ReturnNoPlan(r) ==
  /\ pc' = "exited" /\ reason' = r
  /\ written' = params.wf
  /\ UNCHANGED <<site, iteration, extra, out>>

-----------------------------------------------------------------------------
(* findPlan                                                                *)

\* createFirstLayer and createNextLayer end; all their calls of
\* checkTermination have passed.
LayerCreated ==
  /\ pc = "create" /\ ~TerminationRequested
  /\ pc' = CASE site = "main"    -> "layered"
             [] site = "anytime" -> "batch"
             [] site = "final"   -> "extra"
  /\ ToInput
  /\ UNCHANGED <<world, site, iteration, extra, limits, best, asm, perm,
                 counted, result, final>>

\* The minimum depth -d is reached: solve under primitiveness assumptions.
SolveLayer ==
  /\ pc = "layered" /\ MinDepthReached
  /\ AssumeAndSolve("main")
  /\ UNCHANGED <<world, iteration, extra, limits, best, final>>

SkipSolving ==
  /\ pc = "layered" /\ ~MinDepthReached
  /\ pc' = "loop"
  /\ UNCHANGED <<world, site, iteration, extra, limits, best, solver, final>>

\* Result 10 ends the loop; result 0 also drops the SAT time limit.
LayerSolved ==
  /\ pc = "returned" /\ site = "main" /\ ~TerminationRequested
  /\ satLimit' = (satLimit /\ result # 0)
  /\ IF Solved
     THEN pc' = "improve" /\ firstPlan' = TRUE
     ELSE pc' = "loop" /\ UNCHANGED firstPlan
  /\ UNCHANGED <<world, site, iteration, extra, best, solver, final>>

\* The loop condition fails at the maximum depth -D.
GiveUp ==
  /\ pc = "loop" /\ ~ExpandingAllowed
  /\ ReturnNoPlan("nosolution")
  /\ UNCHANGED <<world, limits, best, solver>>

Expand ==
  /\ pc = "loop" /\ ExpandingAllowed
  /\ ~MinDepthReached \/ ~params.cs
  /\ BeginLayer("main")
  /\ UNCHANGED <<world, extra, limits, best, solver, final>>

\* -cs: solve again, now without assumptions.
CheckSolvability ==
  /\ pc = "loop" /\ ExpandingAllowed
  /\ MinDepthReached /\ params.cs
  /\ pc' = "solve" /\ site' = "cs"
  /\ UNCHANGED <<world, iteration, extra, limits, best, solver, final>>

Unsolvable ==
  /\ pc = "returned" /\ site = "cs" /\ ~TerminationRequested
  /\ result = 20
  /\ ReturnNoPlan("unsolvable")
  /\ UNCHANGED <<world, limits, best, solver>>

NotProvenUnsolvable ==
  /\ pc = "returned" /\ site = "cs" /\ ~TerminationRequested
  /\ result # 20
  /\ BeginLayer("main")
  /\ UNCHANGED <<world, extra, limits, best, solver, final>>

-----------------------------------------------------------------------------
(* improvePlan                                                             *)

\* With extra layers the initial plan is extracted at once.
Improve ==
  /\ pc = "improve"
  /\ \/ /\ params.el = 0
        /\ pc' = "final"
        /\ UNCHANGED <<extra, best>>
     \/ /\ params.el # 0
        /\ plan' \in Extracted
        /\ upperBound' = plan'.len
        /\ IF params.el = -1
           THEN pc' = "batch" /\ extra' = [el |-> 1, left |-> 1]
           ELSE pc' = "extra" /\ extra' = [el |-> params.el, left |-> params.el]
        /\ UNCHANGED cur
  /\ UNCHANGED <<world, site, iteration, limits, solver, final>>

\* el = -1: the batch of layers is cut short at the maximum depth.
ExtraLayerAnytime ==
  /\ pc = "batch" /\ ExtraLayersLeft /\ ExpandingAllowed
  /\ BeginLayer("anytime")
  /\ extra' = [extra EXCEPT !.left = @ - 1]
  /\ UNCHANGED <<world, limits, best, solver, final>>

SolveAnytime ==
  /\ pc = "batch"
  /\ ~ExtraLayersLeft \/ ~ExpandingAllowed
  /\ AssumeAndSolve("anytime")
  /\ UNCHANGED <<world, iteration, extra, limits, best, final>>

AnytimeFailed ==
  /\ pc = "returned" /\ site = "anytime" /\ ~TerminationRequested
  /\ ~Solved
  /\ pc' = "output"
  /\ UNCHANGED <<world, site, iteration, extra, limits, best, solver, final>>

\* A better plan replaces the kept one, which the optimizer then shortens.
AnytimeSolved ==
  /\ pc = "returned" /\ site = "anytime" /\ ~TerminationRequested
  /\ Solved
  /\ \E p \in Extracted :
       IF Better(p)
       THEN plan' = p /\ upperBound' = p.len
       ELSE UNCHANGED <<plan, upperBound>>
  /\ StartOptimizer(upperBound')
  /\ UNCHANGED <<world, site, iteration, extra, limits, final>>

\* el > 0: the layers are added whatever the maximum depth is.
ExtraLayer ==
  /\ pc = "extra" /\ ExtraLayersLeft
  /\ BeginLayer("final")
  /\ extra' = [extra EXCEPT !.left = @ - 1]
  /\ UNCHANGED <<world, limits, best, solver, final>>

SolveFinal ==
  /\ pc = "extra" /\ ~ExtraLayersLeft
  /\ AssumeAndSolve("final")
  /\ UNCHANGED <<world, iteration, extra, limits, best, final>>

\* The result of the solve is not looked at.
FinalSolved ==
  /\ pc = "returned" /\ site = "final" /\ ~TerminationRequested
  /\ pc' = "final"
  /\ UNCHANGED <<world, site, iteration, extra, limits, best, solver, final>>

\* el # -1: take the plan of the final layer; with -of only a better one,
\* which the optimizer then shortens for good.
TakeFinalPlan ==
  /\ pc = "final"
  /\ \E p \in Extracted :
       \/ /\ params.of = 0
          /\ plan' = p
          /\ pc' = "output"
          /\ UNCHANGED <<upperBound, cur, solver>>
       \/ /\ params.of # 0
          /\ IF Better(p)
             THEN plan' = p /\ upperBound' = p.len
             ELSE UNCHANGED <<plan, upperBound>>
          /\ StartOptimizer(upperBound')
  /\ UNCHANGED <<world, site, iteration, extra, limits, final>>

\* findPlan prints the plan and returns 0; run() then calls exit, without
\* destructors, unless -cleanup is set.
OutputPlan ==
  /\ pc = "output"
  /\ out' = plan
  /\ pc' = "exited" /\ reason' = "done"
  /\ written' = (params.cleanup /\ params.wf)
  /\ UNCHANGED <<world, site, iteration, extra, limits, best, solver>>

-----------------------------------------------------------------------------
(* PlanOptimizer::findMinBySat                                             *)

\* The callers' code after optimizePlan: el = -1 doubles the batch.
AfterOptimizer ==
  IF params.el = -1 /\ ExpandingAllowed
  THEN pc' = "batch" /\ extra' = [el |-> 2 * extra.el, left |-> 2 * extra.el]
  ELSE pc' = "output" /\ UNCHANGED extra

\* The current length is the static lower bound: finished.
LowerBoundReached ==
  /\ pc = "probe" /\ cur = problem.lower[iteration]
  /\ AfterOptimizer
  /\ UNCHANGED <<world, site, iteration, limits, best, solver, final>>

\* Forbid all lengths from cur up: TRANSIENT assumes, PERMANENT adds clauses.
\* The literals always go to the IPASIR object, even with -smt.
Probe ==
  /\ pc = "probe" /\ cur # problem.lower[iteration]
  /\ IF params.smt THEN UNCHANGED <<asm, perm>>
     ELSE IF Transient
          THEN asm' = [asm EXCEPT !.below = cur] /\ UNCHANGED perm
          ELSE perm' = [perm EXCEPT !.below = cur] /\ UNCHANGED asm
  /\ ToInput
  /\ pc' = "solve" /\ site' = "shrink"
  /\ UNCHANGED <<world, iteration, extra, limits, best, counted, result,
                 final>>

\* boundUpdateOnSat: the new plan replaces the kept one.
ShorterPlan ==
  /\ pc = "returned" /\ site = "shrink" /\ ~TerminationRequested
  /\ Solved
  /\ plan' \in Extracted
  /\ cur' = plan'.len
  /\ pc' = "probe"
  /\ UNCHANGED <<world, site, iteration, extra, limits, upperBound, solver,
                 final>>

NoShorterPlan ==
  /\ pc = "returned" /\ site = "shrink" /\ ~TerminationRequested
  /\ ~Solved
  /\ AfterOptimizer
  /\ UNCHANGED <<world, site, iteration, limits, best, solver, final>>

-----------------------------------------------------------------------------
(* The solver: ipasir_solve, or the SMT solver's check.                    *)

\* Whatever the answer, the pending assumptions are cleared.
Return(r) ==
  /\ pc = "solve"
  /\ pc' = "returned"
  /\ result' = r
  /\ ipasir' = IF params.smt THEN ipasir
               ELSE CASE r = 10 -> "SAT" [] r = 20 -> "UNSAT" [] r = 0 -> "INPUT"
  /\ ClearAssumptions
  /\ UNCHANGED <<params, problem, site, iteration, extra, limits, best, perm,
                 counted, signals, late, final>>

\* Without primitiveness assumptions an assignment may leave tasks open.
AnswerSat ==
  /\ ~Dead
  /\ \E n \in Candidates(Prim, Below) : model' = [len |-> n, prim |-> Prim # {}]
  /\ Return(10)
  /\ UNCHANGED limitHit

\* The counters of shallower layers keep excluding plans at deeper ones, so
\* only a plan that all of them admit rules this answer out.
AnswerUnsat ==
  /\ Dead \/ Candidates(Prim \cup counted, Below) = {}
  /\ model' = IF params.smt THEN model ELSE NoPlan
  /\ Return(20)
  /\ UNCHANGED limitHit

\* The callback is installed in the IPASIR solver only.
Interrupted ==
  /\ ~params.smt
  /\ \/ satLimit /\ limitHit' = TRUE
     \/ CallbackFires /\ UNCHANGED limitHit
  /\ model' = NoPlan
  /\ Return(0)

SmtUnknown ==
  /\ params.smt
  /\ UNCHANGED <<model, limitHit>>
  /\ Return(0)

-----------------------------------------------------------------------------
(* Termination                                                             *)

\* Planner::checkTermination, called after every instantiated position,
\* before every encoded position and after every solve.
CheckTermination ==
  /\ pc \in {"create", "returned"} /\ TerminationRequested
  /\ \/ signals > 0 /\ out' = plan /\ reason' = "signal"
     \/ signals = 0 /\ CancelOptimization /\ out' = plan /\ reason' = "cancel"
     \/ signals = 0 /\ InitialTimeUp /\ out' = out /\ reason' = "timeout"
  /\ pc' = "exited"
  /\ UNCHANGED <<world, site, iteration, extra, limits, best, solver, written>>

\* handleSignal: the fifth signal leaves the program on the spot.
Signal ==
  /\ Running /\ signals < 5
  /\ signals' = signals + 1
  /\ IF signals' = 5
     THEN pc' = "exited" /\ reason' = "forced"
     ELSE UNCHANGED <<pc, reason>>
  /\ UNCHANGED <<params, problem, site, iteration, extra, limits, best,
                 solver, late, limitHit, out, written>>

\* Timer::elapsedSeconds() passes -T, or (1 + of) times the first plan's time.
TimePasses ==
  /\ Running
  /\ \/ params.T /\ "init" \notin late /\ late' = late \cup {"init"}
     \/ /\ firstPlan /\ params.of > 0 /\ "opt" \notin late
        /\ late' = late \cup {"opt"}
  /\ UNCHANGED <<params, problem, thread, limits, best, solver, signals,
                 limitHit, final>>

Terminated == ~Running /\ UNCHANGED vars

-----------------------------------------------------------------------------
Init ==
  /\ \E inst \in Instances : params = inst.params /\ problem = inst.problem
  /\ pc = "create" /\ site = "main" /\ iteration = 0
  /\ extra = [el |-> 0, left |-> 0]
  /\ satLimit = params.stl
  /\ firstPlan = FALSE
  /\ plan = NoPlan /\ upperBound = MaxLen /\ cur = 0
  /\ asm = Nothing /\ perm = Nothing /\ counted = {}
  /\ ipasir = "INPUT" /\ model = NoPlan /\ result = 0
  /\ signals = 0 /\ late = {}
  /\ limitHit = FALSE
  /\ out = NoPlan /\ reason = "running" /\ written = FALSE

FindPlan == LayerCreated \/ SolveLayer \/ SkipSolving \/ LayerSolved \/ GiveUp
            \/ Expand \/ CheckSolvability \/ Unsolvable \/ NotProvenUnsolvable

ImprovePlan == Improve \/ ExtraLayerAnytime \/ SolveAnytime \/ AnytimeFailed
               \/ AnytimeSolved \/ ExtraLayer \/ SolveFinal \/ FinalSolved
               \/ TakeFinalPlan \/ OutputPlan

Optimize == LowerBoundReached \/ Probe \/ ShorterPlan \/ NoShorterPlan

Planner == FindPlan \/ ImprovePlan \/ Optimize \/ CheckTermination

Answer == AnswerSat \/ AnswerUnsat \/ SmtUnknown

Next == Planner \/ Answer \/ Interrupted \/ Signal \/ TimePasses \/ Terminated

Spec == Init /\ [][Next]_vars

\* The clock and the user are free.  The planner's thread and a solver whose
\* callback fires keep going; a search need not ever answer.
ResponsiveSpec == Spec /\ WF_vars(Planner) /\ WF_vars(Interrupted)

-----------------------------------------------------------------------------
(* Properties.                                                             *)

\* Every variable stays in its domain.
TypeOK ==
  /\ params \in Params /\ problem \in Problems
  /\ pc \in Labels /\ site \in Sites /\ reason \in Reasons
  /\ iteration \in Layers
  /\ extra \in [el : Nat, left : Nat]
  /\ satLimit \in BOOLEAN /\ firstPlan \in BOOLEAN /\ limitHit \in BOOLEAN
  /\ written \in BOOLEAN
  /\ plan \in Plans \cup {NoPlan} /\ model \in Plans \cup {NoPlan}
  /\ out \in Plans \cup {NoPlan}
  /\ upperBound \in Lengths /\ cur \in Lengths
  /\ asm \in Literals /\ perm \in Literals /\ counted \in SUBSET Layers
  /\ ipasir \in {"INPUT", "SAT", "UNSAT"} /\ result \in {0, 10, 20}
  /\ signals \in 0 .. 5 /\ late \in SUBSET {"init", "opt"}

\* The places where the planner is about to call extractPlan.
Extracting ==
  \/ pc = "improve" /\ params.el # 0
  \/ pc = "final"
  \/ pc = "returned" /\ site \in {"anytime", "shrink"} /\ result = 10

\* A plan is read from the solver only in the IPASIR state SAT
\* (ipasir_val's required state), with no clause or assumption in between.
ExtractRequiresSat == Extracting /\ ~params.smt => ipasir = "SAT"

\* That holds unless a SAT time limit can cut off the solve whose result
\* improvePlan ignores (el > 0).
ExtractRequiresSatWithoutLimit ==
  ~(params.stl /\ params.el > 0) => ExtractRequiresSat

\* printFailedVars asks for failed assumptions, at every pass of findPlan's
\* loop and after it, only in the IPASIR state UNSAT.
FailedRequiresUnsat == pc = "loop" /\ iteration >= params.d => ipasir = "UNSAT"

\* That holds for the SAT encoding when no time limit can interrupt a solve.
FailedRequiresUnsatWithoutLimit ==
  ~params.stl /\ ~params.smt => FailedRequiresUnsat

\* The configurations in which the optimizer works with clauses, not
\* assumptions, on a plan that is the best one known.
Permanent == params.el >= 0 /\ ~params.smt

\* Every kept plan is complete: its leaves are all primitive.
KeptPlanIsComplete == plan # NoPlan => plan.prim

KeptPlanIsCompletePermanent ==
  Permanent /\ ~(params.stl /\ params.el > 0) => KeptPlanIsComplete

\* "Update plan only if it is better than any previous plan": the kept plan
\* never gets longer.
KeptPlanNeverLonger ==
  [][plan # NoPlan => plan'.len <= plan.len]_plan

\* assert(newPlanLength < curr): each plan of the optimizer is shorter than
\* the length it probed.
ShorterPlanIsShorter ==
  pc = "returned" /\ site = "shrink" /\ result = 10 => model.len < cur

ShorterPlanIsShorterSat == ~params.smt => ShorterPlanIsShorter

\* The optimizer never goes below its static lower bound, where the counter
\* has no variables left to probe.
ProbeInRange ==
  Permanent /\ ~(params.stl /\ params.el > 0)
    => (pc = "probe" => problem.lower[iteration] <= cur)

\* Each solve sees the assumptions meant for it: those of the last layer, or
\* none at all for the solvability check.
NoStaleAssumptions ==
  pc = "solve" =>
    /\ site \in {"main", "final"} => asm.prim = {iteration}
    /\ site = "cs" => asm = Nothing
    /\ site = "anytime" => iteration \in asm.prim
    /\ Permanent /\ site = "shrink" => asm = Nothing /\ iteration \in perm.prim

\* A problem reported unsolvable is: no layer has a plan.
UnsolvableIsTrue ==
  reason = "unsolvable" => \A l \in Layers : problem.lengths[l] = {}

\* If no solve was cut short, giving up at the maximum depth means that none
\* of the layers solved so far has a plan.
NoSolutionIsTrue ==
  reason = "nosolution" /\ iteration >= params.d /\ ~limitHit /\ ~params.smt
    => problem.lengths[iteration] = {}

\* Unless the fifth signal forces the exit, a kept plan is printed, and an
\* optimisation that is cut off by its time limit has one.
KeptPlanIsPrinted ==
  ~Running /\ reason # "forced" =>
    /\ out = plan
    /\ reason \in {"cancel", "done"} => plan # NoPlan

\* A request to stop, by a signal or a time limit, ends the program even if
\* the search would not answer.
StopsOnRequest == TerminationRequested /\ ~params.smt ~> ~Running

\* If in addition every search that is not interrupted ends, the program ends
\* by itself.
EventuallyStops == WF_vars(Answer \/ Interrupted) => <>~Running

\* "-wf: write generated formula": a run that ends normally with -wf leaves
\* f.cnf behind.
FormulaWritten == reason = "done" /\ params.wf => written

-----------------------------------------------------------------------------
(* Refinement.                                                             *)

LengthOf(p) == IF p = NoPlan THEN NoPlan ELSE p.len

Status == IF Running THEN "running"
          ELSE IF reason = "forced" THEN "killed" ELSE "stopped"

\* The kept plan is the best one known: the optimizer is permanent, and every
\* new plan is compared with the kept one.
OptimizesBest == Permanent /\ (params.el = 0 \/ params.of # 0)
                 /\ ~(params.stl /\ params.el > 0)

Anytime == INSTANCE AnytimePlanner WITH
             PlanLengths <- Lengths, None <- NoPlan,
             monotone <- OptimizesBest,
             kept <- LengthOf(plan), shown <- LengthOf(out), status <- Status

\* The planner is an anytime planner: improvePlan, the optimizer and every
\* exit path together keep a plan once there is one, replace it only by a
\* shorter one if OptimizesBest, and show it at the end.
IsAnytimePlanner == Anytime!Spec

=============================================================================
