# Verification of Lilotane (SAT and SMT variants)

Lilotane plans for totally ordered hierarchical task networks. It expands the
network layer by layer, encodes each layer as clauses, and asks an incremental
SAT solver (or, with `-smt`, an SMT solver) whether some expansion down to the
last layer is a plan. This directory specifies the program in TLA+, checks the
specifications on small instances with TLC and proves theorems about them with
TLAPS. Paths are relative to the repository root (`src/algo/planner.cpp` is
the planner).

## 1. Inventory

| Component | State | Operations | Used by / uses |
|---|---|---|---|
| Search control (`algo/planner.cpp` `findPlan`, `improvePlan`, `checkTermination`; `main.cpp`; `util/signal_manager.h`) | `iteration`, `_layer_idx`, `_sat_time_limit`, `_time_at_first_plan`, `_plan`, `_has_plan`; `numSignals`, `exiting` | create layers, solve, check solvability, extract, optimise, print, exit | calls every other component; called back by the encoding (`_termination_callback`) and by the solver (`terminateSatCall`) |
| Plan length optimizer (`sat/plan_optimizer.*`) | bounds `current`, `upper`, the counter's variables | `optimizePlan`, `findMinBySat` in modes TRANSIENT and PERMANENT | adds clauses and assumptions behind the encoding's back, replaces `_plan` by reference |
| Solver interface (`sat/sat_interface.h`, `sat/ipasir.h`) | clauses, pending assumptions, IPASIR state, last assumptions | `addClause`, `assume`, `solve`, `holds`, `didAssumptionFail` | polled terminate callback while solving; `f.cnf` on destruction |
| SMT interface (`sat/smt_interface.h`) | table of texts and terms, assumptions, last model | the same, plus `addVar` | no callback |
| Layer expansion (`data/layer.*`, `data/position.*`, `createNextLayer`) | successor positions, the tables of each position | `consolidate`, `getSuccessorPos`, three ways of freeing a position | instantiation fills it, encoding reads it, `clearDonePositions` frees it |
| Instantiation (`planner.cpp` `propagate*`, `instantiator.*`, `arg_iterator.*`) | operations, q-constants and facts of the current position | propagation from the layer above, preconditions, effects | asks fact analysis, calls retroactive pruning |
| Retroactive pruning (`algo/retroactive_pruning.*`) | predecessors and successors of operations across layers | `prune` | removes operations from positions already instantiated or encoded, adds unit clauses |
| Domination (`algo/domination_resolver.*`) | | `eliminateDominatedOperations` | positions |
| Fact analysis (`algo/fact_analysis.*`, `network_traversal.*`, `precondition_inference.h`, `minres.h`) | reachable facts of the current position, fact frames | `isReachable`, `isInvariant`, `addInitializedFact`, frames | instantiation, encoding |
| Encoding (`sat/encoding.*`) | `_layer_idx`, `_pos`, primitive and non-primitive operations of the last position | `encode`, `addAssumptions`, `solve` | positions, variable tables, solver |
| Variable tables (`sat/variable_domain.*`, `variable_provider.h`) | next variable, table per position | `encodeVariable`, reuse from above | |
| Substitutions (`data/substitution*`, `sat/literal_tree.h`, `sat/dnf2cnf.h`) | trees of literals | insertion, negation, DNF to CNF | encoding of q-constants |
| At-most-one (`sat/binary_amo.*`) | | clauses of a binary encoding | encoding |
| Decoding and output (`sat/decoder.h`, `algo/plan_writer.*`) | | `extractPlan`, `outputPlan` | reads the assignment |
| Network data (`data/htn_instance.*`, `htn_op.*`, `reduction.*`, ...) | the lifted (ungrounded) problem | parsing, ordering of subtasks, primitivisation, repetitions | everyone |
| Utilities, vendored code | | | not modelled |

The program has one thread, yet it is reactive: signals arrive at any point,
clocks pass limits at any point, the solver runs for unbounded time and polls
a callback, and an incremental solver carries state (clauses for ever,
assumptions for one call, an assignment until the next change) across calls
that are far apart in the source. These are the behaviours that are hard to
test. The others are long derivations over the layers: an operation removed in
one layer must disappear from those above and below, positions are freed while
others still refer to them, and variables are shared between layers.
`PROJECT.json` lists every hazard at its line.

What makes each component correct:

* search control: "unsolvable" and "no success" are only reported when they are
  true; a kept plan is complete, is never lost, only replaced by a shorter one
  where the options promise it, and printed; every request to stop is obeyed;
* optimizer: its counter admits exactly the plans below a probed bound, each
  plan it takes is shorter than the last, it ends;
* solver interfaces: the solver is only queried in a state that has the answer,
  and each solve sees the assumptions meant for it and no others;
* layer expansion: successor positions are monotone and cover the next layer;
  nothing is read after it was freed;
* instantiation and domination: every operation that some plan needs has a
  parent and, if it has subtasks, a child for each;
* retroactive pruning: what is removed is exactly what has become impossible,
  the two link tables agree, and removed operations are forbidden iff they have
  a variable;
* fact analysis: no fact is taken for unreachable or invariant that some state
  of some plan changes;
* encoding: the assignments that satisfy the clauses are the decompositions of
  the initial task into applicable plans;
* variable tables: one variable has one meaning, also across layers;
* substitutions and at-most-one: the clauses written are equivalent to the set
  of literals or the conditions they were made from;
* decoding: the printed plan is the decomposition that the assignment encodes.

## 2. Plan

Modules in the order in which they were written; what is left are proofs.

| Module | Models | Composition | Checks and theorems |
|---|---|---|---|
| `AnytimePlanner`, `SearchControl` (section 3) | the search, the optimizer, the solver, signals and clocks | `SearchControl` implements `AnytimePlanner` | safety, liveness, refinement; all safety properties and the refinement proved |
| `AtomicPruning`, `RetroactivePruning` (section 4) | `createNextLayer` down to the links between operations, and `prune` step by step | implements `AtomicPruning`, the single step `Prune` of `Instantiation` | refinement; exactness of pruning against a closure, assertions, termination; all safety properties and the refinement proved |
| `PlanLengthCounter` (section 5) | the counter of `PlanOptimizer::optimizePlan` | justifies `Candidates` of `SearchControl` | a probed bound admits exactly the shorter plans; all properties checked and proved |
| `TaskNetwork`, `FactAnalysis`, `SolverInterface`, `Literals`, `Instantiation`, `Encoding`, `Decoding` (section 6) | the data path, as operators on the planner's state | each extends the one before | used by `Planning` and `ClauseBuilding` |
| `HtnSemantics`, `Planning` (section 6) | what a problem means; the data path as a state machine | over all modules of the row above | printed plans are solutions, no solution is lost, plans persist |
| `ClauseBuilding` (section 7) | the calls that build trees, constraints, DNFs and at-most-one constraints | over `Literals` | each structure against its definition; all properties checked and proved |
| `SubtaskOrdering` (section 7) | a method's ordering constraints and the searches of `orderSubtasks`, step by step | justifies `TopologicalOrder` of `TaskNetwork` | the sorted subtasks keep the orderings, proved |

Every safety property of the first three rows and of the last two is a theorem, and so are both
refinements. Each component has its proofs in modules of their own
(`SearchControlProofs`; `RetroactivePruningProofs`, `PruningBookkeeping`,
`AtomicPruningProofs`; `PlanLengthCounterProofs`; `ClauseBuildingProofs`;
`SubtaskOrderingProofs`), over a module of lemmas, `FiniteLemmas` (sums as
cardinalities of grids, least closed sets, least counterexamples, recursion up to
a bound). The modules
of section 6 recurse over data (the network traversal, topological orders, the
solver) and are declared with RECURSIVE operators, so they are for TLC only; the
sorting of subtasks, which one of them does for `Planning`, is proved of the
state machine `SubtaskOrdering`, and a run compares the two (`SortedAsInNetwork`).
That property, the properties of `Planning` and liveness are what is only
model-checked.

## 3. SearchControl

`SearchControl.tla` is the planner's thread (`findPlan`, `improvePlan`,
`optimizePlan`, `findMinBySat`, `checkTermination`, `run`), the solver
(`ipasir_solve` or z3's `check`) and the environment (signals, clocks).

*Correspondence.* `pc` is the place of the thread, with one label per stretch
of code between two calls that can take long or be interrupted: creating a
layer (`create`), a running solve (`solve`), the code after a solve
(`returned`), and the branches between them. `site` says which call of
`createNextLayer` or `solve` is running. `iteration`, `satLimit`, `firstPlan`,
`plan`, `upperBound`, `cur` are the variables of that meaning; `asm` are the
assumptions that the next `ipasir_solve` will use and clear, `perm` the
primitiveness and length bounds added as clauses, `counted` the layers with a
plan length counter, `ipasir` and `model` the state of the IPASIR object and
the assignment it holds. Every action models the whole stretch of code up to
the next label; the optimizer's clauses, `addAssumptions` and the bound are one
step because no callback can run in between. `CheckTermination` models the
three outcomes of `checkTermination`, which runs inside `create` (after every
position and before every encoded one) and after every solve. A termination
request that arrives after the last check of a stretch is the same behaviour
as one that arrives at the beginning of the next stretch.

*Data.* A formula is abstracted to what the control can tell apart:
`problem.lengths[l]` are the lengths of the plans that layer `l` admits,
`lower[l]` the counter's static minimum, `dead` the first layer at which the
clauses are unsatisfiable by themselves. `InstancesAssumption` says what the
encoding guarantees: a plan of a layer is a plan of every deeper one. The
solver answers SAT with any admitted length, UNSAT if the required layers and
all counters admit none, and is interrupted when a limit holds or the callback
fires. An assignment without primitiveness assumptions may leave tasks open
(`prim = FALSE`). Time is abstracted to which limits have passed (`late`); the
SAT time limit may strike at any solve while it is in force. With `-smt` there
is no callback, the last model outlives later clauses, and the optimizer's
literals never reach the solver, as in the code.

*Bounds.* Four layers (`LayerBound = 3`) and plan lengths 0, 1, 2. Plans of
each length may first appear at any layer or never, the lower bound is 0 or 1
and the clauses may die at layer 1: 4 layers suffice for one search step, one
batch of extra layers, the doubled batch of `-el=-1` and one layer to spare,
and three lengths for two successive improvements. Instances that would need
more layers than the model has are not among the inputs (`Fits`), so the bound
never cuts a behaviour off. The command lines (`SafetyParams`) combine `-el`,
`-of`, `-d`, `-D`, `-cs`, `-stl`, `-T`, `-smt`, `-wf` and `-cleanup`.

| Run | Shows |
|---|---|
| `SearchControl.cfg` | type invariant; the solver is only read in its required states; the optimizer works with complete plans, above its static bound, and shortens; each solve sees its own assumptions; "unsolvable" and "no success" are true; the kept plan is printed; and the planner implements `AnytimePlanner` |
| `SearchControlLive.cfg` | a signal or expired limit ends the program although no search need ever answer (`StopsOnRequest`); with answering searches the program ends by itself (`EventuallyStops`) |
| `IncompletePlan.cfg`, `LongerPlan.cfg` | the disagreements below |

*Fairness.* `ResponsiveSpec` assumes that the planner's thread keeps running
(no action of it blocks) and that a solver whose callback returns non-zero
returns, which is IPASIR's contract for `ipasir_set_terminate`. No fairness
is assumed of searches, clocks and signals; `EventuallyStops` names the extra
premise that searches end.

*Abstract specification.* `AnytimePlanner.tla`: keep at most one plan, never
lose it, show it when stopping; if the command line makes the search monotone
(`OptimizesBest`: the optimizer is permanent and each new plan is compared with
the kept one), replace it only by a strictly shorter one. The refinement maps
the lengths of `plan` and `out` and the reason of the exit.

### Disagreements found

Runs that TLC violates, each against a comment or documentation line:

* `IncompletePlan`: with `-el=-1` the optimizer only assumes the primitiveness
  of the final layer, once; its second probe may accept an assignment whose
  leaves are abstract, and that "plan" replaces the kept one.
* `LongerPlan`: with `-el=-1` `improvePlan` compares later plans with a bound
  that the optimizer has already undercut, so a longer plan can replace a
  shorter one.

Others noted while modelling. The first four are properties of the
module that a configuration like the two above, with the command lines of
`MCSearchControl`, violates; they are not kept as runs:

* `ExtractRequiresSat`: with `-el=1 -stl`, a plan is read from an interrupted
  solver (`planner.cpp:148`, against `ipasir.h:75`).
* `ShorterPlanIsShorter`: with `-smt` the length bounds are added to the idle
  SAT solver (`plan_optimizer.cpp:221`, against the assertion at line 171).
* `FormulaWritten`: with the default `-cleanup=0`, `-wf` leaves no `f.cnf`
  behind when a plan was found (`main.cpp:65`, against `params.cpp:122`).
* `KeptPlanNeverLonger`: with `FinalLayerOnly` (`-el=1` and the default
  `-of=0`), the plan of the final layer replaces the kept one whatever its
  length (`planner.cpp:170`); nothing documents otherwise.
* `printFailedVars` queries failed assumptions after interrupted solves and,
  with `-smt`, of the SAT solver that never ran (`encoding.cpp:881`, against
  `ipasir.h:88`); `FailedRequiresUnsatWithoutLimit` states when the first does
  not happen.
* The SAT time limit is discarded only after the solves under assumptions of
  `findPlan` (`planner.cpp:48`, against `params.cpp:117`); extra layers ignore
  `-D` (`planner.cpp:140`, against `params.cpp:96`).

### Proofs

`SearchControlProofs.tla` proves, for every number of layers, every length
bound, every set of command lines and every planning problem that satisfies
the named assumptions (`BoundsAssumption`, `NoPlanAssumption`,
`InstancesAssumption`), all safety properties of the first run and the
refinement of `AnytimePlanner`.

The properties are not inductive. `IInv` adds, conjunct by conjunct, why they
hold: `SiteInv` (which call can run where), `PhaseInv` (before the first
solution there is no plan, after `improvePlan`'s first extraction there is
one, and nothing is printed while running), `FormulaInv` (what is assumed and
asserted at each place), `SolverInv` (the assignment is there exactly in state
SAT; an interrupted solve implies a pending termination request or the SAT
time limit; the final solve is never refuted because the layers found so far
keep their plans), `AnswerInv` (an answer is true of its layer) and `PlanInv`
(under an `Ideal` command line the assignment at each extraction is a complete
plan of the layer, and the optimizer's bound is the kept plan's length). Each
conjunct has a step lemma with one step per action; `PlanChanges` and
`EndsWithPlan` summarise a step for the refinement. TLC checked the conjuncts
of `IInv` on the instance of the first run before they were proved.

Liveness is only model-checked: TLAPS cannot reason about ENABLED.

## 4. RetroactivePruning

`RetroactivePruning.tla` is the construction of the hierarchy
(`createNextLayer`, `createNextPosition`, `propagateActions`,
`propagateReductions`, the domination resolver's replacements) together with
`RetroactivePruning::prune`, which takes operations out of layers that are
already encoded.

*Correspondence.* An operation at a place is a record of layer, position and
name (`PositionedUSig`). `ops` are the actions and reductions of all
positions; `exp` and `pred` are the tables `_expansions` and `_predecessors`,
as pairs of a parent's name and a child; the parent's position is recomputed
from the successor positions, as the code does. `phase` is the next step of
`createNextPosition`: prune actions to the left that have impossible effects,
prune actions above whose preconditions cannot hold, propagate children and
prune childless reductions, replace dominated operations. `pruning`, `open`,
`remove` and `taken` are the phase and the three containers of `prune`, whose
two loops take one element per action, in any order, because they are hash
sets. `todo` are the operations the caller will still prune. `opVars` and
`units` are the operations with a variable and those with a negative unit
clause: a layer gets its variables when it is encoded, after all its positions
were instantiated.

*What is left open.* Which operations fit a subtask, which actions lose their
preconditions and which have impossible effects is any choice of the fact
analysis. An iteration over `getReductions()` from which `prune` erases the
current element may pass over the next one: `robin_hood` closes the gap by
moving the next element into the slot. Reading the successor of the last
position returns anything, so the loop below it visits the one position there
or none. `op` may refer to a destroyed element while the last operations are
removed; the comparison that would read it is not reached, since at that point
no parent of the argument has a child left at its position.

*Bounds.* Four layers. The domains in `MCRetroactivePruning.tla`: two top level
reductions whose methods share subtasks, one padded with blanks; a recursive
method with an empty one; a domain in which domination merges the children of
two parents; and one whose goal may be unreachable. Three layers above an
operation are what `prune` needs to climb past a parent that is shared.

| Run | Shows |
|---|---|
| `RetroactivePruning.cfg` | both link tables agree at rest; the assertions of `prune` hold and no later prune meets an operation an earlier one removed; unit clauses match removals; what is gone is exactly the least set that contains the pruned operations and whatever is left without children or parents (`PruneExact`); `RetroactivePruning` implements `AtomicPruning` (`IsAtomicPruning`); every prune ends (`LayersGetBuilt`, assuming only that the single thread keeps running) |
| `PrunedStays.cfg` | the first disagreement below |

*Abstract specification.* `AtomicPruning.tla` is the promise of `prune` to its
callers, and the `Prune` that the data path of section 6 takes: a graph of
operations that grows by whole positions, in which operations without children
may be replaced, and from which one step takes an operation with exactly what
has become impossible without it. The mapping `Atomic` lets a prune take effect
when its roots are known (`RootsFound`): `Alive` is `ops` without what the rest
of the downward traversal is going to remove, so every step of that traversal,
in any order, must stutter. Unlike `PruneExact` this says something about every
intermediate step, about the links as well as the operations, and it also holds
after a disturbed iteration. Where parents share only some of their children
(`agree` is false) the abstract step may stop short, but still removes nothing
that is possible; after a position that does not exist was read (`void`)
nothing is promised.

`PruneExact` is stated for undisturbed hierarchies: at every position two
operations above have the same children or none in common, no iteration passed
anything over, and no successor past the end was read. Each of these
conditions can fail. The first failure is a run; the others are invariants of
the module that the same instances violate:

* `PrunedStays`: after a domination two parents share one child but not
  another. `prune` of that child's only child empties one parent and not the
  other; the child is not a root, keeps a predecessor, and stays, and so does
  the operation to be pruned (`planner.cpp:638` asserts that it is gone).
* `NoChildlessReduction`: of two neighbouring childless reductions the second
  may be passed over (`planner.cpp:735`); no expansion clause is then written
  for it.
* `SuccessorInRange`: pruning the goal action asks for the successor of a
  position that does not exist (`retroactive_pruning.cpp:66`, against the
  assertion at `layer.cpp:27`).

*Proofs.* Every safety property of the module and the refinement are proved for
every domain, number of layers, choice of the fact analysis and order of the
worklists, from `DomainsAssumption` alone (the shape of a domain and that it has
finitely many names). Three modules build on one another:

| Module | Theorem | Strengthening |
|---|---|---|
| `RetroactivePruningProofs` | `ForbiddenExactly` (`UnitsExact`), `TypesCorrect` (`TypeOK`) | `EncodedIsComplete`, `Shape` |
| `PruningBookkeeping` | `MapsStayInStep` (`MapsAgree`), `AssertionsHold` (`PruneAssertions`) | `Book` |
| `AtomicPruningProofs` | `PruningIsAtomic` (`IsAtomicPruning`), `PruningIsExact` (`PruneExact`) | `Ancestry`, `UpInv`; `ExactInv` |

* `UnitsExact`: only complete layers have variables (`EncodedIsComplete`), so
  nothing that is created or replaced in the layer under construction has one.
* `Shape` says that each layer has a position for every unit of size in the
  layer above (`Hierarchy`), that every link joins an operation to one at its
  old position (`Elements`), and that the position under construction is empty
  until it is filled and unknown to the worklists until it can no longer be
  replaced (`Fresh`). It rests on lemmas about successor and old positions:
  they are inverse to each other (`OldPosIs`), and what the downward loop visits
  is what has the operation above it (`VisitedExact`), except under the last
  position of a layer.
* `Book` says when the two maps agree in the middle of a prune (`LinkInv`), and
  that prune never removes an operation its caller still holds (`WorkInv`). The
  second needs the path of positions from the argument up to the first layer:
  whatever prune has taken up on that path has all its children towards the
  argument taken (`Cone`), so that removing it never reaches the argument's
  neighbours.
* The refinement takes its step at `RootsFound`. `Going` and the atomic
  specification's `Impossible` are least closed sets (`ClosureIsLeast`). What is
  climbed is impossible without the argument (`UpInv`), roots included, so that
  nothing possible falls; and if parents share their children, everything climbed
  falls with the roots (`ClimbedFalls`, by a counterexample in the lowest layer),
  so that nothing impossible stays.
* `PruneExact` has two halves. That only impossible operations go is kept for
  every closed set that contains what was pruned (`OnlyImpossible`): a prune
  removes `Impossible` of its argument, which lies in each of them
  (`AtomicImpossible`). That all of them go is local (`AllImpossible`): each
  operation that is left has a child that is left for each filled position,
  unless it is about to be pruned. `Agreed` is weaker than `ChildSetsAgree`
  while operations of the current position may still be replaced, because
  domination may separate parents that shared a child, or bring them together;
  `FreshInv` keeps prune away from these operations.

All these invariants were checked by TLC on the instance of the run before they
were proved. Sums are cardinalities of grids (`FiniteLemmas`), and statements
about all layers are proved by a least counterexample, since induction over data
is out of the prover's reach. `LayersGetBuilt` is liveness and stays with TLC.

## 5. PlanLengthCounter

`PlanLengthCounter.tla` is the walk of `PlanOptimizer::optimizePlan` over the
positions of the final layer (`plan_optimizer.cpp:11-152`), clause by clause.
`SearchControl` takes from it that an assignment under the bound `b` is a plan
with fewer than `b` actions (`Candidates`), and that such plans are not lost;
`ProbeExact` is that statement about the clauses.

*Correspondence.* `layer` gives the empty and the actual operations of each
position, as the loops of lines 23-38 collect them. `cap` is
`currentPlanLength`, `pos` the loop's variable, `min`, `max` and `lengthVars`
are the counters and the vector of the code, `clauses` what was added. The
actions are the three branches: `NoEmptyOps` (shift, or forbid and drop the
topmost variable at the limit), `OnlyEmptyOps`, `Mixed`. `IfEmpty` and
`IfActual` choose among the encodings (one clause per operation of the smaller
set, one clause with all operations of the other set, or a helper variable);
the clause at the limit is `IfActual` with nothing to conclude. A variable is a
tuple that says what it was made for; the code takes the next free number. That
operations of one position exclude each other, and that the layer is primitive,
comes from other clauses and from `addAssumptions`: a plan is one operation per
position.

*What is checked.* One run: all layers of two positions over eight sorts of
position (without empty operations, without actual ones, and with every ratio
that changes the encoding, the helper variable included), all layers of three
positions over five sorts, and a few with two helper variables, each with every
length a plan of that layer has. `DirectLimit` is 1 instead of 3, so that four
operations reach the helper variable. `ProbeExact` goes through every plan,
every bound and every assignment of the counter's variables. Three positions
are enough for the limit to be hit before, at and after the last one.
`BoundsExact` says that the logged bounds are attained, `WindowFits` is the
assertion of line 152 at every position. `TypeOK` is more than shapes here:
`emptySpotVar` is 0 where a spot is encoded directly, and a literal 0 would end
the clause, so it says that the counter and every clause mention only variables
that were made (`VarsMade`): of operations and lengths of the positions passed,
and a helper variable only of a position that has one.

*Proof.* `PlanLengthCounterProofs.tla` proves `ProbeExact` and `WindowFits`
for every layer, over any sets of operations, every `DirectLimit` and every
length of a plan, from `LayersAssumption` alone (the two sorts of operation at
a position are disjoint). Neither is inductive. `IInv` carries the clauses'
meaning along the positions: whatever satisfies them makes the variable of the
true length true (`Sound`); the assignment in which every variable means what
it was made for satisfies them if the plan is not longer than `max`
(`Satisfiable`), and variables keep that meaning while positions without empty
operations shift the window (`Meaning`). `CapIsReached`, that some plan has the
length of the best one, keeps the window from closing. `PropagateSays` reduces
all encodings to one statement, so that the step for `Mixed` does not depend on
which was chosen. `BoundsAreExact` proves `BoundsExact`: no plan of the positions
so far is shorter or longer than the bounds (`IInv`), and `Reached` says that
every length between them is that of such a plan. 
`TypesCorrect` proves `TypeOK` from `IInv` and `Made`: variables that were made
stay so (`VarsAreKept`), a position with both sorts of operation makes those of
its spot and of the new counter (`MixedMakesVars`), and under each choice of the
three flags every clause mentions only those (`SpotClausesOver`,
`PropagateOver`).

*Beyond it.* In mode TRANSIENT the counter's clauses stay in the formula when
deeper layers are built, where operations of the counted layer may be
reductions, neither empty nor actual. Such a reduction at a position where the
limit is hit may be excluded although it leads to a shorter plan
(`plan_optimizer.cpp:127`). `SearchControl` leaves this open: an answer UNSAT
is possible when the counters of earlier layers exclude every shorter plan.

## 6. The data path: from a problem to a printed plan

| Module | Code | Its operators |
|---|---|---|
| `TaskNetwork` | `data/htn_instance.*`, `htn_op`, `reduction`, `signature`, `substitution`, `algo/network_traversal`, `arg_iterator` | `Network` is the constructor: converted signatures, equality constraints, preconditions compiled out of methods, ordered subtasks, surrogates, repetitions. Queries, q-constants and their domains, decodings, the traversal |
| `FactAnalysis` | `algo/fact_analysis.*`, `precondition_inference.h` | reachable, initialised, relevant and invariant facts; possible fact changes and their cache; frames and mined preconditions; reduced argument domains |
| `SolverInterface` | `sat/sat_interface.h`, `smt_interface.h`, the `__interfaceSolver__` functions, `Names::to_SMT_string`, `variable_domain.cpp` | `AddVar`, `AddClausesTo`, `Assume`, `Question`, `HeldIn` |
| `Literals` | `sat/literal_tree.h`, `dnf2cnf.h`, `binary_amo.*`, `data/substitution_constraint.h` | see section 7 |
| `Instantiation` | the instantiation half of `algo/planner.cpp`, `instantiator.*`, `domination_resolver.*`, `data/position.*`, `layer.*` | `InstantiateFirstLayer`, `AllocateLayer`, `CreateNextPosition` |
| `Encoding` | `sat/encoding.cpp`, `variable_provider.h` | `Encode`, `ClearDonePositions`, `Assumptions` |
| `Decoding` | `sat/decoder.h`, `algo/plan_writer.cpp` | `ExtractPlan`, `OutputPlan` |
| `HtnSemantics` | none: the reference | `Solutions`, `IsSolution` |
| `Planning` | the calls in their order | the state machine |

*Correspondence.* The program's state is the record `w`: `w.layers` has a
record per position with the tables of `Position`, `w.an` is the
`FactAnalysis`, `w.enc` what the encoder has handed to the solver. `htn` is the
`HtnInstance`, which only mining changes. The operators of the lower modules
are the functions of the code on that record; the actions of `Planning` are the
calls: `InferPreconditions` (the constructor), `CreateFirstLayer`,
`CreateNextLayer` followed by `InstantiatePosition` and `EncodePosition` for
each position from left to right, `Solve`, and `Extract` with any of the
models. Terms are tuples whose length tells constants, variables and
q-constants apart, as the ranges of ids do; a q-constant is what its name
spells out (layer, position, sort, number, domain). A variable is a number, and
a substitution variable is the pair it stands for.

*Reference.* `HtnSemantics` knows neither layers nor q-constants: a task is
decomposed by every method with every choice of well-typed arguments, conditions
are evaluated in the state where they are met, and the actions that remain are
applied. `PlanValid` and `NoSolutionLost` compare the program with it in both
directions. A solution that nests `d` deep fits into `d` layers.

*The solver* is external: `Models` finds, by propagation and splitting, one model
for every choice of operations, values of their q-constants, and facts of the
last layer, which is everything a plan shows.

*The two solvers.* With `-smt` the clauses are over texts instead of numbers:
`AddVar` enters the text of a variable when it is first encoded, `Term` looks it
up when a clause or an assumption mentions it, and `HeldIn` reads the model back
through the same table. `PlanValid`, `NoSolutionLost` and the others are checked
over both solvers; `TermsDistinct` says what z3 needs for that.

*Options.* `w.opt` has the options that choose between ways to mine,
instantiate and encode: `-mp`, `-psr`, `-aar`, `-edo`, `-nps`, `-srfa`, `-tc`,
`-p`, `-bamot`, `-smt` and `-ip`. A behaviour of `Pipeline.cfg` starts with one
of eleven sets (`SomeOptions`): the defaults for either solver, and nine sets in
which every value of each of these options but `-ip` meets every value of every
other one. With the SAT solver the binary at-most-one encoding is used from
three elements on; the default of 50 is out of reach of small problems.

*What is left out.* Q-constants are shared (`-sqq=1`). `-q`, `-qq`, `-qrf` and
`-qit` change nothing: the list of arguments to instantiate is empty in
`instantiate` (`instantiator.cpp:68`), and `-qcm`, `-alo`, `-sace` and `-svp` are
read nowhere or stored and not used. Hash sets are walked in one order; the order only decides which of two equal
operations dominates. The sample that picks a constraint's polarity when there
are more than 50 decodings is left out (both polarities are in section 7).
`Prune` is one step, the one of `AtomicPruning`, which section 4 justifies.

*Bounds.* 32 problems, eleven sets of options, the layers 0 to 3. Each family has what one part of
the code is for: travelling on a line and a ring (recursion, empty expansions,
states that repeat), lamps (negative conditions, methods without steps that are
left after compilation), vehicles (overlapping sorts, effects that cancel each
other when two arguments are the same), repairs (operations that have to be
pruned layers later), picks (the same action below several methods, mined
preconditions), pairs (two q-constants in one condition, inequality, unsorted
subtasks, domination). Three layers are enough for an action to be repeated
twice, for a reduction to be pruned from below, and for a solution to be found
again below the layer of its first appearance.

| Run | Shows |
|---|---|
| `Pipeline.cfg` | every printed plan solves its problem (`PlanValid`); no solution within the layers is missing (`NoSolutionLost`); a plan of one layer is a plan of the next (`PlansPersist`, what `InstancesAssumption` of `SearchControl` relies on); the fact variables of the last layer are the states the plan passes through (`StatesAgree`); numbers are unambiguous, those made up for surrogates included (`NumbersUnambiguous`); z3 tells all variables apart (`TermsDistinct`) |
| `DominatedPlan.cfg`, `LostToMining.cfg`, `LostToTree.cfg` | the disagreements below |

### Disagreements found

* `DominatedPlan`: a method uses a task twice for one object, another one for
  two objects. The first operation is taken for an instance of the second, the
  substitution kept for the parent has one entry for what are two values, and
  the plan that is printed gives the subtask arguments its method does not. With
  `-edo=0` every plan is valid.
* `LostToMining`: the frame of a method takes different parameters for different
  objects, so what an earlier subtask provides when they are equal is still
  demanded in advance, and the only solution disappears; `-mp=0` finds it, `-mp=1`
  does not.
* `LostToTree`: a literal tree written as clauses demands one child of every
  node reached. When the values of different q-constants start paths of one
  tree, all of them are demanded at once, and actions two of whose effects may
  be the same fact are excluded for some arguments. Here the trees are those of the
  frame axioms, and `-tc=0` does not help; `encodeActionEffects` uses trees in
  the same way with `-tc=1`.

More is violated on problems and options of `MCPlanning` that no configuration
selects (assign them in `Pipeline.cfg`, with `DefaultOptions` unless said otherwise).
`NoSolutionLost` on

* `CachedProblems`: possible fact changes are cached by signature only
  (`fact_analysis.cpp:9`). For a method without arguments the changes of the
  lifted method, computed for mining, stand in for those over objects later, and
  the goal appears unreachable. With `-mp=0` the solution is found.
* `RepeatedProblems`: `involvesSupersetOf` does not step past a q-constant it
  has matched, so that a query for `q, q` counts as covered by a constraint on
  `q, r` (`substitution_constraint.h:70`); every decoding is then rejected and
  the action pruned;
* `NamesakeProblems` with `SmtOptions`: the text of a variable does not say
  whether it stands for an operation or a fact (`encoding.cpp:909`). Where a
  predicate and an action have one name, an action `there(q)` and a fact
  `there(q)` of one position are one constant of z3; a solution that needs one
  of them without the other is lost. With the SAT solver it is found.
  `names.cpp:94` joins arguments with `-`, which may be part of a name, so that
  `(p a-b c)` and `(p a b-c)` share a text as well.

`PlanValid`, `NoSolutionLost` and `NumbersUnambiguous` on `SomeProblems` with
`ImplicitOptions` (`-ip=1`): the clause that an assumed position needs a
primitive operation is written for every position with the primitive operations
of the position encoded last (`encoding.cpp:815`), which is the goal's, so that
any position of the last layer may keep an operation with subtasks; the frame
axioms take the non-primitive operations of the position itself for those of
the one to its left (`encoding.cpp:325`); and the number in front of a
surrogate's is not skipped (`encoding.cpp:114`), although it is printed for the
surrogate's method. And `TermsDistinct` with `smt` on and `bamot` 3: the digits
of `BinaryAtMostOne` are numbered by `VariableDomain::nextVar` alone
(`binary_amo.cpp:12`) and never declared to z3, so that with `-smt` a position
with 50 operations, or a q-constant with 50 values, asserts terms that do not
exist. `encoding.h:110` calls these functions the interface with "SAT or SMT".

Seen while modelling and outside the instances above: `hasPathSubsumedBy` finds
a path only if it ends with the last element of the query, although its comment
promises any sub-path (`literal_tree.h:109`), which costs precision only; a
subtask that no ordering constraint names is read past the end of the sorted
nodes (`reduction.cpp:71`); `outputPlan` changes the plan it prints, so that a
second call prints no decompositions of surrogates; `clearAtPastPosition`
deletes tables without forgetting them.

## 7. ClauseBuilding and SubtaskOrdering

`ClauseBuilding.tla` calls the structures of `Literals` the way the planner and
the encoder do, one call per action: `AddCondition` and `MergeConditions` for
the constraints of an operation, `AddPath` for the tree of one action's
substitutions, `AddUnifier` for the DNF of a negative effect, `AddElement` for
an at-most-one constraint. A behaviour works on one of them. `SubtaskOrdering.tla`
has `AddOrdering` for the ordering constraints of a method and then one action
per branch of the loop in `orderSubtasks` (`reduction.cpp:16-74`): `PickNode`
starts a search, `OpenNode`, `CloseNode` and `DropNode` are what happens to the
node on top of the stack, `ReorderSubtasks` is the end; subtasks are numbers. It
is checked in the same run, as a subject of its own (`StructuresSpec`). Next to what the code
keeps, the state keeps what was put in (`conditions`, `paths`), so that every property is an equivalence between
clauses, evaluated over all assignments, and their purpose.

| Property | Says |
|---|---|
| `ConstraintsExact` | the clauses of an operation's constraints admit exactly the substitutions that meet every condition, whatever the polarities and the order of merges |
| `QueriesSound` | a decoding of an effect is discarded only if no substitution completes it |
| `TreeEncodingsExact` | a tree's clauses imply one of its paths, and follow from it while siblings exclude each other; the negated ones forbid exactly its paths |
| `TreeQueriesExact` | `contains` and `subsumes` are exact, `hasPathSubsumedBy` is sound |
| `CnfEquivalent`, `AtMostOneExact` | the conversions do what their names say |
| `SubtasksOrdered` | the sorted subtasks are the subtasks, in an order that keeps every ordering, when the orderings mention them all |
| `SortedAsInNetwork` | the operator with which `TaskNetwork` sorts a parsed method for `Planning` yields what the steps yield |

*Bounds.* Two conditions over three q-constants with two values each, over the
same, reordered, fewer, repeated and other q-constants, and both polarities;
trees of up to three paths of mixed lengths, the empty one included; three
conjunctions over four variables; up to twelve elements, so that blocks of
unused codes of every size occur, with and without a code for "none";
four subtasks with up to four orderings, repeated ones included. The whole state
space is 54 000 states. Behaviours end at the bounds, here and in `Planning` at the deepest
layer, so deadlock is not checked in either.

*Proofs* (`ClauseBuildingProofs`). `CnfIsEquivalent`, `TreesAreExact`,
`TreeQueriesAreExact`, `ConstraintsAreExact`, `QueriesAreSound`,
`AtMostOneIsExact` and `TypesCorrect` hold for any q-constants, paths, values and bounds. They rest on
`InputAssumption`: lists of q-constants are non-empty sequences (`addPrecondition`
returns before it makes a constraint otherwise, `planner.cpp:425-433`), paths are
sequences, and there are finitely many values.

* A conversion is right because the choice of one false literal of each
  conjunction is a false clause (`DistributiveLaw`).
* A tree is finite, closed under prefixes, and its leaves are the paths that were
  inserted (`PathsInv`; `InsertKeepsTree`). If its clauses hold, following
  children that hold from the root ends at a leaf (`TreeImpliesPath`, by the
  longest node that holds); if a path holds and siblings exclude each other, every
  node that holds lies on the path (`PathImpliesTree`); the first leaf on a path
  that holds, holds (`NegationForbidsPaths`).
* `ConditionsInv`: each constraint is a pair of trees over its own q-constants in
  their order, of which its polarity leaves one, and together the constraints
  admit the substitutions that meet all conditions so far. `ConstraintSays` ties
  `Admits` to the clauses (siblings are values of one q-constant, so they exclude
  each other); `NewConstraint` is one call of `addPrecondition`, whichever
  polarity it chose; `MergeIsConjunction` is intersection for valid paths and union
  for invalid ones; `MergeAllIsConjunction` is the loop over all constraints. The
  fold of that loop has no induction theorem the prover can use; its value is
  shown to exist and to satisfy the claim by a minimal set of positions for which
  it would not.
* The recursion of `subsumes` is the recursion of "some path below this node
  contains the rest of the query" (`BelowRecursion`, from four lemmas on how a
  sequence lies in another one), and it has no second solution, because each call
  goes one level down a finite tree (`SubsumesIsBelow`). `hasPathSubsumedBy` goes
  on in the query; only its soundness is claimed and true (`HasPathIsBelow`).
* `QueriesSound` puts this together (`AdmittedPasses`): a path that an invalid
  tree holds inside the query would have to be the substitution's own; and where
  `involvesSupersetOf` succeeds for different q-constants, they lie in the
  constraint's list in their order (`SupersetInOrder`), so that `subsumes` finds
  the substitution's own path. This lemma is where repeated q-constants have to be
  excepted.
* `AtMostOneIsExact` is arithmetic with powers, of which the prover knows nothing.
  A power of two is a number of subsets
  (`PowersOfTwo`), and dropping a digit halves a number (`HalvesAndBits`), so two
  numbers agree from a digit on exactly when their quotients do (`UpperDigits`). A
  block that leaves its lower digits open therefore excludes exactly the codes
  from its first one up to its size (`BlockIs`, because it begins at a multiple of
  it), and the blocks together exclude exactly the codes from `numStates` on
  (`BlocksCover`: each block ends where the one above it begins, and what is left
  above `numStates` is always smaller than the size last tried, so nothing in the end). Every assignment of the digit
  variables spells one code, since there are as many of the one as of the other
  (`EveryDigitsSpell`). What the clauses say then is that this code is below
  `numStates` and names the variable that is true (`ClausesSay`); with one code
  more than variables, the last one names none.

`OrderIsKept` (`SubtaskOrderingProofs`) is `SubtasksOrdered` for any number of
subtasks and any acyclic orderings. `OrderingInv` says what the stack of
`orderSubtasks` holds (`OpenOnStack`): above some copy of an open node there are only
nodes that the orderings lead to from it, and among them all of its successors that are not
closed. When an open node is met on top again, that copy is the top itself, since
a node that leads to itself would close a cycle; so its successors are all closed,
hence sorted (`ClosedSorted`), and it may be written in front of them
(`SortedKeepOrderings`). At the end every node of the map is closed, and with the
successors of closed nodes every subtask that an ordering mentions, so that the
sorted nodes are a permutation of the subtasks. That the orderings have no cycle
is the guard of `AddOrdering` (a method's orderings are a partial order); `AcyclicGrows` carries it
from one ordering to the next. The inner loop is a recursive function whose
existence `BoundedRecursion` gives.

The restriction of `TreeEncodingsExact` to exclusive siblings is what
`LostToTree` shows to be violated in use, and that of `QueriesSound` to effects
without repeated q-constants is `RepeatedProblems`.

Several modules have variants of a definition, marked as such in comments, that
nothing else uses: each is a plausible slip that one of the runs detects when
it is put in the place of the original (`PROJECT.json`, `mutants`).

## 8. What is not modelled

* Q-constants of their own for every operation (`-sqq=0`), and the sample of
  large domains.
* `MinRES` (`algo/minres.h`): it is constructed and never called.
* The parts of the SMT interface that constants in the source switch off (cvc5,
  one integer per q-constant), and the file it writes at the end. Single
  characters that are replaced in texts (`,`, `:`, `*`) are spelled as the
  replacement.
* Parsing and plan verification (libpanda, an external library), logging,
  statistics, file formats, the vendored hash maps and regular expressions, and
  the solvers themselves: the models state what the code relies on them for.
  That `robin_hood` moves elements when one is erased is part of section 4.
* Liveness is model-checked only: TLAPS cannot reason about ENABLED. The modules
  of section 6 are model-checked only: what their recursive
  definitions compute for every input needs induction over data. Of
  section 7, `SortedAsInNetwork` is model-checked only, for the same reason.
