------------------------------- MODULE Planning -------------------------------
(***************************************************************************)
(* The planner's data path from a parsed problem to a printed plan:        *)
(* HtnInstance and the mining of preconditions, createFirstLayer,          *)
(* createNextLayer (all positions of the layer instantiated, then all      *)
(* encoded), the solver, extractPlan and outputPlan.  SearchControl has    *)
(* the order of the calls, limits and interrupts; here every layer may be  *)
(* solved, and layers may be added after a plan (-el).                     *)
(*                                                                         *)
(* The solver is external: an answer is any model of the clauses under the *)
(* assumptions, up to what no plan shows.  The reference is the meaning of *)
(* the problem itself: what its methods decompose to and what its actions  *)
(* do, with no layers, q-constants or variables.                           *)
(***************************************************************************)
EXTENDS HtnSemantics

CONSTANTS Problems,    \* parsed problems, see module TaskNetwork
          Options,     \* records of options, see module Instantiation
          MaxLayer     \* bound: the deepest layer built

VARIABLES problem, w, stage, pos, answers, plan,
          found        \* the action sequences of the answers of the last solve
vars == <<htn, problem, w, stage, pos, answers, plan, found>>

Depth == Cardinality(DOMAIN w.layers) - 1

-----------------------------------------------------------------------------
(* The solver                                                              *)

Negation(lit) == <<~lit[1], lit[2]>>
\* Unit propagation: the clauses left and the literals found.
RECURSIVE Propagate(_)
Propagate(s) ==
    LET units == UNION {c \in s.cls : Cardinality(c) = 1}
        false == {Negation(u) : u \in units}
    IN IF units = {} \/ {} \in s.cls THEN s
       ELSE Propagate([cls |-> {c \ false : c \in {d \in s.cls : d \cap units = {}}} \cup
                               (IF units \cap false = {} THEN {} ELSE {{}}),
                       lits |-> s.lits \cup units])
Decide(s, lit) == Propagate([s EXCEPT !.cls = @ \cup {{lit}}])
Decided(s, v) == Pos(v) \in s.lits \/ Neg(v) \in s.lits

\* All extensions of s that decide vars.
RECURSIVE Split(_, _)
Split(s, variables) ==
    LET open == {v \in variables : ~Decided(s, v)}
        v == CHOOSE x \in open : TRUE
    IN CASE {} \in s.cls -> {}
         [] open = {} -> {s}
         [] OTHER -> Split(Decide(s, Pos(v)), open) \cup Split(Decide(s, Neg(v)), open)
\* One model of the clauses left, if any.
RECURSIVE Witness(_)
Witness(s) ==
    LET lit == CHOOSE x \in UNION s.cls : TRUE
        first == Witness(Decide(s, lit))
    IN CASE {} \in s.cls -> {}
         [] s.cls = {} -> {s}
         [] OTHER -> IF first # {} THEN first ELSE Witness(Decide(s, Negation(lit)))

True(s) == {lit[2] : lit \in {x \in s.lits : x[1]}}
OpVarsOf(layers) == UNION {UNION {VarsOf(layers[l][p].opVars, DOMAIN layers[l][p].opVars) : p \in DOMAIN layers[l]} :
                           l \in DOMAIN layers}
\* The substitution variables of the operations that occur.
SubstVarsOf(held, layers) ==
    UNION {UNION {UNION {UNION {SubstitutionVars(q) : q \in QArgs(op)} :
                         op \in Chosen(held, layers[l][p])} : p \in DOMAIN layers[l]} : l \in DOMAIN layers}
FactVarsOf(layer) == UNION {{layer[p].factVars[f] : f \in GroundFacts(layer[p].factVars)} : p \in DOMAIN layer}
TermsOf(v, variables) == {Term(v.enc, x) : x \in variables}
ReadVars(v) == OpVarsOf(v.layers) \cup FactVarsOf(v.layers[Depth]) \cup UNION {SubstitutionVars(q) : q \in v.enc.qs}
Held(v, s) == HeldIn(v.enc, True(s), ReadVars(v))
\* A model for every choice of operations, their values and the facts of the
\* last layer that has one.
Models(v) ==
    LET start == Propagate([cls |-> Question(v.enc), lits |-> {}])
        ops == Split(start, TermsOf(v, OpVarsOf(v.layers)))
        values == UNION {Split(s, TermsOf(v, SubstVarsOf(Held(v, s), v.layers))) : s \in ops}
        facts == UNION {Split(s, TermsOf(v, FactVarsOf(v.layers[Depth]))) : s \in values}
    IN {Held(v, m) : m \in UNION {Witness(s) : s \in facts}}

-----------------------------------------------------------------------------
(* The steps                                                               *)

ActionsOf(out) == [k \in DOMAIN out.actions |-> out.actions[k].task]
Printed(model) == OutputPlan(ExtractPlan(model, w.layers))

NoPlan == [classical |-> <<>>, items |-> <<>>]
Init == /\ problem \in Problems
        /\ \E opt \in Options :
             /\ htn = NetworkOf(problem, opt.psr)
             /\ w = [opt |-> opt, layers |-> <<>>, an |-> NewAnalysis, enc |-> NewEncoder(opt.smt)]
        /\ stage = "parsed" /\ pos = 0 /\ answers = {} /\ plan = NoPlan /\ found = {}

\* The constructor of Planner. The lifted changes of the methods stay as they
\* are: mining adds conditions only.
InferPreconditions ==
    /\ stage = "parsed"
    /\ IF w.opt.mp = 0 THEN UNCHANGED <<htn, w>>
       ELSE /\ htn' = MinedNetwork(InferFrames(w.an), w.opt.mp)
            /\ w' = [w EXCEPT !.an = MinedCache(@, InferFrames(@))]
    /\ stage' = "ready"
    /\ UNCHANGED <<problem, pos, answers, plan, found>>

CreateFirstLayer ==
    /\ stage = "ready"
    /\ w' = Encode(Encode(InstantiateFirstLayer(w), 0, 0), 0, 1)
    /\ stage' = "created"
    /\ UNCHANGED <<htn, problem, pos, answers, plan, found>>

\* createNextLayer
CreateNextLayer ==
    /\ stage \in {"created", "solved", "extracted"} /\ Depth < MaxLayer
    /\ w' = AllocateLayer(w, Depth + 1)
    /\ stage' = "instantiating" /\ pos' = 0 /\ answers' = {} /\ plan' = NoPlan
    /\ UNCHANGED <<htn, problem, found>>
Advance(next) ==
    IF pos + 1 < LayerSize(w.layers[Depth]) THEN pos' = pos + 1 /\ stage' = stage
    ELSE pos' = 0 /\ stage' = next
InstantiatePosition ==
    /\ stage = "instantiating"
    /\ w' = CreateNextPosition(w, Depth, pos)
    /\ Advance("encoding")
    /\ UNCHANGED <<htn, problem, answers, plan, found>>
EncodePosition ==
    /\ stage = "encoding"
    /\ w' = ClearDonePositions(Encode(w, Depth, pos), Depth, pos)
    /\ Advance("created")
    /\ UNCHANGED <<htn, problem, answers, plan, found>>

\* addAssumptions and solve
Solve ==
    /\ stage = "created"
    /\ LET assumed == AddAssumptions(w, Depth)
       IN answers' = Models(assumed) /\ w' = [assumed EXCEPT !.enc = Solved(@)]
    /\ found' = {ActionsOf(Printed(m)) : m \in answers'}
    /\ stage' = "solved"
    /\ UNCHANGED <<htn, problem, pos, plan>>
Extract ==
    /\ stage = "solved"
    /\ \E model \in answers : plan' = ExtractPlan(model, w.layers) /\ answers' = {model}
    /\ stage' = "extracted"
    /\ UNCHANGED <<htn, problem, w, pos, found>>

Next == \/ InferPreconditions \/ CreateFirstLayer \/ CreateNextLayer
        \/ InstantiatePosition \/ EncodePosition \/ Solve \/ Extract
Spec == Init /\ [][Next]_vars

-----------------------------------------------------------------------------
(* Properties                                                              *)

Reference == Network(problem)

\* A layer is filled and encoded position by position; an answer is there
\* only for the layer solved last; children and their predecessors are
\* operations of the position.
TypeOK ==
    /\ stage \in {"parsed", "ready", "created", "instantiating", "encoding", "solved", "extracted"}
    /\ DOMAIN w.layers = 0..Depth /\ Depth <= MaxLayer
    /\ stage \in {"instantiating", "encoding"} => pos \in DOMAIN w.layers[Depth]
    /\ answers # {} => stage \in {"solved", "extracted"}
    /\ \A l \in DOMAIN w.layers : \A p \in DOMAIN w.layers[l] :
         LET at == w.layers[l][p] IN {e[2] : e \in at.exp} \cup {e[1] : e \in at.pred} \subseteq Ops(at)
    /\ \A model \in answers : \A v \in model : Len(v) = 1 => v[1] < w.enc.next
    /\ w.enc.numAsmpts = 0

\* A number stands for one operation of one position, for facts or for a
\* position's primitiveness; and the number in front of a surrogate's, which
\* is printed for the method the surrogate hides, is no operation of another
\* position.
Numbered(l, p) ==
    LET table == w.layers[l][p].opVars IN {[at |-> <<l, p>>, sig |-> s, id |-> Id(table[s])] : s \in DOMAIN table}
FactNumbers(l, p) == LET table == w.layers[l][p].factVars IN {Id(table[f]) : f \in DOMAIN table}
NumbersUnambiguous ==
    LET ops == UNION {UNION {Numbered(l, p) : p \in DOMAIN w.layers[l]} : l \in DOMAIN w.layers}
        facts == UNION {UNION {FactNumbers(l, p) : p \in DOMAIN w.layers[l]} : l \in DOMAIN w.layers}
        surrogates == {o \in ops : IsSurrogate(o.sig[1])}
        printable == {o \in ops : o.sig # PrimitiveSig}
    IN stage = "created" =>
         /\ \A o, x \in ops : o.id = x.id => o = x
         /\ {o.id : o \in ops} \cap facts = {}
         /\ \A s \in surrogates, o \in printable : o.id = s.id - 1 => o.at = s.at

\* z3 has one constant for every variable of the encoder that a clause or an
\* assumption mentions: no variable lacks a text and no two share one, in all
\* positions and layers.
MentionedTexts == {lit[2] : lit \in UNION w.enc.cls \cup w.enc.asmpts}
TermsDistinct ==
    w.enc.smt => LET dict == w.enc.dict
                     made == DOMAIN dict \cup UNION {SubstitutionVars(q) : q \in w.enc.qs}
                 IN /\ Cardinality({TextOf(dict, v) : v \in made}) = Cardinality(made)
                    /\ NoText \notin MentionedTexts

\* Whatever model the solver returns, the plan printed for it solves the
\* problem: every line is mentioned once, every decomposition is one of a
\* method whose conditions hold where it starts, the actions can be executed
\* and reach the goal.
PlanValid == stage = "extracted" => IsSolution(Reference, OutputPlan(plan))

\* A formula that is handed to the solver has a model for every solution that
\* fits into its layers: nothing that instantiation prunes, mined conditions
\* exclude, domination replaces or a clause forbids is needed by a solution.
NoSolutionLost ==
    stage = "solved" => \A s \in Solutions(Reference, Depth) :
        \E model \in answers : ActionsOf(Printed(model)) = s

\* A plan found at one layer is found at every deeper one, which the search
\* for shorter plans after extra layers builds on: repetitions and blanks
\* stand where the layer above had its actions.
PlansPersist == [][Depth > 1 /\ stage = "created" /\ stage' = "solved" => found \subseteq found']_vars

\* The fact variables of the last layer tell the states the plan passes
\* through, those a variable is reused for included.
StateAt(p) ==
    LET acts == SelectSeq(SubSeq(plan.classical, 1, p), LAMBDA i : i.id >= 0)
        eff(i) == LET a == htn.ops[i.task[1]] IN SubstAction(a, Instance(a, Args(i.task))).eff
    IN FoldLeft(LAMBDA s, i : Apply(s, eff(i)), htn.init, acts)
StatesAgree ==
    stage = "extracted" =>
        \A p \in DOMAIN w.layers[Depth] :
            LET facts == w.layers[Depth][p].factVars
            IN \A f \in GroundFacts(facts) : \A model \in answers : facts[f] \in model <=> f \in StateAt(p)
=============================================================================
