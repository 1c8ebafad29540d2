---------------------------- MODULE Instantiation ----------------------------
(***************************************************************************)
(* How the planner fills a position: the layer-related half of             *)
(* algo/planner.cpp with the instantiator, the domination resolver and the *)
(* data of Position and Layer.                                             *)
(*                                                                         *)
(* Operators thread a record w of everything the planner owns:             *)
(*   opt      the options                                                  *)
(*   layers   layer index -> position index -> position                    *)
(*   an       the FactAnalysis                                             *)
(*   enc      the encoder's state (module SolverInterface)                 *)
(* Sets stand for the hash sets; where the code walks one, the model walks *)
(* it in one order.  Pruning an operation is the single step of module     *)
(* AtomicPruning, which RetroactivePruning implements; the cases in which  *)
(* the code's search ends otherwise are shown there.                       *)
(***************************************************************************)
EXTENDS SolverInterface, Literals

-----------------------------------------------------------------------------
(* The options that choose between ways to instantiate and to encode:      *)
(*   psr   a method with one primitive subtask is an action                *)
(*   mp    mining: 0 off, 1 for the instantiation, 2 everywhere            *)
(*   aar   an action that stays becomes a repetition of itself             *)
(*   edo   dominated operations are eliminated                             *)
(*   nps   methods support facts too                                       *)
(*   smt   z3 is the solver    bamot  threshold of the binary at-most-one  *)
(*   ip    no primitiveness variables                                      *)
(*   srfa  frame axioms of the position above are not repeated             *)
(*   tc    literal trees make the clauses of effects that may be undone    *)
(*   p     an operation implies one of its parents                         *)

-----------------------------------------------------------------------------
EmptyPosition ==
    [actions |-> {}, reds |-> {}, axiomatic |-> {}, size |-> 1,
     exp |-> {}, pred |-> {}, esub |-> <<>>,
     trueFacts |-> {}, falseFacts |-> {}, qfacts |-> {}, dec |-> <<>>,
     supp |-> <<>>, isupp |-> <<>>, types |-> <<>>, constraints |-> <<>>,
     opVars |-> <<>>, factVars |-> <<>>, hasPrim |-> FALSE, hasNonprim |-> FALSE]
EmptyLayer(size) == [p \in 0..(size - 1) |-> EmptyPosition]

AddTo(f, key, S) == IF key \in DOMAIN f THEN [f EXCEPT ![key] = @ \cup S] ELSE (key :> S) @@ f
At(f, key) == IF key \in DOMAIN f THEN f[key] ELSE {}
AppendTo(f, key, x) == IF key \in DOMAIN f THEN [f EXCEPT ![key] = Append(@, x)] ELSE (key :> <<x>>) @@ f

\* Layer: positions of the next layer that stem from a position.
LayerSize(layer) == Cardinality(DOMAIN layer)
SuccessorPos(layer, p) == SumFunctionOnSet([q \in DOMAIN layer |-> layer[q].size], 0..(p - 1))
NextLayerSize(layer) == SuccessorPos(layer, LayerSize(layer) - 1) + 1
OldPos(layer, newPos) == Max({q \in DOMAIN layer : SuccessorPos(layer, q) <= newPos})
Offset(layer, newPos) == newPos - SuccessorPos(layer, OldPos(layer, newPos))

Ops(pos) == pos.actions \cup pos.reds
OpPreconditions(sig) == IF IsAction(sig) THEN TableAction(sig).pre ELSE ToReduction(sig).pre

-----------------------------------------------------------------------------
(* Pruning                                                                 *)

\* Variants are plausible slips the runs are shown to detect; no other
\* definition uses them. Here: the links to parents and children stay.
RemoveWithoutLinks(pos, op) == [pos EXCEPT !.actions = @ \ {op}, !.reds = @ \ {op}]
RemoveOccurrence(pos, op) ==
    [pos EXCEPT !.actions = @ \ {op}, !.reds = @ \ {op},
                !.exp = {e \in @ : e[2] # op}, !.pred = {e \in @ : e[1] # op}]

Below(layers, l, p) ==
    IF l + 1 \in DOMAIN layers
    THEN SuccessorPos(layers[l], p)..(SuccessorPos(layers[l], p) + layers[l][p].size - 1) ELSE {}

\* Parents all of whose children at one position are gone go too, and
\* children all of whose parents are gone.
RECURSIVE Impossible(_, _)
Impossible(layers, gone) ==
    LET parents == {g \in UNION {{<<g[1] - 1, OldPos(layers[g[1] - 1], g[2]), e[2]>> :
                                  e \in {x \in layers[g[1]][g[2]].pred : x[1] = g[3]}} :
                                 g \in {h \in gone : h[1] > 0}} :
                      \E q \in Below(layers, g[1], g[2]) :
                        LET children == {e[2] : e \in {x \in layers[g[1] + 1][q].exp : x[1] = g[3]}}
                        IN children # {} /\ \A c \in children : <<g[1] + 1, q, c>> \in gone}
        children == UNION {UNION {{<<g[1] + 1, q, e[2]>> :
                       e \in {x \in layers[g[1] + 1][q].exp : x[1] = g[3] /\
                              \A y \in layers[g[1] + 1][q].pred :
                                 y[1] = x[2] => <<g[1], g[2], y[2]>> \in gone}} :
                       q \in Below(layers, g[1], g[2])} : g \in gone}
        more == (parents \cup children) \ gone
    IN IF more = {} THEN gone ELSE Impossible(layers, gone \cup more)

RemovePruned(w, gone) ==
    LET goneAt(k, q) == {g[3] : g \in {h \in gone : h[1] = k /\ h[2] = q}}
        orphan(k, q) == IF k = 0 THEN {} ELSE goneAt(k - 1, OldPos(w.layers[k - 1], q))
        prunedPos(k, q) ==
          LET pos == w.layers[k][q]
              cut == FoldSet(LAMBDA o, x : RemoveOccurrence(x, o), pos, goneAt(k, q))
          IN [cut EXCEPT !.pred = {e \in @ : e[2] \notin orphan(k, q)}]
        units == {{<<FALSE, w.layers[g[1]][g[2]].opVars[g[3]]>>} :
                    g \in {h \in gone : h[3] \in DOMAIN w.layers[h[1]][h[2]].opVars}}
    IN [w EXCEPT !.layers = [k \in DOMAIN @ |-> [q \in DOMAIN @[k] |-> prunedPos(k, q)]],
                 !.enc = AddClausesTo(@, units)]
Prune(w, op, l, p) == RemovePruned(w, Impossible(w.layers, {<<l, p, op>>}))
Occurs(w, op, l, p) == op \in Ops(w.layers[l][p])
PruneAll(w, ops, l, p) ==
    FoldSet(LAMBDA o, x : IF Occurs(x, o, l, p) THEN Prune(x, o, l, p) ELSE x, w, ops)

-----------------------------------------------------------------------------
(* Facts, preconditions and effects                                        *)

InitializeFact(w, l, p, fact) ==
    LET an == AddInitialized(w.an, fact)
    IN IF fact \in w.an.initialized THEN w
       ELSE IF IsReachable(an, <<TRUE, fact>>)
            THEN [w EXCEPT !.an = an, !.layers[l][p].falseFacts = @ \cup {fact}]
            ELSE [w EXCEPT !.an = an, !.layers[l][p].trueFacts = @ \cup {fact}]
InitializeRelevant(w, l, p, fact) ==
    LET v == InitializeFact(w, l, p, fact) IN [v EXCEPT !.an = AddRelevant(@, fact)]

\* Indices of the arguments to substitute, smallest domain first.
SortedArgIndices(sig, sorts) ==
    SortSeq(SelectSeq([i \in DOMAIN Args(sig) |-> i], LAMBDA i : IsQConstant(Args(sig)[i])),
            LAMBDA i, j : Cardinality(htn.sorts[sorts[i]]) < Cardinality(htn.sorts[sorts[j]]))
DecodingToPath(sig, dec, indices) ==
    [x \in DOMAIN indices |-> <<Args(sig)[indices[x]], Args(dec)[indices[x]]>>]

\* The constraint a condition with q-constants puts on their values. (The
\* sampling of more than 50 decodings only picks the polarity and is left out.)
ConstraintOver(fact, indices, possible, impossible) ==
    LET paths(S) == {DecodingToPath(fact, d, indices) : d \in S}
    IN FixPolarity([Constraint([x \in DOMAIN indices |-> Args(fact)[indices[x]]])
                       EXCEPT !.valid = InsertAll(@, paths(possible)),
                              !.invalid = InsertAll(@, paths(impossible))], "undecided")
ConditionConstraint(an, op, lit) ==
    LET sorts == GetOpSortsForCondition(lit[2], op)
        decodings(reachable) == {d \in Decodings(lit[2], sorts) : IsReachable(an, <<lit[1], d>>) = reachable}
    IN ConstraintOver(lit[2], SortedArgIndices(lit[2], sorts), decodings(TRUE), decodings(FALSE))

AddQFact(w, l, p, lit, decodings) ==
    [w EXCEPT !.layers[l][p].qfacts = @ \cup {lit[2]}, !.layers[l][p].dec = AddTo(@, lit, decodings)]
InitializeAll(w, l, p, facts) == FoldSet(LAMBDA f, x : InitializeRelevant(x, l, p, f), w, facts)
AddDecodings(w, l, p, lit, undecided, addQFact) ==
    InitializeAll(IF undecided # {} /\ addQFact THEN AddQFact(w, l, p, lit, undecided) ELSE w, l, p, undecided)
Undecided(an, lit) == IsReachable(an, lit) /\ ~IsInvariant(an, lit)
AddPrecondition(w, l, p, op, lit, addQFact) ==
    IF HasQConstants(lit[2])
    THEN AddDecodings(w, l, p, lit, {d \in Decodings(lit[2], GetOpSortsForCondition(lit[2], op)) :
                                        Undecided(w.an, <<lit[1], d>>)}, addQFact)
    ELSE InitializeAll(w, l, p, {f \in {lit[2]} : IsReachable(w.an, Opposite(lit))})

\* A repetition's conditions are kept for the action it repeats.
Owner(op) == IF IsActionRepetition(op[1]) THEN Renamed(op, htn.rep[op[1]]) ELSE op
AddCondition(w, l, p, op, lit) ==
    [AddPrecondition(w, l, p, op, lit, ~IsActionRepetition(op[1])) EXCEPT !.layers[l][p].constraints =
        IF HasQConstants(lit[2]) THEN AppendTo(@, Owner(op), ConditionConstraint(w.an, op, lit)) ELSE @]
AddTypes(pos, op, types) == IF types = {} THEN pos ELSE [pos EXCEPT !.types = AddTo(@, op, types)]
AddPreconditionsAndConstraints(w, l, p, op) ==
    [FoldSet(LAMBDA lit, x : AddCondition(x, l, p, op, lit), w, OpPreconditions(op)) EXCEPT !.layers[l][p] =
        AddTypes([@ EXCEPT !.constraints = [o \in DOMAIN @ |-> IF o = op THEN MergeAll(@[o]) ELSE @[o]]], op,
                 IF IsActionRepetition(op[1]) THEN {} ELSE QConstantTypeConstraints(op))]
AddPreconditionConstraints(w, l, p) ==
    FoldLeft(LAMBDA x, ops : FoldSet(LAMBDA o, y : AddPreconditionsAndConstraints(y, l, p, o), x, ops), w,
             <<w.layers[l][p].actions, w.layers[l][p].reds>>)

\* Decodings of a q-effect no constraint of the operation excludes: those
\* over the same q-constants are exact, the others a filter.
ValidEffectDecodings(left, op, fact) ==
    LET sorts == GetOpSortsForCondition(fact, op)
        indices == SortedArgIndices(fact, sorts)
        involved == [x \in DOMAIN indices |-> Args(fact)[indices[x]]]
        cs == IF op \in DOMAIN left.constraints THEN ToSet(left.constraints[op]) ELSE {}
    IN {d \in Decodings(fact, sorts) : \A c \in cs : Passes(c, involved, DecodingToPath(fact, d, indices))}

\* Other operations leave a mark that something may change the fact.
IsSupport(w, op) == w.opt.nps \/ IsAction(op)
\* addEffect: mode is "direct", "direct_no_qfact" or "indirect".
AddGroundEffect(w, l, p, op, lit, mode) ==
    LET v == IF mode = "indirect" THEN w ELSE [w EXCEPT !.an = AddRelevant(@, lit[2])]
        s == [v EXCEPT !.layers[l][p].supp = AddTo(@, lit, IF IsSupport(w, op) THEN {op} ELSE {})]
    IN IF IsInvariant(w.an, lit) THEN w ELSE [s EXCEPT !.an = AddReachable(@, lit)]
AddEffect(w, l, p, op, lit, mode) ==
    LET fact == lit[2]
        sorts == GetOpSortsForCondition(fact, op)
        indices == SortedArgIndices(fact, sorts)
        changed(x, d) ==
          LET key == <<lit[1], d>>
              old == IF key \in DOMAIN x.layers[l][p].isupp THEN x.layers[l][p].isupp[key] ELSE <<>>
              tree == IF op \in DOMAIN old THEN old[op] ELSE EmptyTree
              reach == [x EXCEPT !.an = AddReachable(@, key)]
              supported ==
                IF IsSupport(w, op)
                THEN [reach EXCEPT !.layers[l][p].isupp =
                        (key :> ((op :> Insert(tree, DecodingToPath(fact, d, indices))) @@ old)) @@ @]
                ELSE [reach EXCEPT !.layers[l][p].supp = AddTo(@, key, {})]
              decoded == IF mode # "direct" THEN supported
                         ELSE [supported EXCEPT !.layers[l][p].dec = AddTo(@, <<lit[1], fact>>, {d}),
                                                !.layers[l][p].qfacts = @ \cup {fact}]
          IN IF IsInvariant(x.an, key) THEN x
             ELSE IF mode = "indirect" THEN decoded ELSE [decoded EXCEPT !.an = AddRelevant(@, d)]
    IN IF ~HasQConstants(fact) THEN AddGroundEffect(w, l, p, op, lit, mode)
       ELSE FoldSet(LAMBDA d, x : changed(x, d), w, ValidEffectDecodings(w.layers[l][p - 1], op, fact))
EffectPossible(left, op, lit) == ~HasQConstants(lit[2]) \/ ValidEffectDecodings(left, op, lit[2]) # {}

\* createNextPositionFromLeft: the effects of the operations to the left; an
\* action with an effect that has no valid decoding is pruned, with its
\* repetition. (The code stops at the first such effect, in hash order; the
\* model adds the action's possible effects, a superset of what any order adds.)
AddEffectsOf(w, l, p, op) ==
    LET mode == CASE ~IsAction(op) -> "indirect"
                  [] IsActionRepetition(op[1]) -> "direct_no_qfact"
                  [] OTHER -> "direct"
    IN FoldSet(LAMBDA lit, x : AddEffect(x, l, p, Owner(op), lit, mode), [w EXCEPT !.an = EraseCached(@, op)],
               {lit \in PossibleFactChanges(w.an, op) : EffectPossible(w.layers[l][p - 1], Owner(op), lit)})
HasImpossibleEffect(left, a) == \E lit \in TableAction(a).eff : ~EffectPossible(left, Owner(a), lit)
WithRepetitions(actions) == actions \cup {Renamed(a, Repeated(a[1])) : a \in actions}
CreateNextPositionFromLeft(w, l, p) ==
    LET left == w.layers[l][p - 1]
    IN PruneAll(FoldLeft(LAMBDA x, ops : FoldSet(LAMBDA o, y : AddEffectsOf(y, l, p, o), x, ops), w,
                         <<left.actions, left.reds>>),
                left.actions \cap WithRepetitions({a \in left.actions : HasImpossibleEffect(left, a)}), l, p - 1)

PropagateInitialState(w, l) ==
    LET above == w.layers[l - 1][0]
        facts == above.trueFacts \cup above.falseFacts
        an == FoldSet(LAMBDA f, a : AddInitialized(a, f), ResetReachability(w.an), facts)
    IN [w EXCEPT !.an = an, !.layers[l][0].trueFacts = above.trueFacts,
                            !.layers[l][0].falseFacts = above.falseFacts]

-----------------------------------------------------------------------------
(* Operations                                                              *)

HasSomeInstantiation(name) == \A i \in DOMAIN GetSorts(name) : htn.sorts[GetSorts(name)[i]] # {}
\* What is checked when a method is instantiated.
Checked(r) == r.pre \cup r.extra
Applicable(an, sig, pre) == HasValidPreconditions(an, pre) /\ HasSomeInstantiation(sig[1])

\* The action that stands for all instances of a primitive task here, if any.
InstantiateAllActionsOfTask(an, task, l, p) ==
    IF ~IsAction(task) \/ ~Applicable(an, task, ToAction(task).pre) THEN {}
    ELSE LET sig == ReplaceVariables(task, ReducedArgumentDomains(an, task, ToAction(task).pre), l, p)
         IN {s \in {sig} : /\ IsFullyGround(s)
                           /\ HasConsistentlyTypedArgs(task)
                           /\ HasValidPreconditions(an, ToAction(s).pre)}

CreateValidReduction(an, sig, task, l, p) ==
    LET new == ReplaceVariables(sig, ReducedArgumentDomains(an, sig, ToReduction(sig).pre), l, p)
    IN {s \in {new} : /\ task = <<>> \/ ToReduction(s).task = task
                      /\ IsFullyGround(s)
                      /\ HasConsistentlyTypedArgs(s)
                      /\ HasValidPreconditions(an, Checked(ToReduction(s)))}

\* One reduction or, for a primitivizable method, action per method of the
\* task and substitution of its arguments.
InstantiateMethod(an, m, task, l, p) ==
    LET r == htn.methods[m]
        subs == GetAll(Args(r.task), Args(task))
        sig(s) == SubstSig(<<m, r.args>>, s)
    IN IF m \in DOMAIN htn.prim
       THEN UNION {InstantiateAllActionsOfTask(an, SubstSig(<<htn.prim[m], htn.ops[htn.prim[m]].args>>, s),
                                               l, p) : s \in subs}
       ELSE UNION {CreateValidReduction(an, sig(s), task, l, p) :
                   s \in {t \in subs : HasConsistentlyTypedArgs(sig(t)) /\
                                       Applicable(an, sig(t), Checked(ToReduction(sig(t))))}}
InstantiateAllReductionsOfTask(an, task, l, p) ==
    IF ~HasReductions(task[1]) THEN {}
    ELSE UNION {InstantiateMethod(an, m, task, l, p) : m \in htn.reds[task[1]]}

AddOperation(pos, op) ==
    IF IsAction(op) THEN [pos EXCEPT !.actions = @ \cup {op}]
    ELSE [pos EXCEPT !.reds = @ \cup {op}, !.size = Max({@, Len(ToReduction(op).subtasks)})]
AddExpansion(pos, parent, child) ==
    [pos EXCEPT !.exp = @ \cup {<<parent, child>>}, !.pred = @ \cup {<<child, parent>>}]
AddChild(w, l, p, parent, child) ==
    [w EXCEPT !.layers[l][p] = AddExpansion(AddOperation(@, child), parent, child)]

\* An action above stays or is repeated at offset 0 and followed by blanks.
RepeatActions(w, l, p, oldPos, offset) ==
    LET child(a) == IF offset > 0 THEN BlankSig
                    ELSE IF ~w.opt.aar \/ IsActionRepetition(a[1]) THEN a ELSE Renamed(a, Repeated(a[1]))
    IN FoldSet(LAMBDA a, x : AddChild(x, l, p, a, child(a)), w, w.layers[l - 1][oldPos].actions)
PropagateActions(w, l, p, oldPos, offset) ==
    RepeatActions(
      PruneAll(w, {a \in w.layers[l - 1][oldPos].actions : ~HasValidPreconditions(w.an, TableAction(a).pre)},
               l - 1, oldPos),
      l, p, oldPos, offset)

ChildrenOf(an, r, offset, l, p) ==
    LET subtasks == ToReduction(r).subtasks
    IN IF offset >= Len(subtasks) THEN {BlankSig}
       ELSE InstantiateAllActionsOfTask(an, subtasks[offset + 1], l, p) \cup
            InstantiateAllReductionsOfTask(an, subtasks[offset + 1], l, p)
AddChildren(w, l, p, oldPos, children) ==
    PruneAll(FoldSet(LAMBDA r, x : FoldSet(LAMBDA c, y : AddChild(y, l, p, r, c), x, children[r]), w, DOMAIN children),
             {r \in DOMAIN children : children[r] = {}}, l - 1, oldPos)
PropagateReductions(w, l, p, oldPos, offset) ==
    AddChildren(w, l, p, oldPos, [r \in w.layers[l - 1][oldPos].reds |-> ChildrenOf(w.an, r, offset, l, p)])

CreateNextPositionFromAbove(w, l, p) ==
    LET oldPos == OldPos(w.layers[l - 1], p)
        offset == Offset(w.layers[l - 1], p)
    IN AddPreconditionConstraints(
         PropagateReductions(PropagateActions(w, l, p, oldPos, offset), l, p, oldPos, offset), l, p)

-----------------------------------------------------------------------------
(* Dominated operations                                                    *)

ValuesOf(t) == IF IsQConstant(t) THEN DomainOf(t) ELSE {t}
\* Variant: domains are compared by their size alone.
ComparableBySize(s, t) == IsQConstant(s) /\ IsQConstant(t)
Comparable(s, t) ==
    /\ IsQConstant(s) \/ IsQConstant(t)
    /\ IsQConstant(s) /\ IsQConstant(t) => s[1] = t[1] /\ s[2] = t[2]
    /\ ValuesOf(s) \subseteq ValuesOf(t) \/ ValuesOf(t) \subseteq ValuesOf(s)

\* getDominationStatus: argument by argument. An argument that makes op the
\* larger one after another made it the smaller one ends the comparison; the
\* converse is not noticed and the last word stands.
StatusAfter(status, s, t) ==
    CASE s = t \/ status = "different" -> status
      [] ~Comparable(s, t) -> "different"
      [] ValuesOf(s) = ValuesOf(t) -> status
      [] status = "dominated" -> "different"
      [] OTHER -> IF ValuesOf(t) \subseteq ValuesOf(s) THEN "dominating" ELSE "dominated"
\* Equal operations: the q-constant created first has the larger id.
TieBreak(op, other) ==
    LET i == Min({j \in DOMAIN Args(op) : Args(op)[j] # Args(other)[j]})
    IN IF Args(op)[i][4] > Args(other)[i][4] THEN "dominated" ELSE "dominating"
DominationStatus(op, other) ==
    LET status == FoldLeft(LAMBDA s, i : StatusAfter(s, Args(op)[i], Args(other)[i]), "equivalent",
                           [i \in DOMAIN Args(op) |-> i])
    IN IF op[1] # other[1] THEN "different"
       ELSE IF status = "equivalent" THEN TieBreak(op, other) ELSE status
\* Which term takes the value of which: the one with fewer values is mapped
\* to the other one, of two with the same values the dominated operation's.
\* Entries of one term overwrite each other, those for equal domains last;
\* equal terms have an entry too when all domains are equal.
DominationSubstitution(small, big) ==
    LET s == Args(small)
        b == Args(big)
        same(i) == ValuesOf(s[i]) = ValuesOf(b[i])
        equivalent == \A i \in DOMAIN s : same(i)
        entries == {i \in DOMAIN s : IF equivalent THEN IsQConstant(b[i]) ELSE s[i] # b[i]}
        source(i) == IF ValuesOf(s[i]) \subseteq ValuesOf(b[i]) THEN s[i] ELSE b[i]
        target(i) == IF ValuesOf(s[i]) \subseteq ValuesOf(b[i]) THEN b[i] ELSE s[i]
        rank(i) == IF same(i) THEN Len(s) + i ELSE i
        last(t) == CHOOSE i \in entries : source(i) = t /\ \A j \in entries : source(j) = t => rank(j) <= rank(i)
    IN [t \in {source(i) : i \in entries} |-> target(last(t))]

\* eliminateDominatedOperations: dom maps each operation that dominates to the
\* ones it absorbed. An operation neither dominating nor dominated is
\* compared with no later one unless it was the first of its name.
TakeOver(taken, o, subst) == (o :> subst) @@ [x \in DOMAIN taken |-> Concatenate(taken[x], subst)]
AddDominated(dom, op, winner) == [dom EXCEPT ![winner] = (op :> DominationSubstitution(op, winner)) @@ @]
AddDominating(dom, op, under) ==
    (op :> FoldSet(LAMBDA o, f : TakeOver(dom[o], o, DominationSubstitution(o, op)) @@ f, <<>>, under))
    @@ [o \in DOMAIN dom \ under |-> dom[o]]
AbsorbBetween(dom, op, over, under) ==
    CASE dom = <<>> -> (op :> <<>>)
      [] over # {} -> AddDominated(dom, op, CHOOSE o \in over : TRUE)
      [] under # {} -> AddDominating(dom, op, under)
      [] OTHER -> dom
Absorb(dom, op) ==
    LET rivals(status) == {o \in DOMAIN dom : DominationStatus(op, o) = status}
    IN AbsorbBetween(dom, op, rivals("dominated"), rivals("dominating"))
ReplaceOperation(pos, from, to, s) ==
    LET parents == {e[2] : e \in {x \in pos.pred : x[1] = from}}
        v == FoldSet(LAMBDA par, x : AddExpansion(x, par, to), RemoveOccurrence(pos, from), parents)
    IN [v EXCEPT !.esub = [e \in {<<par, to>> : par \in parents} |-> s] @@ @]
Replacements(dom) == UNION {{<<x, o, dom[o][x]>> : x \in DOMAIN dom[o]} : o \in DOMAIN dom}
EliminateDominated(pos) ==
    FoldSet(LAMBDA t, x : ReplaceOperation(x, t[1], t[2], t[3]), pos,
            UNION {Replacements(FoldLeft(Absorb, <<>>, SetToSeq({o \in Ops(pos) : o[1] = n}))) :
                   n \in {o[1] : o \in Ops(pos)}})

-----------------------------------------------------------------------------
(* Whole positions                                                         *)

\* Everything the operations here may change has a value here.
GroundChanges(an, op) ==
    UNION {IF HasQConstants(lit[2]) THEN Decodings(lit[2], GetOpSortsForCondition(lit[2], op)) ELSE {lit[2]} :
           lit \in PossibleFactChanges(an, op)}
InitializeNextEffectsOf(w, l, p, op) ==
    [FoldSet(LAMBDA f, x : InitializeFact(x, l, p, f), w, GroundChanges(w.an, op))
       EXCEPT !.an = Remember(@, op, @.full)]
InitializeNextEffects(w, l, p) ==
    FoldLeft(LAMBDA x, ops : FoldSet(LAMBDA o, y : InitializeNextEffectsOf(y, l, p, o), x, ops), w,
             <<w.layers[l][p].actions, w.layers[l][p].reds>>)

StartPosition(w, l, p) == IF p = 0 THEN PropagateInitialState(w, l) ELSE CreateNextPositionFromLeft(w, l, p)
FillPosition(w, l, p) == IF l = 0 THEN w ELSE CreateNextPositionFromAbove(w, l, p)
CreateNextPosition(w, l, p) ==
    InitializeNextEffects([FillPosition(StartPosition(w, l, p), l, p) EXCEPT
                             !.layers[l][p] = IF w.opt.edo THEN EliminateDominated(@) ELSE @], l, p)

\* createFirstLayer without its encoding: the instances of the initial
\* reduction, then the goal action.
AddAxioms(pos, ops) == FoldSet(LAMBDA o, x : [AddOperation(x, o) EXCEPT !.axiomatic = @ \cup {o}], pos, ops)
InitialReductions(an) ==
    LET r == <<htn.initRed, htn.methods[htn.initRed].args>>
    IN IF Applicable(an, r, Checked(ToReduction(r))) THEN CreateValidReduction(an, r, <<>>, 0, 0) ELSE {}
FirstPosition(w) ==
    InitializeNextEffects(AddPreconditionConstraints(
      [w EXCEPT !.layers[0][0] = AddAxioms(@, InitialReductions(w.an))], 0, 0), 0, 0)
InstantiateFirstLayer(w) ==
    AddPreconditionConstraints(
      [CreateNextPosition(FirstPosition([w EXCEPT !.layers = (0 :> EmptyLayer(2))]), 0, 1)
         EXCEPT !.layers[0][1] = AddAxioms(@, {GoalSig})], 0, 1)
AllocateLayer(w, l) == [w EXCEPT !.layers = (l :> EmptyLayer(NextLayerSize(@[l - 1]))) @@ @]
=============================================================================
