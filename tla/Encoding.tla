------------------------------- MODULE Encoding -------------------------------
(***************************************************************************)
(* Encoding::encode (sat/encoding.cpp) with VariableProvider: the clauses  *)
(* of one position, and the memory given back once it is encoded.          *)
(*                                                                         *)
(* Variables are tuples:                                                   *)
(*   <<n>>          operation, fact or primitiveness variable number n     *)
(*   <<q, c>>       q-constant q stands for c: the substitution variable,  *)
(*                  and the element of the trees of module Literals        *)
(*   <<q, r, "=">>  q-constants q and r are equal                          *)
(* (the code numbers the last two with the same counter, on first use).    *)
(* A literal is <<positive, variable>>, a clause a set of literals.  Of    *)
(* the encoder's state (module SolverInterface) qs are the q-constants     *)
(* with clauses, newFacts the fact variables made at this position, prim   *)
(* and nonprim the operation variables of the position encoded last.       *)
(***************************************************************************)
EXTENDS Instantiation

Lit(negated, var) == <<~negated, var>>
Pos(var) == <<TRUE, var>>
Neg(var) == <<FALSE, var>>
AddClauses(w, clauses) == [w EXCEPT !.enc = AddClausesTo(@, clauses)]

PrimitiveSig == <<"__PRIMITIVE___", <<>>>>
VarsOf(table, keys) == {table[k] : k \in DOMAIN table \cap keys}
VarPrimitive(pos) == VarsOf(pos.opVars, {PrimitiveSig})

AbovePos(w, l, p) == IF l = 0 THEN EmptyPosition ELSE w.layers[l - 1][OldPos(w.layers[l - 1], p)]
LeftPos(w, l, p) == IF p = 0 THEN EmptyPosition ELSE w.layers[l][p - 1]
LeftOfAbove(w, l, p) ==
    IF l = 0 THEN EmptyPosition ELSE LeftPos(w, l - 1, OldPos(w.layers[l - 1], p))
AtOffsetZero(w, l, p) == l = 0 \/ Offset(w.layers[l - 1], p) = 0

-----------------------------------------------------------------------------
(* Variables                                                               *)

NewOpVar(w, l, p, sig) ==
    [w EXCEPT !.layers[l][p].opVars = (sig :> <<w.enc.next>>) @@ @, !.enc = NewVar(@, sig, l, p)]
NewFactVar(w, l, p, fact) ==
    [w EXCEPT !.layers[l][p].factVars = (fact :> <<w.enc.next>>) @@ @,
              !.enc = [NewVar(@, fact, l, p) EXCEPT !.newFacts = @ \cup {<<w.enc.next>>}]]
\* Variants are plausible slips the runs are shown to detect; no other
\* definition uses them. Here: the next variable takes the number left out.
KeepVariable(w) == w
SkipVariable(w) == [w EXCEPT !.enc = NextVar(@)]

\* A position with primitive operations only has no primitiveness variable,
\* but a number is left out for it.
IsPrimitiveOp(op) == IsAction(op) \/ ToReduction(op).subtasks = <<>>
EncodeOperationVariables(w, l, p) ==
    LET pos == w.layers[l][p]
        new(sig, x) == NewOpVar(x, l, p, sig)
        v == FoldSet(new, FoldSet(new, w, pos.actions), pos.reds)
        prim == {op \in Ops(pos) : IsPrimitiveOp(op)}
        flagged == [v EXCEPT !.layers[l][p].hasPrim = (prim # {}),
                             !.layers[l][p].hasNonprim = (prim # Ops(pos))]
        var(op) == v.layers[l][p].opVars[op]
        primVar == <<v.enc.next>>
    IN CASE w.opt.ip -> [flagged EXCEPT !.enc.prim = {var(op) : op \in prim},
                                        !.enc.nonprim = {var(op) : op \in Ops(pos) \ prim}]
         [] ~w.opt.ip /\ prim = Ops(pos) -> SkipVariable(flagged)
         [] OTHER -> AddClauses(NewOpVar(flagged, l, p, PrimitiveSig),
                       IF prim = {} THEN {{Neg(primVar)}}
                       ELSE {{Neg(var(op)), Lit(op \notin prim, primVar)} : op \in Ops(pos)})

Supported(pos, fact) == \E lit \in {<<TRUE, fact>>, <<FALSE, fact>>} :
                            lit \in DOMAIN pos.supp \cup DOMAIN pos.isupp
GroundFacts(table) == {f \in DOMAIN table : ~HasQConstants(f)}

\* Facts that cannot change keep the variable they have at the left.
FrameVariables(w, l, p) ==
    LET left == LeftPos(w, l, p)
        assign(fact, x) ==
          CASE fact \in DOMAIN x.layers[l][p].factVars -> x
            [] Supported(w.layers[l][p], fact) -> NewFactVar(x, l, p, fact)
            [] OTHER -> [x EXCEPT !.layers[l][p].factVars = (fact :> left.factVars[fact]) @@ @]
    IN FoldSet(assign, w, GroundFacts(left.factVars))

\* Variant: left out whatever the operations above were.
AnyFrameAxiomAbove(w, l, p, fact) == AtOffsetZero(w, l, p) /\ fact \in DOMAIN AbovePos(w, l, p).factVars
\* Frame axioms are left out where the operations above were a superset.
RedundantFrameAxiom(w, l, p, fact) ==
    LET left == LeftPos(w, l, p)
        above == LeftOfAbove(w, l, p)
    IN /\ w.opt.srfa /\ AtOffsetZero(w, l, p)
       /\ ~left.hasNonprim /\ ~above.hasNonprim
       /\ Cardinality(Ops(left)) <= Cardinality(Ops(above))
       /\ fact \in DOMAIN AbovePos(w, l, p).factVars

\* Variant: the repetition of an action does not keep its facts.
WithoutRepetition(op) == {op}
WithRepetition(op) == {op, Renamed(op, Repeated(op[1]))}
\* Literals that hold when the position to the left is not primitive; with
\* ip the code takes the operations of the position encoded last, which is
\* this one.
Wildcard(w, left) ==
    CASE w.opt.nps -> {}
      [] ~w.opt.nps /\ w.opt.ip -> {Pos(v) : v \in w.enc.nonprim}
      [] OTHER -> {Neg(v) : v \in VarPrimitive(left)}
\* A fact that changes is changed by an operation that may do so, or the
\* position to the left is not primitive; an operation that only changes it
\* for some values of its q-constants needs such values.
FrameAxioms(w, l, p) ==
    LET pos == w.layers[l][p]
        left == LeftPos(w, l, p)
        changing == {f \in GroundFacts(left.factVars) :
                       left.factVars[f] # pos.factVars[f] /\ ~RedundantFrameAxiom(w, l, p, f)}
        header(lit) == {Lit(lit[1], left.factVars[lit[2]]), Lit(~lit[1], pos.factVars[lit[2]])}
        direct(lit) == At(pos.supp, lit)
        indirect(lit) == IF lit \notin DOMAIN pos.isupp THEN <<>>
                         ELSE [op \in DOMAIN pos.isupp[lit] \ direct(lit) |-> pos.isupp[lit][op]]
        opVars(ops) == VarsOf(left.opVars, UNION {WithRepetition(op) : op \in ops})
        supported(lit) == lit \in DOMAIN pos.supp \cup DOMAIN pos.isupp
        frame(lit) == header(lit) \cup
                      (IF ~supported(lit) THEN {}
                       ELSE Wildcard(w, left) \cup
                            {Pos(v) : v \in opVars(direct(lit) \cup DOMAIN indirect(lit))})
        conditions(lit) ==
          UNION {{header(lit) \cup {Neg(v)} \cup c : v \in opVars({op}), c \in EncodeTree(indirect(lit)[op], <<>>)} :
                 op \in {o \in DOMAIN indirect(lit) : ~ContainsEmpty(indirect(lit)[o])}}
        lits == {<<neg, f>> : neg \in BOOLEAN, f \in changing}
    IN IF ~left.hasPrim THEN {} ELSE {frame(lit) : lit \in lits} \cup UNION {conditions(lit) : lit \in lits}

\* A q-fact keeps the variable of the left when it stands there for all it
\* stands for here.
ReuseQFact(pos, left, qfact) ==
    \A key \in {<<neg, qfact>> : neg \in BOOLEAN} \cap DOMAIN pos.dec :
        /\ qfact \in DOMAIN left.factVars /\ key \in DOMAIN left.dec
        /\ pos.dec[key] \subseteq left.dec[key]
        /\ \A d \in pos.dec[key] : /\ d \in DOMAIN pos.factVars \cap DOMAIN left.factVars
                                   /\ pos.factVars[d] = left.factVars[d]
QFactVariables(w, l, p) ==
    LET above == AbovePos(w, l, p)
        left == LeftPos(w, l, p)
        set(x, qfact, var) == [x EXCEPT !.layers[l][p].factVars = (qfact :> var) @@ @]
        assign(qfact, x) ==
          CASE AtOffsetZero(w, l, p) /\ qfact \in DOMAIN above.factVars -> set(x, qfact, above.factVars[qfact])
            [] ReuseQFact(x.layers[l][p], left, qfact) -> set(x, qfact, left.factVars[qfact])
            [] OTHER -> NewFactVar(x, l, p, qfact)
    IN FoldSet(assign, w, {q \in w.layers[l][p].qfacts :
                             \E neg \in BOOLEAN : <<neg, q>> \in DOMAIN w.layers[l][p].dec})

\* Facts with a definite value here.
DefiniteLits(w, l, p) ==
    {lit \in {<<TRUE, f>> : f \in w.layers[l][p].falseFacts} \cup {<<FALSE, f>> : f \in w.layers[l][p].trueFacts} :
       lit[2] \in w.an.relevant}
NewFactVars(w, l, p, facts) ==
    FoldSet(LAMBDA f, x : IF f \in DOMAIN x.layers[l][p].factVars THEN x ELSE NewFactVar(x, l, p, f), w, facts)
DefiniteFacts(w, l, p) ==
    LET lits == DefiniteLits(w, l, p)
        old == DOMAIN w.layers[l][p].factVars
        v == NewFactVars(w, l, p, {lit[2] : lit \in lits})
        var(f) == v.layers[l][p].factVars[f]
    IN AddClauses(v, {{Lit(lit[1], var(lit[2]))} :
                        lit \in {k \in lits : k[2] \notin old \/ var(k[2]) \in w.enc.newFacts}})

EncodeFactVariables(w, l, p) ==
    LET above == AbovePos(w, l, p)
        inherited == IF l = 0 \/ ~AtOffsetZero(w, l, p) THEN w
                     ELSE [w EXCEPT !.layers[l][p].factVars =
                             [f \in GroundFacts(above.factVars) |-> above.factVars[f]] @@ @]
        started == [inherited EXCEPT !.enc.newFacts = {}]
        framed == IF p = 0 THEN NewFactVars(started, l, p, {lit[2] : lit \in DefiniteLits(w, l, p)})
                  ELSE LET v == FrameVariables(started, l, p) IN AddClauses(v, FrameAxioms(v, l, p))
    IN DefiniteFacts(QFactVariables(framed, l, p), l, p)

-----------------------------------------------------------------------------
(* Clauses over the variables                                              *)

\* At most one of them: pairwise, or from the threshold on with the binary
\* numbers of module Literals. The digits are numbered, and have no text.
Pairwise(vars) == {{Neg(v) : v \in pair} : pair \in {s \in SUBSET vars : Cardinality(s) = 2}}
Binary(w, states) ==
    LET count == Len(states)
        var(k) == IF k <= count THEN states[k] ELSE <<w.enc.next + k - count - 1>>
        lit(k) == IF k > 0 THEN Pos(var(k)) ELSE Neg(var(-k))
    IN {{lit(k) : k \in c} : c \in BinaryAtMostOne([i \in 1..count |-> i], count + 1, count + 1)}
AddDigits(w, count) == [w EXCEPT !.enc.next = @ + NumDigits(count + 1)]
AtMostOne(w, vars) ==
    IF Cardinality(vars) < w.opt.bamot THEN AddClauses(w, Pairwise(vars))
    ELSE AddDigits(AddClauses(w, Binary(w, SetToSeq(vars))), Cardinality(vars))

\* A new q-constant takes exactly one value of its domain when its operation
\* occurs.
QArgs(op) == {t \in ToSet(Args(op)) : IsQConstant(t)}
OwnOps(pos) == {op \in Ops(pos) : ~IsActionRepetition(op[1])}
NewQConstants(w, pos) == UNION {QArgs(op) : op \in OwnOps(pos)} \ w.enc.qs
SubstitutionVars(q) == {<<q, c>> : c \in DomainOf(q)}
SubstitutionClauses(w, pos) ==
    LET new == NewQConstants(w, pos)
    IN UNION {{{Neg(pos.opVars[op])} \cup {Pos(v) : v \in SubstitutionVars(q)} : q \in QArgs(op) \cap new} :
              op \in OwnOps(pos)}
\* Variant: actions only.
ActionPreconditionClauses(pos) ==
    UNION {{{Neg(pos.opVars[op]), Lit(lit[1], pos.factVars[lit[2]])} :
            lit \in {k \in OpPreconditions(op) : k[2] \in DOMAIN pos.factVars}} : op \in pos.actions}
PreconditionClauses(pos) ==
    UNION {{{Neg(pos.opVars[op]), Lit(lit[1], pos.factVars[lit[2]])} :
            lit \in {k \in OpPreconditions(op) : k[2] \in DOMAIN pos.factVars}} : op \in OwnOps(pos)}
EncodeOperationConstraints(w, l, p) ==
    LET pos == w.layers[l][p]
        clauses == SubstitutionClauses(w, pos) \cup PreconditionClauses(pos)
        valued == FoldSet(LAMBDA q, x : AtMostOne(x, SubstitutionVars(q)), AddClauses(w, clauses), NewQConstants(w, pos))
    IN AtMostOne([valued EXCEPT !.enc.qs = @ \cup NewQConstants(w, pos)], VarsOf(pos.opVars, Ops(pos)))

\* The substitution variables that make a q-fact the decoding d.
SubstVars(qfact, d) ==
    {<<Args(qfact)[i], Args(d)[i]>> : i \in {j \in DOMAIN Args(d) : Args(qfact)[j] # Args(d)[j]}}

\* A q-fact implies the decoding chosen for it; what the variable already
\* means from above or from the left is not said again.
EncodeQFactSemantics(w, l, p) ==
    LET pos == w.layers[l][p]
        above == IF l > 0 /\ AtOffsetZero(w, l, p) THEN AbovePos(w, l, p) ELSE EmptyPosition
        left == LeftPos(w, l, p)
        same(other, q) == q \in DOMAIN other.factVars /\ other.factVars[q] = pos.factVars[q]
        old(q) == pos.factVars[q] \notin w.enc.newFacts
        asAbove(key) == old(key[2]) /\ same(above, key[2]) /\ key \in DOMAIN above.dec
        asLeft(key) == old(key[2]) /\ ~asAbove(key) /\ same(left, key[2])
        decodings(key) == (pos.dec[key] \cap DOMAIN pos.factVars) \ (IF asAbove(key) THEN above.dec[key] ELSE {})
        keys == {key \in DOMAIN pos.dec : key[2] \in pos.qfacts /\ ~asLeft(key)}
    IN AddClauses(w, UNION {{{Neg(v) : v \in SubstVars(key[2], d)} \cup
                             {Lit(~key[1], pos.factVars[key[2]]), Lit(key[1], pos.factVars[d])} :
                             d \in decodings(key)} : key \in keys})

\* encodeQConstEquality: the clauses that define the equality variable (the
\* code adds them on first use).
EqualityVar(q, r) == <<q, r, "=">>
EqualityDefinition(q, r) ==
    LET eq == EqualityVar(q, r)
        good == DomainOf(q) \cap DomainOf(r)
        bad == {<<q, c>> : c \in DomainOf(q) \ good} \cup {<<r, c>> : c \in DomainOf(r) \ good}
    IN IF good = {} THEN {{Neg(eq)}}
       ELSE UNION {{{Neg(eq), Pos(<<q, c>>), Neg(<<r, c>>)}, {Neg(eq), Neg(<<q, c>>), Pos(<<r, c>>)},
                    {Neg(<<q, c>>), Neg(<<r, c>>), Pos(eq)}} : c \in good}
            \cup {{Neg(v), Neg(eq)} : v \in bad}
\* What makes two terms equal: nothing to do, a variable, or nothing at all.
Fits(s, t) ==
    \/ s = t
    \/ IsQConstant(s) /\ (IsQConstant(t) \/ t \in DomainOf(s))
    \/ IsQConstant(t) /\ ~IsQConstant(s) /\ s \in DomainOf(t)
UnifyingVar(s, t) == CASE IsQConstant(s) /\ IsQConstant(t) -> EqualityVar(s, t)
                       [] IsQConstant(s) -> <<s, t>>
                       [] OTHER -> <<t, s>>

\* The variables under which a negative effect meets a positive one (in the
\* order of the arguments; the code sorts them by number).
Unifier(neg, pos) ==
    LET differ == SelectSeq([i \in DOMAIN Args(neg) |-> i], LAMBDA i : Args(neg)[i] # Args(pos)[i])
    IN [x \in DOMAIN differ |-> UnifyingVar(Args(neg)[differ[x]], Args(pos)[differ[x]])]
Unifiable(neg, pos) ==
    neg[1] = pos[1] /\ \A i \in DOMAIN Args(neg) : Fits(Args(neg)[i], Args(pos)[i])

\* Effects of the actions to the left: a negative effect holds unless it is
\* unified with a positive effect of the same action.
EffectClauses(pos, opVar, effects, eff, tc) ==
    LET rivals == {e[2] : e \in {k \in effects : ~k[1] /\ k[2] \in DOMAIN pos.factVars /\ Unifiable(eff[2], k[2])}}
        unifiers == IF eff[1] THEN {Unifier(eff[2], r) : r \in rivals} ELSE {}
        equalities == UNION {{v \in ToSet(u) : Len(v) = 3} : u \in unifiers}
        factVar == pos.factVars[eff[2]]
    IN CASE <<>> \in unifiers -> {}
         [] unifiers = {} -> {{Neg(opVar), Lit(eff[1], factVar)}}
         [] OTHER -> (IF tc THEN EncodeTree(InsertAll(EmptyTree, unifiers), <<opVar, factVar>>)
                      ELSE {{Neg(opVar), Neg(factVar)} \cup {Pos(v) : v \in c} : c \in GetCnf(SetToSeq(unifiers))})
                     \cup UNION {EqualityDefinition(v[1], v[2]) : v \in equalities}
EncodeActionEffects(w, l, p) ==
    LET pos == w.layers[l][p]
        left == LeftPos(w, l, p)
        effects(a) == TableAction(a).eff
    IN AddClauses(w, UNION {UNION {EffectClauses(pos, left.opVars[a], effects(a), eff, w.opt.tc) :
                                   eff \in {e \in effects(a) : e[2] \in DOMAIN pos.factVars}} :
                            a \in left.actions \cap OwnOps(left)})

\* Types and possible values of the q-constants of the operations here.
TypeClauses(opVar, c) ==
    IF c.sign THEN {{Neg(opVar)} \cup {Pos(<<c.q, k>>) : k \in c.constants}}
    ELSE {{Neg(opVar), Neg(<<c.q, k>>)} : k \in c.constants}
EncodeQConstraints(w, l, p) ==
    LET pos == w.layers[l][p]
        typed == {op \in DOMAIN pos.types : op \in DOMAIN pos.opVars}
        constrained == Ops(pos) \cap DOMAIN pos.constraints
    IN AddClauses([w EXCEPT !.layers[l][p].constraints = <<>>],
         UNION {UNION {TypeClauses(pos.opVars[op], c) : c \in pos.types[op]} : op \in typed}
         \cup UNION {UNION {{{Neg(pos.opVars[op])} \cup clause : clause \in ConstraintEncoding(c)} :
                            c \in ToSet(pos.constraints[op])} : op \in constrained})

\* Expansions, predecessors, and what a dominating operation takes from the
\* terms of the operations it stands for.
SubstitutionClause(par, child, src, dest) ==
    {{Neg(par), Neg(child), Pos(IF IsQConstant(src) THEN EqualityVar(dest, src) ELSE <<dest, src>>)}}
    \cup (IF IsQConstant(src) THEN EqualityDefinition(dest, src) ELSE {})
EncodeSubtaskRelationships(w, l, p) ==
    LET pos == w.layers[l][p]
        above == AbovePos(w, l, p)
        parents == {e[1] : e \in pos.exp}
        children == {e[1] : e \in pos.pred}
        expansion(par) == {Neg(above.opVars[par])} \cup {Pos(pos.opVars[e[2]]) : e \in {x \in pos.exp : x[1] = par}}
        predecessors(c) == {Neg(pos.opVars[c])} \cup {Pos(above.opVars[e[2]]) : e \in {x \in pos.pred : x[1] = c}}
        replaced == {e \in DOMAIN pos.esub : e[1] \in parents /\ e[2] \in DOMAIN pos.opVars}
        taken(e) == UNION {SubstitutionClause(above.opVars[e[1]], pos.opVars[e[2]], t, pos.esub[e][t]) :
                           t \in DOMAIN pos.esub[e]}
    IN IF pos.actions = {BlankSig} /\ pos.reds = {} THEN w
       ELSE AddClauses(w, {expansion(par) : par \in parents} \cup {predecessors(c) : c \in {x \in children : w.opt.p}}
                          \cup UNION {taken(e) : e \in replaced})

EncodeAxiomaticOps(w, l, p) ==
    LET pos == w.layers[l][p]
    IN IF pos.axiomatic = {} THEN w ELSE AddClauses(w, {{Pos(pos.opVars[op]) : op \in pos.axiomatic}})

EncodeVariables(w, l, p) == EncodeFactVariables(EncodeOperationVariables(w, l, p), l, p)
EncodeConditions(w, l, p) == EncodeQFactSemantics(EncodeOperationConstraints(w, l, p), l, p)
EncodeEffects(w, l, p) == EncodeQConstraints(EncodeActionEffects(w, l, p), l, p)
EncodeRelationships(w, l, p) == EncodeAxiomaticOps(EncodeSubtaskRelationships(w, l, p), l, p)
Encode(w, l, p) ==
    EncodeRelationships(EncodeEffects(EncodeConditions(EncodeVariables(w, l, p), l, p), l, p), l, p)

\* addAssumptions: the positions of the layer are primitive.
Assumptions(layer) == UNION {{Pos(v) : v \in VarPrimitive(layer[p])} : p \in DOMAIN layer}
\* With ip the variables are made here; a primitive position has an operation
\* among the primitive ones of the position encoded last.
ImplicitPrimitiveness(w, l) ==
    FoldSet(LAMBDA p, x : LET v == IF VarPrimitive(x.layers[l][p]) = {} THEN NewOpVar(x, l, p, PrimitiveSig) ELSE x
                          IN AddClauses(v, {{Neg(o) : o \in VarPrimitive(v.layers[l][p])} \cup {Pos(o) : o \in v.enc.prim}}),
            w, DOMAIN w.layers[l])
AddAssumptions(w, l) ==
    LET v == IF w.opt.ip THEN ImplicitPrimitiveness(w, l) ELSE w
    IN [v EXCEPT !.enc = Assume(@, Assumptions(v.layers[l]))]

-----------------------------------------------------------------------------
(* clearDonePositions                                                      *)

ClearAtPastPosition(pos) ==
    [pos EXCEPT !.qfacts = {}, !.esub = <<>>, !.axiomatic = {}, !.types = <<>>, !.constraints = <<>>,
                !.supp = <<>>, !.isupp = <<>>]
ClearAtPastLayer(pos) ==
    [pos EXCEPT !.dec = <<>>, !.trueFacts = {}, !.falseFacts = {}, !.factVars = <<>>]
LastPos(layer) == LayerSize(layer) - 1
ClearDonePositions(w, l, p) ==
    LET oldPos == OldPos(w.layers[l - 1], p)
        left == IF p = 0 THEN <<l - 1, LastPos(w.layers[l - 1])>> ELSE <<l, p - 1>>
        above == IF oldPos > 0 THEN {<<l - 1, oldPos - 1>>}
                 ELSE IF l > 1 THEN {<<l - 2, LastPos(w.layers[l - 2])>>} ELSE {}
        v == [w EXCEPT !.layers[left[1]][left[2]] = ClearAtPastPosition(@)]
    IN IF ~AtOffsetZero(w, l, p) THEN v
       ELSE FoldSet(LAMBDA a, x : [x EXCEPT !.layers[a[1]][a[2]] = ClearAtPastLayer(@)], v, above)
=============================================================================
