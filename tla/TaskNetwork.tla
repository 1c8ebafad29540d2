----------------------------- MODULE TaskNetwork -----------------------------
(***************************************************************************)
(* The task network Lilotane plans over: HtnInstance (data/htn_instance),  *)
(* its operations HtnOp / Action / Reduction, signatures, substitutions    *)
(* and NetworkTraversal.                                                   *)
(*                                                                         *)
(* A term is a tuple whose length tells its kind, as the ranges of the     *)
(* integer ids do in the code:                                             *)
(*   <<"a">>                       a constant                              *)
(*   <<"x", "m">>                  variable x of the operation m;          *)
(*                                 <<"x", "">> before convertArguments     *)
(*   <<layer, pos, sort, k, dom>>  a q-constant: what its name spells out  *)
(* A signature (USignature) is <<name, arguments>> and a literal           *)
(* (Signature) is <<negated, signature>>.                                  *)
(*                                                                         *)
(* The parser (libpanda) is external: a parsed problem is a record         *)
(*   sorts       sort -> its constants                                     *)
(*   preds       predicate -> sorts of its arguments                       *)
(*   primitives  set of [name, vars, prec, constraints, eff]               *)
(*   methods     set of [name, at, atargs, vars, constraints, steps, order]*)
(*   top, init, goal                                                       *)
(* where vars is a sequence of <<variable, sort>> and steps one of <<tag,  *)
(* task, arguments>>.                                                      *)
(***************************************************************************)
EXTENDS Integers, Sequences, FiniteSets, SequencesExt

\* The HtnInstance: read-only once the constructor and the mining of
\* preconditions are done.
VARIABLE htn

IsVariable(t) == Len(t) = 2
IsQConstant(t) == Len(t) = 5
IsConstant(t) == Len(t) = 1

Args(sig) == sig[2]
Positive(sig) == <<FALSE, sig>>
HasQConstants(sig) == \E i \in DOMAIN Args(sig) : IsQConstant(Args(sig)[i])
IsFullyGround(sig) == \A i \in DOMAIN Args(sig) : ~IsVariable(Args(sig)[i])

-----------------------------------------------------------------------------
(* Substitutions: functions on the terms they replace.                     *)

\* What the constructor makes of two argument lists: a term that is mapped to
\* itself has no entry, and add() prepends, so the last of several entries of
\* one term is the one found.
Substitution(src, dest) ==
    LET moved == {i \in DOMAIN src : src[i] # dest[i]}
        last(t) == CHOOSE i \in moved :
                     src[i] = t /\ \A j \in moved : src[j] = t => j <= i
    IN [t \in {src[i] : i \in moved} |-> dest[last(t)]]

SubstTerm(t, s) == IF t \in DOMAIN s THEN s[t] ELSE t
SubstSig(sig, s) == <<sig[1], [i \in DOMAIN Args(sig) |-> SubstTerm(Args(sig)[i], s)]>>
SubstLit(lit, s) == <<lit[1], SubstSig(lit[2], s)>>
SubstLits(lits, s) == {SubstLit(l, s) : l \in lits}

\* First s, then t on its results; entries of t that s does not have stay.
Concatenate(s, t) ==
    [x \in DOMAIN s \cup DOMAIN t |->
        IF x \in DOMAIN s THEN SubstTerm(s[x], t) ELSE t[x]]

\* All substitutions that map the terms src to dest: a term met again with
\* another image branches into one substitution per image.
GetAll(src, dest) ==
    LET entry(i) == src[i] :> dest[i]
        branch(ss, i) ==
          IF src[i] = dest[i] THEN ss
          ELSE {entry(i) @@ s : s \in ss} \cup
               {s \in ss : src[i] \in DOMAIN s /\ s[src[i]] # dest[i]}
    IN FoldLeft(branch, {<<>>}, [i \in DOMAIN src |-> i])

SubstAction(a, s) ==
    [args |-> [i \in DOMAIN a.args |-> SubstTerm(a.args[i], s)],
     pre |-> SubstLits(a.pre, s), eff |-> SubstLits(a.eff, s)]
SubstReduction(r, s) ==
    [args |-> [i \in DOMAIN r.args |-> SubstTerm(r.args[i], s)],
     pre |-> SubstLits(r.pre, s), extra |-> SubstLits(r.extra, s), task |-> SubstSig(r.task, s),
     subtasks |-> [i \in DOMAIN r.subtasks |-> SubstSig(r.subtasks[i], s)]]

-----------------------------------------------------------------------------
(* From the parsed problem to operators and methods.                       *)

ConvertArguments(owner, args) ==
    [i \in DOMAIN args |-> IF IsVariable(args[i]) THEN <<args[i][1], owner>> ELSE args[i]]
ConvertSignature(owner, lit) ==
    <<lit[1], <<lit[2][1], ConvertArguments(owner, Args(lit[2]))>>>>
VarNames(vars) == [i \in DOMAIN vars |-> vars[i][1]]
VarSorts(vars) == [i \in DOMAIN vars |-> vars[i][2]]

DummyEqual == "__equal"
IsEquality(lit) == lit[2][1] = DummyEqual
EqualityPredicate(sort) == "__equal_" \o sort \o "_" \o sort

\* The typed equality predicate an equality literal stands for: the sort of
\* its argument with more constants, of the second one when they are equal.
EqualitySort(sorts, lit, vars) ==
    LET sortOf(t) == (CHOOSE v \in ToSet(vars) : v[1] = t)[2]
        s1 == sortOf(Args(lit[2])[1])
        s2 == sortOf(Args(lit[2])[2])
    IN IF Cardinality(sorts[s1]) > Cardinality(sorts[s2]) THEN s1 ELSE s2
ExtractEqualityConstraints(sorts, owner, lits, vars) ==
    {<<l[1], <<EqualityPredicate(EqualitySort(sorts, l, vars)),
               ConvertArguments(owner, Args(l[2]))>>>> : l \in {k \in lits : IsEquality(k)}}

\* A negative effect whose positive form is an effect too is dropped.
RemoveInconsistentEffects(eff) == {e \in eff : ~(e[1] /\ Positive(e[2]) \in eff)}

CreateAction(p, task) ==
    LET conv(lits) == {ConvertSignature(task.name, l) : l \in lits}
    IN [args |-> ConvertArguments(task.name, VarNames(task.vars)),
        pre |-> ExtractEqualityConstraints(p.sorts, task.name, task.constraints \cup task.prec,
                                           task.vars) \cup conv(task.prec),
        eff |-> RemoveInconsistentEffects(conv(task.eff))]

\* Variant of the next definition (no other definition uses it): nodes are
\* appended when they are closed.
RECURSIVE TopologicalOrderAppended(_, _, _, _)
TopologicalOrderAppended(succ, stack, visited, sorted) ==
    LET fresh == {n \in DOMAIN succ : visited[n] = 0}
        n == Last(stack)
        opened == [visited EXCEPT ![n] = 1]
    IN IF stack = <<>>
       THEN IF fresh = {} THEN sorted
            ELSE TopologicalOrderAppended(succ, <<Min(fresh)>>, visited, sorted)
       ELSE CASE visited[n] = 2 -> TopologicalOrderAppended(succ, Front(stack), visited, sorted)
              [] visited[n] = 1 -> TopologicalOrderAppended(succ, Front(stack), [visited EXCEPT ![n] = 2],
                                                            Append(sorted, n))
              [] OTHER -> TopologicalOrderAppended(succ,
                    stack \o SelectSeq(IF n \in DOMAIN succ THEN succ[n] ELSE <<>>,
                                       LAMBDA m : opened[m] < 2), opened, sorted)

\* Reduction::orderSubtasks: a topological order by depth-first searches from
\* the nodes of the ordering, smallest first; a node is written in front of
\* the order when it is closed. Nodes are the indices of the subtasks and
\* succ their successors in the order the constraints list them.
RECURSIVE TopologicalOrder(_, _, _, _)
TopologicalOrder(succ, stack, visited, sorted) ==
    IF stack = <<>>
    THEN LET fresh == {n \in DOMAIN succ : visited[n] = 0}
         IN IF fresh = {} THEN sorted
            ELSE TopologicalOrder(succ, <<CHOOSE n \in fresh : \A k \in fresh : n <= k>>,
                                  visited, sorted)
    ELSE LET n == Last(stack) IN
         CASE visited[n] = 2 -> TopologicalOrder(succ, Front(stack), visited, sorted)
           [] visited[n] = 1 -> TopologicalOrder(succ, Front(stack), [visited EXCEPT ![n] = 2],
                                                 <<n>> \o sorted)
           [] OTHER ->
                LET opened == [visited EXCEPT ![n] = 1]
                    next == IF n \in DOMAIN succ THEN succ[n] ELSE <<>>
                IN TopologicalOrder(succ,
                       stack \o SelectSeq(next, LAMBDA m : opened[m] < 2), opened, sorted)

\* A tag that no subtask has (a compiled-out precondition's) is looked up as
\* the first subtask.
OrderSubtasks(subtasks, tags, order) ==
    LET index(tag) == IF tag \in ToSet(tags) THEN CHOOSE i \in DOMAIN tags : tags[i] = tag ELSE 1
        left == {index(o[1]) : o \in ToSet(order)}
        succ == [n \in left |-> LET out == SelectSeq(order, LAMBDA o : index(o[1]) = n)
                                IN [j \in DOMAIN out |-> index(out[j][2])]]
        sorted == TopologicalOrder(succ, <<>>, [n \in DOMAIN tags |-> 0], <<>>)
    IN IF order = <<>> THEN subtasks ELSE [i \in DOMAIN subtasks |-> subtasks[sorted[i]]]

\* The primitive task that holds a compiled-out method precondition.
PreconditionTask(p, name) == CHOOSE t \in p.primitives : t.name = name
IsPreconditionStep(p, step) == step[2] \in p.methodPreconditions

\* createReduction: steps that are method preconditions hand their literals,
\* and the parameters the method lacks, to the method; the others are its
\* subtasks, sorted by the ordering constraints.
PreconditionTasks(p, m) ==
    {PreconditionTask(p, st[2]) : st \in {k \in ToSet(m.steps) : IsPreconditionStep(p, k)}}
CondLiterals(p, m) ==
    m.constraints \cup UNION {t.prec \cup t.constraints : t \in PreconditionTasks(p, m)}
MethodVars(p, m) ==
    LET add(vars, step) ==
          IF ~IsPreconditionStep(p, step) THEN vars
          ELSE vars \o SelectSeq(PreconditionTask(p, step[2]).vars,
                                 LAMBDA v : IsVariable(v[1]) /\ v[1] \notin ToSet(VarNames(vars)))
    IN FoldLeft(add, m.vars, m.steps)
CreateReduction(p, m) ==
    LET vars == MethodVars(p, m)
        cond == CondLiterals(p, m)
        steps == SelectSeq(m.steps, LAMBDA st : ~IsPreconditionStep(p, st))
        subtasks == [i \in DOMAIN steps |-> <<steps[i][2], ConvertArguments(m.name, steps[i][3])>>]
    IN [args |-> ConvertArguments(m.name, VarNames(vars)),
        pre |-> ExtractEqualityConstraints(p.sorts, m.name, cond, vars) \cup
                {ConvertSignature(m.name, l) : l \in {k \in cond : ~IsEquality(k)}},
        extra |-> {},
        task |-> <<m.at, ConvertArguments(m.name, m.atargs)>>,
        subtasks |-> OrderSubtasks(subtasks, [i \in DOMAIN steps |-> steps[i][1]], m.order)]

\* The sorts that got a typed equality predicate, and the facts of these
\* predicates that the initial state holds.
EqualitySorts(p) ==
    LET used(lits, vars) == {EqualitySort(p.sorts, l, vars) : l \in {k \in lits : IsEquality(k)}}
    IN UNION {used(t.constraints \cup t.prec, t.vars) : t \in p.primitives}
       \cup UNION {used(CondLiterals(p, m), MethodVars(p, m)) : m \in p.methods}
GetInitState(p) ==
    p.init \cup UNION {{<<EqualityPredicate(s), <<c, c>>>> : c \in p.sorts[s]} : s \in EqualitySorts(p)}

Blank == "__BLANK___"
GoalAction == "<goal_action>"
NoOp == [args |-> <<>>, pre |-> {}, eff |-> {}]
Surrogate(method, child) == "__SURROGATE*" \o method \o "*" \o child \o "*"
Repeated(action) == "__REPEATED_" \o action

\* primitivizeSimpleReductions: a method whose only subtask is primitive
\* becomes an action with the preconditions of both and the child's effects.
IsPrimitivizable(ops, r) == Len(r.subtasks) = 1 /\ r.subtasks[1][1] \in DOMAIN ops
CreateSurrogate(ops, r) ==
    LET child == ops[r.subtasks[1][1]]
        act == SubstAction(child, Substitution(child.args, Args(r.subtasks[1])))
    IN [args |-> r.args, pre |-> r.pre \cup act.pre, eff |-> act.eff]

NamesOf(S) == {x.name : x \in S}
ByName(S) == [n \in NamesOf(S) |-> CHOOSE x \in S : x.name = n]
\* Surrogates: name -> method and child; repetitions: name -> action.
Parts(ops, methods) ==
    LET simple == {m \in DOMAIN methods : IsPrimitivizable(ops, methods[m])}
        pairs == {<<m, methods[m].subtasks[1][1]>> : m \in simple}
    IN [x \in {Surrogate(s[1], s[2]) : s \in pairs} |-> CHOOSE s \in pairs : Surrogate(s[1], s[2]) = x]
Repetitions(ops) == [x \in {Repeated(a) : a \in DOMAIN ops} |-> CHOOSE a \in DOMAIN ops : Repeated(a) = x]
WithSurrogates(ops, methods, parts, goal) ==
    ops @@ [x \in DOMAIN parts |-> CreateSurrogate(ops, methods[parts[x][1]])]
    @@ (Blank :> NoOp) @@ (GoalAction :> [NoOp EXCEPT !.pre = goal])
\* The sorts of the arguments of every predicate, operator and method.
Signatures(p) ==
    p.preds
    @@ [n \in NamesOf(p.primitives) |-> VarSorts(ByName(p.primitives)[n].vars)]
    @@ [n \in NamesOf(p.methods) |-> VarSorts(MethodVars(p, ByName(p.methods)[n]))]
    @@ [x \in {EqualityPredicate(s) : s \in EqualitySorts(p)} |->
          [i \in 1..2 |-> CHOOSE s \in DOMAIN p.sorts : EqualityPredicate(s) = x]]
    @@ (Blank :> <<>>) @@ (GoalAction :> <<>>)
\* Other names (those of a function) take what they stand for has.
Extended(table, names) == table @@ [x \in DOMAIN names |-> table[names[x]]]

\* The constructor. Repetitions are made on demand in the code
\* (getRepetitionOfAction); their templates depend on the action only.
Completed(p, methods, parts, ops) ==
    LET rep == Repetitions(ops) IN
    [sorts |-> p.sorts,
     sig |-> Extended(Extended(Signatures(p), [x \in DOMAIN parts |-> parts[x][1]]), rep),
     ops |-> Extended(ops, rep),
     methods |-> methods,
     reds |-> [t \in {r.at : r \in p.methods} |-> {r.name : r \in {m \in p.methods : m.at = t}}],
     prim |-> [m \in {parts[x][1] : x \in DOMAIN parts} |-> CHOOSE x \in DOMAIN parts : parts[x][1] = m],
     parts |-> parts, rep |-> rep, init |-> GetInitState(p), goal |-> p.goal,
     initRed |-> p.top]
WithParts(p, ops, methods, parts) == Completed(p, methods, parts, WithSurrogates(ops, methods, parts, p.goal))
WithOperations(p, psr, ops, methods) == WithParts(p, ops, methods, IF psr THEN Parts(ops, methods) ELSE <<>>)
\* psr: are surrogates made?
NetworkOf(p, psr) ==
    WithOperations(p, psr, [n \in NamesOf(p.primitives) |-> CreateAction(p, ByName(p.primitives)[n])],
                           [n \in NamesOf(p.methods) |-> CreateReduction(p, ByName(p.methods)[n])])
Network(p) == NetworkOf(p, TRUE)

-----------------------------------------------------------------------------
(* Queries on the network.                                                 *)

IsAction(sig) == sig[1] \in DOMAIN htn.ops
IsReduction(sig) == sig[1] \in DOMAIN htn.methods
HasReductions(task) == task \in DOMAIN htn.reds
IsActionRepetition(name) == name \in DOMAIN htn.rep
IsSurrogate(name) == name \in DOMAIN htn.parts
GetSorts(name) == htn.sig[name]
BlankSig == <<Blank, <<>>>>
GoalSig == <<GoalAction, <<>>>>
Renamed(sig, name) == <<name, Args(sig)>>

ToAction(sig) == LET a == htn.ops[sig[1]] IN SubstAction(a, Substitution(a.args, Args(sig)))
ToReduction(sig) == LET r == htn.methods[sig[1]] IN SubstReduction(r, Substitution(r.args, Args(sig)))

\* The operation table: an action enters it after instantiateAllActionsOfTask
\* dropped its contradictory effects, a repetition enters it as it is.
TableAction(sig) ==
    LET a == ToAction(sig)
    IN IF IsActionRepetition(sig[1]) THEN a ELSE [a EXCEPT !.eff = RemoveInconsistentEffects(@)]

DomainOf(q) == q[5]
SortsOfQConstant(q) == {s \in DOMAIN htn.sorts : DomainOf(q) \subseteq htn.sorts[s]}

\* replaceVariablesWithQConstants: the new arguments, or the old ones when no
\* valid substitution exists. The q-constants of one operation and sort are
\* told apart by a counter.
ReplaceVariables(sig, domains, layer, pos) ==
    LET args == Args(sig)
        sorts == GetSorts(sig[1])
        free == {i \in DOMAIN args : IsVariable(args[i])}
        open == {i \in free : Cardinality(domains[i]) > 1}
        counter(i) == Cardinality({j \in open : j < i /\ sorts[j] = sorts[i]})
        new(i) == IF i \notin free THEN args[i]
                  ELSE IF i \in open THEN <<layer, pos, sorts[i], counter(i), domains[i]>>
                  ELSE CHOOSE c \in domains[i] : TRUE
    IN IF domains = <<>> \/ \E i \in free : domains[i] = {} THEN sig
       ELSE <<sig[1], [i \in DOMAIN args |-> new(i)]>>

\* Constants each argument may stand for; empty when one has none, or when
\* there is nothing to decode.
GetEligibleArgs(sig, restrictiveSorts) ==
    LET args == Args(sig)
        domain(i) == IF IsConstant(args[i]) THEN {args[i]}
                     ELSE (IF IsQConstant(args[i]) THEN DomainOf(args[i])
                           ELSE htn.sorts[GetSorts(sig[1])[i]])
                          \cap (IF restrictiveSorts = <<>> THEN UNION {htn.sorts[s] : s \in DOMAIN htn.sorts}
                                ELSE htn.sorts[restrictiveSorts[i]])
        all == [i \in DOMAIN args |-> domain(i)]
    IN IF (~HasQConstants(sig) /\ IsFullyGround(sig)) \/ \E i \in DOMAIN all : all[i] = {}
       THEN <<>> ELSE all

\* ArgIterator: every combination of eligible arguments.
ArgCombinations(eligible) ==
    {f \in [DOMAIN eligible -> UNION ToSet(eligible)] : \A i \in DOMAIN eligible : f[i] \in eligible[i]}
DecodeObjects(sig, eligible) ==
    IF eligible = <<>> THEN {} ELSE {<<sig[1], f>> : f \in ArgCombinations(eligible)}
Decodings(sig, sorts) == DecodeObjects(sig, GetEligibleArgs(sig, sorts))

Placeholder(i) == <<"$", ToString(i)>>
IsPlaceholder(t) == IsVariable(t) /\ t[1] = "$"
\* getFullInstantiation: all instances of the free arguments; placeholders
\* stay.
FullInstantiation(sig) ==
    LET args == Args(sig)
        choices == [i \in DOMAIN args |->
                      IF IsVariable(args[i]) /\ ~IsPlaceholder(args[i])
                      THEN htn.sorts[GetSorts(sig[1])[i]] ELSE {args[i]}]
    IN IF \E i \in DOMAIN args : choices[i] = {} THEN {} ELSE DecodeObjects(sig, choices)

\* Constants at q-constants: valid when some value of the domain has the sort.
HasConsistentlyTypedArgs(sig) ==
    \A i \in DOMAIN Args(sig) :
        LET arg == Args(sig)[i]
            constants == htn.sorts[GetSorts(sig[1])[i]]
        IN CASE IsVariable(arg) -> TRUE
             [] IsQConstant(arg) -> DomainOf(arg) \cap constants # {}
             [] OTHER -> arg \in constants

\* For q-constants with values of the wrong sort: be one of the good values or
\* none of the bad ones, whichever list is shorter.
QConstantTypeConstraints(sig) ==
    LET args == Args(sig)
        constants(i) == htn.sorts[GetSorts(sig[1])[i]]
        good(i) == DomainOf(args[i]) \cap constants(i)
        bad(i) == DomainOf(args[i]) \ constants(i)
    IN {IF Cardinality(good(i)) >= Cardinality(bad(i))
        THEN [q |-> args[i], sign |-> TRUE, constants |-> good(i)]
        ELSE [q |-> args[i], sign |-> FALSE, constants |-> bad(i)] :
        i \in {j \in DOMAIN args : IsQConstant(args[j]) /\
                                   GetSorts(sig[1])[j] \notin SortsOfQConstant(args[j])}}

\* The sort an operation gives each argument of one of its conditions.
GetOpSortsForCondition(sig, op) ==
    LET first(t) == {i \in DOMAIN Args(op) : Args(op)[i] = t /\
                                             \A j \in 1..(i - 1) : Args(op)[j] # t}
    IN [k \in DOMAIN Args(sig) |->
          IF first(Args(sig)[k]) = {} THEN ""
          ELSE GetSorts(op[1])[CHOOSE i \in first(Args(sig)[k]) : TRUE]]

\* Variables match anything, other terms only themselves.
IsUnifiable(from, to) ==
    /\ from[1] = to[1] /\ Len(Args(from)) = Len(Args(to))
    /\ \A i \in DOMAIN Args(from) : IsVariable(Args(from)[i]) \/ Args(from)[i] = Args(to)[i]

-----------------------------------------------------------------------------
(* NetworkTraversal.                                                       *)

\* All operations that may stand at a subtask.
ChildrenOfSubtask(task) ==
    IF IsAction(task) THEN {task}
    ELSE UNION {LET r == htn.methods[m]
                IN {SubstSig(<<m, r.args>>, s) : s \in GetAll(Args(r.task), Args(task))} :
                m \in htn.reds[task[1]]}
GetPossibleChildren(sig) ==
    IF IsReduction(sig) THEN UNION {ChildrenOfSubtask(t) : t \in ToSet(ToReduction(sig).subtasks)}
    ELSE {}

\* Signatures are compared with their variables numbered by position.
Normalize(sig) ==
    LET args == Args(sig)
        first(t) == CHOOSE i \in DOMAIN args : args[i] = t /\ \A j \in 1..(i - 1) : args[j] # t
    IN <<sig[1], [i \in DOMAIN args |->
                    IF IsVariable(args[i]) /\ ~IsPlaceholder(args[i])
                    THEN <<"??", ToString(first(args[i]))>> ELSE args[i]]>>
\* A child's terms, placeholders excepted, are renamed before it is expanded.
RenameTerm(t) == CASE IsPlaceholder(t) -> t
                   [] IsVariable(t) -> <<t[1], t[2] \o "_">>
                   [] OTHER -> <<t[1] \o "_">>
Rename(sig) == <<sig[1], [i \in DOMAIN Args(sig) |-> RenameTerm(Args(sig)[i])]>>

\* The operations visited below and including sig, up to renaming.
RECURSIVE Traverse(_, _)
Traverse(frontier, seen) ==
    LET new == {Normalize(n) : n \in frontier} \ seen
    IN IF new = {} THEN seen
       ELSE Traverse(UNION {{Rename(c) : c \in GetPossibleChildren(n)} : n \in new}, seen \cup new)
=============================================================================
