----------------------------- MODULE HtnSemantics -----------------------------
(***************************************************************************)
(* What a parsed problem means, with no layers, q-constants or variables:  *)
(* its solutions, and when a printed plan is one.  n is the network of the *)
(* problem as its constructor leaves it (Network), before any mining; no   *)
(* surrogate and no repetition is used.                                    *)
(***************************************************************************)
EXTENDS Decoding

Holds(s, lits) == \A lit \in lits : (lit[2] \in s) # lit[1]
Apply(s, eff) == (s \ {e[2] : e \in {x \in eff : x[1]}}) \cup {e[2] : e \in {x \in eff : ~x[1]}}
Instance(op, args) == Substitution(op.args, args)

\* Methods with every choice of well-typed arguments.
GroundMethods(n, task) ==
    UNION {{<<m, args>> : args \in
              {a \in ArgCombinations([i \in DOMAIN n.sig[m] |-> n.sorts[n.sig[m][i]]]) :
                 SubstReduction(n.methods[m], Instance(n.methods[m], a)).task = task}} : m \in n.reds[task[1]]}
Ground(n, m) == SubstReduction(n.methods[m[1]], Instance(n.methods[m[1]], m[2]))

\* The runs [acts, state] a task may lead to from state s when methods nest
\* at most d deep.
RECURSIVE Runs(_, _, _, _)
Runs(n, task, s, d) ==
    LET act == SubstAction(n.ops[task[1]], Instance(n.ops[task[1]], Args(task)))
        after(runs, t) == UNION {{[acts |-> r.acts \o q.acts, state |-> q.state] : q \in Runs(n, t, r.state, d - 1)} :
                                 r \in runs}
        method(m) == LET r == Ground(n, m)
                     IN IF ~Holds(s, r.pre) \/ (d = 0 /\ r.subtasks # <<>>) THEN {}
                        ELSE FoldLeft(after, {[acts |-> <<>>, state |-> s]}, r.subtasks)
    IN IF task[1] \in DOMAIN n.ops
       THEN IF Holds(s, act.pre) THEN {[acts |-> <<task>>, state |-> Apply(s, act.eff)]} ELSE {}
       ELSE UNION {method(m) : m \in GroundMethods(n, task)}
Solutions(n, d) ==
    {r.acts : r \in {x \in Runs(n, n.methods[n.initRed].task, n.init, d) : Holds(x.state, n.goal)}}

-----------------------------------------------------------------------------
(* A printed plan read back.                                               *)

Lines(out) == out.decompositions \cup ToSet(out.actions)
LineOf(out, id) == CHOOSE i \in Lines(out) : i.id = id
Tasks(out, ids) == [k \in DOMAIN ids |-> LineOf(out, ids[k]).task]
Referenced(out) == FoldSet(LAMBDA i, s : s \o i.sub, out.root, out.decompositions)

\* Every line has an id of its own and is mentioned once.
WellFormed(out) ==
    /\ \A i, j \in Lines(out) : i.id = j.id => i = j
    /\ Cardinality(ToSet(out.actions)) = Len(out.actions)
    /\ ToSet(Referenced(out)) = {i.id : i \in Lines(out)}
    /\ Len(Referenced(out)) = Cardinality(Lines(out))

IsMethodOf(n, line) ==
    /\ line.red[1] \in DOMAIN n.methods
    /\ line.red \in GroundMethods(n, line.task)

\* Walking the tree from state s: the states it ends in and the actions met;
\* no result where a line does not do what its task needs.
RECURSIVE Walk(_, _, _, _)
Walk(n, out, acc, id) ==
    LET line == LineOf(out, id)
        act == SubstAction(n.ops[line.task[1]], Instance(n.ops[line.task[1]], Args(line.task)))
        r == Ground(n, line.red)
    IN CASE ~acc.ok -> acc
         [] line \in ToSet(out.actions) ->
              [ok |-> Holds(acc.state, act.pre), state |-> Apply(acc.state, act.eff), ids |-> Append(acc.ids, id)]
         [] ~IsMethodOf(n, line) -> [acc EXCEPT !.ok = FALSE]
         [] OTHER -> FoldLeft(LAMBDA a, c : Walk(n, out, a, c),
                              [acc EXCEPT !.ok = Holds(acc.state, r.pre) /\ Tasks(out, line.sub) = r.subtasks], line.sub)
IsSolution(n, out) ==
    LET end == FoldLeft(LAMBDA a, c : Walk(n, out, a, c), [ok |-> TRUE, state |-> n.init, ids |-> <<>>], out.root)
        ids == [k \in DOMAIN out.actions |-> out.actions[k].id]
    IN /\ WellFormed(out)
       /\ end.ok /\ end.ids = ids /\ Holds(end.state, n.goal)
       /\ \E m \in GroundMethods(n, n.methods[n.initRed].task) :
            Holds(n.init, Ground(n, m).pre) /\ Tasks(out, out.root) = Ground(n, m).subtasks
=============================================================================
