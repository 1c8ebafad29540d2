------------------------------- MODULE Decoding -------------------------------
(***************************************************************************)
(* From a model of the formula to the printed plan: Decoder (sat/decoder.h)*)
(* and PlanWriter (algo/plan_writer.cpp).                                  *)
(*                                                                         *)
(* A model is the set of its true variables.  A plan item (PlanItem) is    *)
(* [id, task, red, sub]: the variable that stands for it, the task, the    *)
(* reduction chosen for it and the ids of its subtasks; id -1 is no item.  *)
(***************************************************************************)
EXTENDS Encoding

NoSig == <<"", <<>>>>
NoItem == [id |-> -1, task |-> NoSig, red |-> NoSig, sub |-> <<>>]
Item(id, task, red, sub) == [id |-> id, task |-> task, red |-> red, sub |-> sub]
Id(var) == var[1]

\* getDecodedQOp: every q-constant becomes the value the model gives it; no
\* result when it has none.
ValueIn(model, q) == {c \in DomainOf(q) : <<q, c>> \in model}
DecodedQOp(model, sig) ==
    LET value(t) == IF IsQConstant(t) THEN CHOOSE c \in ValueIn(model, t) : TRUE ELSE t
    IN IF \E q \in QArgs(sig) : ValueIn(model, q) = {} THEN {}
       ELSE {<<sig[1], [i \in DOMAIN Args(sig) |-> value(Args(sig)[i])]>>}

Chosen(model, pos) ==
    {sig \in DOMAIN pos.opVars : pos.opVars[sig] \in model /\ (IsAction(sig) \/ IsReduction(sig))}
Unrepeated(sig) == IF IsActionRepetition(sig[1]) THEN Renamed(sig, htn.rep[sig[1]]) ELSE sig

\* The actions of the last layer, one item per position.
ExtractClassicalPlan(model, layer) ==
    [p \in DOMAIN layer |->
       LET items == UNION {{Item(Id(layer[p].opVars[a]), d, d, <<>>) : d \in DecodedQOp(model, Unrepeated(a))} :
                           a \in {s \in Chosen(model, layer[p]) : IsAction(s)}}
       IN IF items = {} THEN NoItem ELSE CHOOSE i \in items : TRUE]

\* The position of the last layer an action of an inner layer ends up at.
FinalPos(layers, l, p) ==
    LET pos[k \in l..(Cardinality(DOMAIN layers) - 1)] ==
          IF k = l THEN p ELSE SuccessorPos(layers[k - 1], pos[k - 1])
    IN pos[Cardinality(DOMAIN layers) - 1]

\* extractPlan, one operation of one position: acc holds the items of the
\* layer above (old) and of this layer (new).
AddSubtask(acc, pred, id) == [acc EXCEPT !.old[pred].sub = Append(@, id)]
ExtractAction(acc, layers, classical, l, p, pred) ==
    LET id == classical[FinalPos(layers, l, p)].id
    IN IF id > 0 /\ l > 0 THEN AddSubtask(acc, pred, id) ELSE acc
ExtractReduction(acc, layers, l, p, pred, id, dec) ==
    LET parent == ToReduction(acc.old[pred].red)
        offset == Offset(layers[l - 1], p)
        task == ToReduction(dec).task
    IN IF parent.subtasks[offset + 1] = task /\ Len(acc.old[pred].sub) <= offset
       THEN AddSubtask([acc EXCEPT !.new[p] = Item(id, task, dec, <<>>)], pred, id)
       ELSE acc
RootTask == <<"root", <<>>>>
ExtractOperation(acc, model, layers, classical, l, p, sig) ==
    LET pred == IF l = 0 THEN 0 ELSE OldPos(layers[l - 1], p)
        decoded == DecodedQOp(model, sig)
        dec == CHOOSE d \in decoded : TRUE
    IN CASE IsAction(sig) ->
              IF sig = BlankSig \/ IsActionRepetition(sig[1]) THEN acc
              ELSE ExtractAction(acc, layers, classical, l, p, pred)
         [] decoded = {} -> acc
         [] l = 0 -> [acc EXCEPT !.new[0] = Item(0, RootTask, dec, <<>>)]
         [] OTHER -> ExtractReduction(acc, layers, l, p, pred, Id(layers[l][p].opVars[sig]), dec)
Items(row) == [i \in 1..Cardinality(DOMAIN row) |-> row[i - 1]]
ExtractPlan(model, layers) ==
    LET last == Cardinality(DOMAIN layers) - 1
        classical == ExtractClassicalPlan(model, layers[last])
        position(acc, l, p) ==
          FoldSet(LAMBDA s, a : ExtractOperation(a, model, layers, classical, l, p, s), acc, Chosen(model, layers[l][p]))
        level(acc, l) ==
          LET start == [old |-> acc.new, new |-> [p \in DOMAIN layers[l] |-> NoItem], plan |-> acc.plan]
              end == FoldLeft(LAMBDA a, i : position(a, l, i - 1), start, [i \in 1..LayerSize(layers[l]) |-> i])
          IN [end EXCEPT !.plan = @ \o Items(end.old)]
        all == FoldLeft(LAMBDA a, i : level(a, i - 1), [new |-> <<>>, plan |-> <<>>], [i \in 1..(last + 1) |-> i])
    IN [classical |-> Items(classical), items |-> all.plan \o Items(all.new)]

-----------------------------------------------------------------------------
(* outputPlan.  A surrogate is printed as the action it holds, and as a    *)
(* decomposition of its own whose id is the action's minus one.            *)

IsNamed(sig) == sig[1] \in DOMAIN htn.parts
SurrogateReduction(item) == ToReduction(<<htn.parts[item.task[1]][1], Args(item.task)>>)
SurrogateItem(item) ==
    Item(item.id - 1, SurrogateReduction(item).task, <<htn.parts[item.task[1]][1], Args(item.task)>>, <<item.id>>)
PrintedAction(item) == IF IsNamed(item.task) THEN [item EXCEPT !.task = SurrogateReduction(item).subtasks[1]] ELSE item

OutputPlan(plan) ==
    LET present == SelectSeq(plan.classical, LAMBDA i : i.id >= 0)
        surrogates == SelectSeq(present, LAMBDA i : IsNamed(i.task))
        primitivizationIds == {i.id : i \in ToSet(surrogates)}
        actionIds == {i.id : i \in ToSet(present)}
        actions == SelectSeq([k \in DOMAIN present |-> PrintedAction(present[k])],
                             LAMBDA i : i.task \notin {BlankSig, GoalSig})
        root == Head(SelectSeq(plan.items, LAMBDA i : i.id >= 0))
        printed == {i \in ToSet(plan.items) : i.id > 0 /\ i.id \notin actionIds} \cup
                   {SurrogateItem(i) : i \in {s \in ToSet(surrogates) : s.id - 1 \notin actionIds}}
        subtaskId(item, id) == IF item.id + 1 # id /\ id \in primitivizationIds THEN id - 1 ELSE id
        subtaskIds(item) == [k \in DOMAIN item.sub |-> subtaskId(item, item.sub[k])]
    IN [actions |-> actions, root |-> subtaskIds(root),
        decompositions |-> {[i EXCEPT !.sub = subtaskIds(i)] : i \in printed}]
=============================================================================
