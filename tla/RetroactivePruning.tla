------------------------- MODULE RetroactivePruning -------------------------
(***************************************************************************)
(* The hierarchy of operations: how Planner::createNextLayer fills each    *)
(* position of a layer from the position above it, and how                 *)
(* RetroactivePruning::prune takes operations out again that turned out    *)
(* to be impossible, in every layer at once.                               *)
(*                                                                         *)
(* What the fact analysis decides is left open: which operations fit a     *)
(* subtask in the current state, and which actions have lost their         *)
(* preconditions or have impossible effects.  The worklists of prune are   *)
(* hash sets; they are worked off in any order.                            *)
(***************************************************************************)
EXTENDS Integers, Sequences, FiniteSetsExt

CONSTANTS
  LayerBound,  \* the last layer that is built
  Domains,     \* the planning domains (see DomainsAssumption)
  Blank,       \* HtnInstance::getBlankActionSig
  Goal         \* HtnInstance::getGoalAction

\* init: the instantiations of the top level reduction.
\* subtasks[r]: the subtasks of reduction r.  fits[t]: the operations that
\* can accomplish subtask t.  repeat[a]: the child of action a (with aar its
\* repetition; the repetition of a repetition is itself).
\* checked, effects: the actions with preconditions, and with effects.
\* dominated: pairs of an operation and one that dominates it.
ASSUME DomainsAssumption ==
  /\ LayerBound \in Nat
  /\ \A d \in Domains :
       LET names == DOMAIN d.subtasks \cup DOMAIN d.repeat
       IN /\ IsFiniteSet(names)
          /\ DOMAIN d.subtasks \cap DOMAIN d.repeat = {}
          /\ {Blank, Goal} \subseteq DOMAIN d.repeat
          /\ d.init \subseteq DOMAIN d.subtasks
          /\ \A r \in DOMAIN d.subtasks : d.subtasks[r] \in Seq(DOMAIN d.fits)
          /\ \A t \in DOMAIN d.fits : d.fits[t] \subseteq names \ {Goal}
          /\ \A a \in DOMAIN d.repeat :
               d.repeat[a] \in DOMAIN d.repeat /\ d.repeat[d.repeat[a]] = d.repeat[a]
          /\ d.checked \cup d.effects \subseteq DOMAIN d.repeat
          /\ d.dominated \subseteq names \X names

VARIABLES
  domain,  \* fixed for a run
  layer,   \* _layer_idx
  pos,     \* _pos
  phase,   \* the next step of createNextPosition or createNextLayer
  sizes,   \* sizes[l][p]: _max_expansion_size, fixed once layer l is complete
  ops,     \* _actions and _reductions of all positions
  exp,     \* _expansions: pairs of a parent's name and a child
  pred,    \* _predecessors: likewise
  opVars,  \* the operations with a variable (_op_variables)
  units,   \* the operations forbidden by a unit clause
  todo,    \* the operations the caller is still going to prune
  pruning, \* "no", or the phase of prune that is running: "up", "down"
  open,    \* prune's openOps
  remove,  \* prune's opsToRemove
  taken,   \* prune's removedExpansionsOfParents: pairs of a parent and a child
  op,      \* prune's argument
  made,    \* history: all pairs ever in exp
  known,   \* history: all operations there have been
  pruned,  \* history: all arguments of prune
  skipped, \* history: operations a disturbed iteration passed over
  beyond   \* history: a successor position past the end was read

structure == <<sizes, ops, exp, pred>>
formula   == <<opVars, units>>
place     == <<domain, layer, pos, phase>>
worklists == <<pruning, open, remove, taken, op>>
history   == <<made, known, pruned, skipped, beyond>>
vars      == <<place, structure, formula, todo, worklists, history>>

Reductions == DOMAIN domain.subtasks
Actions    == DOMAIN domain.repeat
Names      == Reductions \cup Actions
Node(l, p, name) == [layer |-> l, pos |-> p, op |-> name]
NoOp       == Node(0, 0, Goal)

Phases == {"left", "actions", "reductions", "dominate", "encode", "layer"}

-----------------------------------------------------------------------------
(* Positions.                                                              *)

Last(l) == Max(DOMAIN sizes[l])

\* Layer::consolidate and Layer::getSuccessorPos
SuccessorPos(l, p) ==
  MapThenSumSet(LAMBDA q : sizes[l][q], {q \in DOMAIN sizes[l] : q < p})

\* Layer::getNextLayerSize
NextLayerSize(l) == SuccessorPos(l, Last(l)) + 1

\* The position of layer l - 1 that position p of layer l belongs to.
OldPos(l, p) == Max({q \in DOMAIN sizes[l-1] : SuccessorPos(l-1, q) <= p})

Offset(l, p) == p - SuccessorPos(l-1, OldPos(l, p))

\* The positions prune visits below a position that is not the last one.
Below(l, p) == SuccessorPos(l, p) .. SuccessorPos(l, p+1) - 1

At(l, p) == {n \in ops : n.layer = l /\ n.pos = p}

\* The operations at the position above, and those called names at this one.
Above       == At(layer-1, OldPos(layer, pos))
Here(names) == {Node(layer, pos, name) : name \in names}

Parents(n) == {Node(n.layer-1, OldPos(n.layer, n.pos), e[1]) :
                 e \in {x \in pred : x[2] = n}}

\* The children of n at the positions P of the next layer.
Children(n, P) == {e[2] : e \in {x \in exp : /\ x[1] = n.op
                                             /\ x[2].layer = n.layer + 1
                                             /\ x[2].pos \in P}}

-----------------------------------------------------------------------------
(* Filling a position.                                                     *)

\* Nothing is being pruned and nothing is going to be.
Quiet == pruning = "no" /\ todo = {}

\* createNextPositionFromLeft: actions to the left with an impossible effect
\* are pruned, and their repetitions with them.
PruneLeft ==
  /\ Quiet /\ phase = "left"
  /\ IF pos = 0 THEN UNCHANGED todo
     ELSE \E bad \in SUBSET {n \in At(layer, pos-1) : n.op \in domain.effects} :
            todo' = {n \in At(layer, pos-1) :
                       n \in bad \/ \E b \in bad : n.op = domain.repeat[b.op]}
  /\ phase' = "actions"
  /\ UNCHANGED <<domain, layer, pos, structure, formula, worklists, history>>

\* propagateActions: the actions above whose preconditions cannot hold here.
PruneAbove ==
  /\ Quiet /\ phase = "actions"
  /\ \E bad \in SUBSET {n \in Above : n.op \in domain.checked} :
       todo' = bad
  /\ phase' = "reductions"
  /\ UNCHANGED <<domain, layer, pos, structure, formula, worklists, history>>

\* The children of name at some offset, if only the operations in
\* applicable can be instantiated.
ChildNames(name, offset, applicable) ==
  IF name \in Reductions
  THEN IF offset < Len(domain.subtasks[name])
       THEN domain.fits[domain.subtasks[name][offset+1]] \cap applicable
       ELSE {Blank}
  ELSE {IF offset = 0 THEN domain.repeat[name] ELSE Blank}

\* Faulty: positions without reductions expand to nothing.
ReductionSize(names) ==
  Max({0} \cup {Len(domain.subtasks[r]) : r \in names \cap Reductions})

\* _max_expansion_size starts at 1.
ExpansionSize(names) ==
  Max({1} \cup {Len(domain.subtasks[r]) : r \in names \cap Reductions})

Kids(n, applicable) == ChildNames(n.op, Offset(layer, pos), applicable)

\* propagateActions and propagateReductions: every operation above gets its
\* children; reductions without any are going to be pruned.
Propagate ==
  /\ Quiet /\ phase = "reductions"
  /\ \E applicable \in SUBSET UNION {Kids(n, Names) :
                                       n \in {m \in Above : m.op \in Reductions}} :
       LET names == UNION {Kids(n, applicable) : n \in Above}
           links == UNION {{n.op} \X Here(Kids(n, applicable)) : n \in Above}
       IN /\ ops'   = ops \cup Here(names)
          /\ exp'   = exp \cup links
          /\ pred'  = pred \cup links
          /\ made'  = made \cup links
          /\ known' = known \cup Here(names)
          /\ sizes' = [sizes EXCEPT ![layer][pos] = ExpansionSize(names)]
          /\ todo'  = {n \in Above : Kids(n, applicable) = {}}
  /\ phase' = "dominate"
  /\ UNCHANGED <<domain, layer, pos, formula, worklists, pruned, skipped, beyond>>

\* DominationResolver: each dominated operation is replaced by one that
\* dominates it (Position::replaceOperation).
Dominate ==
  /\ Quiet /\ phase = "dominate"
  /\ LET here == {n.op : n \in At(layer, pos)}
         from == {a \in here : \E b \in here : <<a, b>> \in domain.dominated}
     IN \E by \in [from -> here \ from] :
          LET Kept(s)  == {e \in s : e[2] \notin Here(from)}
              Moved(s) == {<<e[1], Node(layer, pos, by[e[2].op])>> : e \in s \ Kept(s)}
          IN /\ \A a \in from : <<a, by[a]>> \in domain.dominated
             /\ ops'   = ops \ Here(from)
             /\ known' = known \ Here(from)
             /\ exp'   = Kept(exp) \cup Moved(pred)
             /\ pred'  = Kept(pred) \cup Moved(pred)
             /\ made'  = Kept(made) \cup Moved(made)
  /\ IF pos = Last(layer)
     THEN phase' = "encode" /\ UNCHANGED pos
     ELSE phase' = "left" /\ pos' = pos + 1
  /\ UNCHANGED <<domain, layer, sizes, formula, todo, worklists, pruned, skipped,
                 beyond>>

\* Encoding::encode, for every position of the layer; then consolidate.
Encode ==
  /\ Quiet /\ phase = "encode"
  /\ opVars' = opVars \cup {n \in ops : n.layer = layer}
  /\ phase' = "layer"
  /\ UNCHANGED <<domain, layer, pos, structure, units, todo, worklists, history>>

\* createNextLayer
NextLayer ==
  /\ Quiet /\ phase = "layer" /\ layer < LayerBound
  /\ layer' = layer + 1
  /\ pos' = 0 /\ phase' = "left"
  /\ sizes' = [l \in 0 .. layer + 1 |->
                 IF l <= layer THEN sizes[l]
                 ELSE [p \in 0 .. NextLayerSize(layer) - 1 |-> 1]]
  /\ UNCHANGED <<domain, ops, exp, pred, formula, todo, worklists, history>>

-----------------------------------------------------------------------------
(* prune                                                                   *)

\* The callers hand over one operation after the other.
StartPrune ==
  /\ pruning = "no"
  /\ \E n \in todo :
       /\ todo' = todo \ {n}
       /\ op' = n /\ open' = {n}
       /\ pruned' = pruned \cup {n}
  /\ remove' = {} /\ taken' = {}
  /\ pruning' = "up"
  /\ UNCHANGED <<place, structure, formula, made, known, skipped, beyond>>

\* The children a parent of n has left for n's position.
Siblings(parent, n) == Children(parent, {n.pos})

\* Faulty: every parent is pruned.
AllParents(n, t) == Parents(n)

\* Faulty: only parents whose single child is n, not those that lose their
\* children one after the other.
OnlyChildParents(n, t) == {m \in Parents(n) : Siblings(m, n) = {n}}

\* The parents of n whose last child for its position is taken.
EmptiedParents(n, t) ==
  {m \in Parents(n) : Siblings(m, n) = {x[2] : x \in {y \in t : y[1] = m}}}

\* Faulty: n stays in the worklist.
KeptOpen(n, more) == open \cup more

\* openOps once n is dealt with and the parents in more have joined it.
Reopened(n, more) == (open \ {n}) \cup more

\* Upwards: take n away from its parents; those that have no other child go
\* as well, and if there is none, n is the root of a removal.
PruneUp ==
  /\ pruning = "up"
  /\ \E n \in open :
       IF n.layer = 0
       THEN /\ open' = Reopened(n, {})
            /\ remove' = remove \cup {n}
            /\ UNCHANGED taken
       ELSE LET empty == EmptiedParents(n, taken')
            IN /\ taken' = taken \cup {<<m, n>> : m \in Parents(n)}
               /\ open' = Reopened(n, empty)
               /\ remove' = IF empty = {} THEN remove \cup {n} ELSE remove
  /\ UNCHANGED <<place, structure, formula, todo, pruning, op, history>>

RootsFound ==
  /\ pruning = "up" /\ open = {}
  /\ pruning' = "down"
  /\ UNCHANGED <<place, structure, formula, todo, open, remove, taken, op, history>>

\* The positions below n.  For the last position of a layer the code reads
\* past the end of _successor_positions, and the loop stops anywhere.
Visited(n) ==
  IF n.layer = layer THEN {{}}
  ELSE IF n.pos = Last(n.layer)
       THEN {{}, {SuccessorPos(n.layer, n.pos)}}
       ELSE {Below(n.layer, n.pos)}

\* Faulty: children go even if they have another predecessor.
AllChildren(n, P) == Children(n, P)

\* The children that go together with n: those without another predecessor,
\* and the argument of prune.
Doomed(n, P) == {c \in Children(n, P) : c = op \/ Parents(c) = {n}}

\* Faulty: n stays a predecessor of the children that stay.
OccurrenceOnly(n, stay) ==
  /\ ops'  = ops \ {n}
  /\ exp'  = {e \in exp : e[2] # n}
  /\ pred' = {e \in pred : e[2] # n}

\* removeActionOccurrence, removeReductionOccurrence; and n is no longer a
\* predecessor of the children that stay.
RemoveOccurrence(n, stay) ==
  /\ ops'  = ops \ {n}
  /\ exp'  = {e \in exp : e[2] # n}
  /\ pred' = {e \in pred : e[2] # n /\ ~(e[1] = n.op /\ e[2] \in stay)}

\* Faulty: only the argument of prune is forbidden.
ForbidArgument(n) == units' = units \cup ({n} \cap opVars \cap {op})

\* A unit clause for n, if n has a variable already.
Forbid(n) == units' = units \cup ({n} \cap opVars)

\* Downwards: n goes, and with it the children that become impossible.
PruneDown ==
  /\ pruning = "down"
  /\ \E n \in remove : \E P \in Visited(n) :
       /\ remove' = (remove \ {n}) \cup Doomed(n, P)
       /\ RemoveOccurrence(n, Children(n, P) \ Doomed(n, P))
       /\ Forbid(n)
       /\ beyond' = (beyond \/ (n.layer < layer /\ n.pos = Last(n.layer)))
  /\ UNCHANGED <<place, sizes, opVars, todo, pruning, open, taken, op, made, known,
                 pruned, skipped>>

\* prune returns.  propagateReductions is iterating over the very set prune
\* has erased its argument from: the next element may have moved into the
\* slot that was just visited, and is passed over.
Return ==
  /\ pruning = "down" /\ remove = {}
  /\ pruning' = "no"
  /\ \E over \in {{}} \cup {{n} : n \in todo} :
       /\ over # {} => phase = "dominate" /\ op \notin ops
       /\ todo' = todo \ over
       /\ skipped' = skipped \cup over
  /\ UNCHANGED <<place, structure, formula, open, remove, taken, op, made, known,
                 pruned, beyond>>

Finished == Quiet /\ phase = "layer" /\ layer = LayerBound /\ UNCHANGED vars

-----------------------------------------------------------------------------
Init ==
  /\ domain \in Domains
  /\ layer = 0 /\ pos = 1 /\ phase = "layer"
  /\ \E init \in SUBSET domain.init :
       /\ ops = {Node(0, 0, r) : r \in init} \cup {Node(0, 1, Goal)}
       /\ sizes = [l \in {0} |-> [p \in {0, 1} |->
                     IF p = 0 THEN ExpansionSize(init) ELSE 1]]
  /\ exp = {} /\ pred = {}
  /\ opVars = ops /\ units = {} /\ todo = {}
  /\ pruning = "no" /\ open = {} /\ remove = {} /\ taken = {} /\ op = NoOp
  /\ made = {} /\ known = ops /\ pruned = {} /\ skipped = {} /\ beyond = FALSE

CreateNextPosition == PruneLeft \/ PruneAbove \/ Propagate \/ Dominate

Prune == StartPrune \/ PruneUp \/ RootsFound \/ PruneDown \/ Return

Step == CreateNextPosition \/ Prune \/ Encode \/ NextLayer

Next == Step \/ Finished

Spec == Init /\ [][Next]_vars

\* The planner is sequential: it keeps going.
FairSpec == Spec /\ WF_vars(Step)

-----------------------------------------------------------------------------
(* Properties.                                                             *)

\* Every variable stays in its domain; sizes and positions fit together.
TypeOK ==
  /\ domain \in Domains /\ layer \in 0 .. LayerBound
  /\ DOMAIN sizes = 0 .. layer /\ pos \in DOMAIN sizes[layer]
  /\ \A l \in 0 .. layer : \A p \in DOMAIN sizes[l] : sizes[l][p] \in Nat \ {0}
  /\ phase \in Phases /\ pruning \in {"no", "up", "down"}
  /\ known \subseteq [layer : 0 .. layer, pos : Nat, op : Names]
  /\ \A n \in known : n.pos \in DOMAIN sizes[n.layer]
  /\ ops \cup opVars \subseteq known
  /\ units \cup todo \cup open \cup remove \cup pruned \cup skipped \subseteq known
  /\ exp \cup pred \cup made \subseteq Names \X known
  /\ taken \subseteq known \X known
  /\ beyond \in BOOLEAN

\* At rest, _expansions and _predecessors describe the same links between the
\* operations that are there, and nothing points to one that is not.
MapsAgree ==
  Quiet /\ ~beyond =>
    /\ \A e \in exp : e[2] \in ops
    /\ \A e \in pred : e[2] \in ops /\ Parents(e[2]) \subseteq ops
    /\ \A n \in ops : n.layer > 0 =>
         Parents(n) = {m \in At(n.layer-1, OldPos(n.layer, n.pos)) : <<m.op, n>> \in exp}

\* The assertions of prune: every operation it takes up is there, is a child
\* of each of its predecessors, and a predecessor of each of its children.
PruneAssertions ==
  ~beyond =>
    /\ todo \subseteq ops
    /\ pruning = "up" =>
         \A n \in open : n \in ops /\ \A m \in Parents(n) : n \in Siblings(m, n)
    /\ pruning = "down" =>
         \A n \in remove : /\ n \in ops
                           /\ \A P \in Visited(n) : \A c \in Children(n, P) :
                                n \in Parents(c)

\* The clauses forbid exactly the encoded operations that are gone.
UnitsExact == units = opVars \ ops

\* What has been propagated so far of the layer under construction.
Propagated(l, p) ==
  \/ l < layer
  \/ l = layer /\ (p < pos \/ (p = pos /\ phase \in {"dominate", "encode", "layer"}))

\* If D is impossible, so are the operations it leaves without a child for
\* some position, or without a parent.
Starved(n, D) ==
  /\ n.layer < layer
  /\ \E p \in DOMAIN sizes[n.layer+1] :
       /\ Propagated(n.layer+1, p) /\ OldPos(n.layer+1, p) = n.pos
       /\ \A e \in made : e[1] = n.op /\ e[2].layer = n.layer+1 /\ e[2].pos = p
                            => e[2] \in D

Orphaned(n, D) ==
  /\ n.layer > 0
  /\ \A e \in made : e[2] = n => Node(n.layer-1, OldPos(n.layer, n.pos), e[1]) \in D

\* The operations that no decomposition can contain any more.
Impossible ==
  LET Closure[D \in SUBSET known] ==
        LET more == {n \in known \ D : Starved(n, D) \/ Orphaned(n, D)}
        IN IF more = {} THEN D ELSE Closure[D \cup more]
  IN Closure[pruned]

\* At each position, two operations above have the same children or none in
\* common.  So it is unless an operation was merged into another one's child.
ChildSetsAgree ==
  LET Made(l, p, name) ==
        {e[2] : e \in {x \in made : x[1] = name /\ x[2].layer = l /\ x[2].pos = p}}
  IN \A e, f \in made : e[2] = f[2] =>
       Made(e[2].layer, e[2].pos, e[1]) = Made(e[2].layer, e[2].pos, f[1])

Undisturbed == ChildSetsAgree /\ skipped = {} /\ ~beyond

\* Pruning removes exactly the operations that have become impossible.
PruneExact == Quiet /\ Undisturbed => known \ ops = Impossible

\* "assert(above.getActions().size() == numActionsBefore - ...)": what was
\* pruned is gone.
PrunedIsGone == pruning = "no" => pruned \cap ops = {}

\* No reduction is left without a child at a position that is complete.
NoChildlessReduction ==
  Quiet /\ phase # "reductions" =>
    \A n \in ops : n.layer = layer - 1 /\ OldPos(layer, pos) = n.pos
      /\ phase = "dominate" => Children(n, {pos}) # {}

\* getSuccessorPos is only asked for positions of the layer.
SuccessorInRange == ~beyond

\* Every prune ends, and so does the construction of the layers.
LayersGetBuilt == <>(layer = LayerBound /\ phase = "layer")

-----------------------------------------------------------------------------
(* prune as one step: it takes effect when its roots are found.             *)

\* The operations that the rest of a downward traversal removes.
Going ==
  LET Closure[D \in SUBSET ops] ==
        LET more == {c \in ops \ D : /\ Parents(c) \cap D # {}
                                    /\ (c = op \/ Parents(c) \subseteq D)}
        IN IF more = {} THEN D ELSE Closure[D \cup more]
  IN IF pruning = "down" THEN Closure[remove \cap ops] ELSE {}

Alive == ops \ Going

Atomic == INSTANCE AtomicPruning WITH
  agree <- ChildSetsAgree,
  void  <- beyond,
  ops   <- Alive,
  links <- UNION {(Parents(n) \cap Alive) \X {n} : n \in Alive}

\* To its callers, prune is one step that removes an operation and exactly
\* what has become impossible without it, whatever the order of its worklists.
IsAtomicPruning == Atomic!Spec

=============================================================================
