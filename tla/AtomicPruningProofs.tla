------------------------- MODULE AtomicPruningProofs -------------------------
(***************************************************************************)
(* prune is atomic: for every domain, number of layers and order of the    *)
(* worklists, RetroactivePruning implements AtomicPruning.                 *)
(*                                                                         *)
(* The step of the atomic specification is taken when the upward pass has  *)
(* found its roots.  What prune climbs on its way up is impossible without *)
(* its argument; what the downward pass is going to remove is the least    *)
(* set that contains the roots and all it leaves without a parent.  The    *)
(* roots are climbed, so the second lies within what is impossible; where  *)
(* two parents have all their children in common, or none, what is climbed *)
(* falls with its roots, so that nothing impossible is left.  With the     *)
(* atomic step, the second half of the module shows that pruning is exact. *)
(***************************************************************************)
EXTENDS PruningBookkeeping

-----------------------------------------------------------------------------
(* The invariant of the upward pass.                                       *)

\* Every operation below the first layer has a parent.
HasParents == \A n \in ops : n.layer > 0 => \E e \in pred : e[2] = n

\* No link between operations that are there is lost.
MadeInv ==
  /\ exp \subseteq made
  /\ \A e \in made : e[2] \in ops /\ Parent(e) \in ops => e \in exp

\* What prune has taken up on its way, and the children taken from m.
Climbed  == open \cup remove \cup {t[2] : t \in taken}
Taken(m) == {t[2] : t \in {x \in taken : x[1] = m}}

\* C contains what becomes impossible with it, upwards and downwards.
Complete(C) ==
  \A m \in ops : /\ (\E n \in C : m \in Parents(n) /\ Siblings(m, n) \subseteq C) => m \in C
                 /\ Parents(m) # {} /\ Parents(m) \subseteq C => m \in C

\* On its way up, prune climbs from its argument along the path to the first
\* layer.  It takes an operation from all its parents at once, and climbs a
\* parent when its last child for the position is taken; an operation without
\* such a parent is a root.  All this is impossible without the argument.
UpInv ==
  pruning = "up" /\ ~beyond =>
    /\ op \in Climbed
    /\ \A f \in Paths(op) : \A x \in Climbed : OnPath(f, x)
    /\ \A x \in Climbed : x = op \/ x.layer < op.layer
    /\ \A t \in taken : t[1] \in Parents(t[2]) /\ \A m \in Parents(t[2]) : <<m, t[2]>> \in taken
    /\ \A t \in taken : Siblings(t[1], t[2]) \subseteq Taken(t[1]) => t[1] \in Climbed
    /\ \A x \in remove : x.layer = 0 \/ \E t \in taken : t[2] = x
    /\ \A t \in taken : \/ t[2] \in remove
                        \/ \E m \in Parents(t[2]) :
                             m \in Climbed /\ Siblings(m, t[2]) \subseteq Taken(m)
    /\ \A C \in SUBSET ops : op \in C /\ Complete(C) => Climbed \subseteq C
    /\ Climbed \subseteq ops

-----------------------------------------------------------------------------
(* How the hierarchy grows.                                                *)

\* A finite set of names gives a finite set of operations at a position.
LEMMA NodesFinite ==
  ASSUME NEW S, IsFiniteSet(S), NEW l, NEW p
  PROVE  IsFiniteSet({Node(l, p, a) : a \in S})
<1> DEFINE T == {Node(l, p, a) : a \in S}
           f == [a \in S |-> Node(l, p, a)]
<1>1. f \in Surjection(S, T)
  BY DEF Surjection
<1> HIDE DEF f, T
<1>2. IsFiniteSet(T)
  BY <1>1, FS_Surjection
<1> QED BY <1>2 DEF T

\* What Propagate adds: operations at the current position, which was empty,
\* and the links to them from above.
LEMMA PropagateFacts ==
  ASSUME Shape, Shape', Propagate
  PROVE  \E new, links :
           /\ ops' = ops \cup new /\ known' = known \cup new
           /\ exp' = exp \cup links /\ pred' = pred \cup links /\ made' = made \cup links
           /\ \A n \in new : n \notin known /\ n.layer = layer /\ n.pos = pos
           /\ \A e \in links : e[2] \in new /\ Parent(e)' \in ops
           /\ \A n \in new : \E e \in links : e[2] = n
           /\ \A e \in Links : Parent(e)' = Parent(e) /\ Parent(e).layer # layer
           /\ IsFiniteSet(new)
           /\ todo' = {n \in Above : \A e \in links : e[1] # n.op}
<1> DEFINE names(A) == UNION {Kids(n, A) : n \in Above}
           links(A) == UNION {{n.op} \X Here(Kids(n, A)) : n \in Above}
<1>1. PICK A :
        /\ ops'   = ops \cup Here(names(A))
        /\ exp'   = exp \cup links(A)
        /\ pred'  = pred \cup links(A)
        /\ made'  = made \cup links(A)
        /\ known' = known \cup Here(names(A))
        /\ sizes' = [sizes EXCEPT ![layer][pos] = ExpansionSize(names(A))]
        /\ todo'  = {n \in Above : Kids(n, A) = {}}
  BY Zenon DEF Propagate
<1>0. /\ phase = "reductions" /\ layer > 0 /\ layer \in Nat /\ domain \in Domains
      /\ UNCHANGED <<domain, layer, pos>>
  BY DomainFacts DEF Propagate, Shape, Hierarchy
<1>2. \A n \in Above : Kids(n, A) \subseteq Names
  BY <1>0, AboveFacts, ChildNamesTyped DEF Kids, Shape, Hierarchy
<1>3. names(A) \subseteq Names
  BY <1>2
<1>4. IsFiniteSet(Here(names(A)))
  <2>1. IsFiniteSet(names(A))
    BY <1>0, <1>3, DomainFacts, FS_Subset
  <2> HIDE DEF names
  <2>2. Here(names(A)) = {Node(layer, pos, name) : name \in names(A)}
    BY DEF Here
  <2> QED BY <2>1, <2>2, NodesFinite
<1>5. /\ \A n \in Here(names(A)) : n.layer = layer /\ n.pos = pos
      /\ \A e \in links(A) : e[2] \in Here(names(A))
  BY DEF Here, Node
<1>6. \A n \in Here(names(A)) : \E e \in links(A) : e[2] = n
  <2> SUFFICES ASSUME NEW n \in Here(names(A)) PROVE \E e \in links(A) : e[2] = n
    OBVIOUS
  <2>1. PICK a \in names(A) : n = Node(layer, pos, a)
    BY DEF Here
  <2>2. PICK m \in Above : a \in Kids(m, A)
    BY <2>1
  <2>3. n \in Here(Kids(m, A))
    BY <2>1, <2>2 DEF Here
  <2>4. <<m.op, n>> \in links(A)
    BY <2>2, <2>3
  <2> QED BY <2>4
<1>7. \A e \in links(A) : \E n \in Above : e[1] = n.op
  OBVIOUS
<1> HIDE DEF names, links
<1>8. \A l \in 0..layer-1 : sizes'[l] = sizes[l]
  BY <1>0, <1>1 DEF Shape, Hierarchy
<1>9. ASSUME NEW e \in Links PROVE Parent(e)' = Parent(e) /\ Parent(e).layer # layer
  <2>1. e[2].layer \in 0..layer /\ e[2].layer > 0 /\ e[2] \in known /\ Parent(e) \in known
    BY DEF Links, Shape, Elements, Nodes
  <2>2. e[2].layer-1 \in 0..layer-1 /\ e[2].layer-1 # layer
    BY <1>0, <2>1
  <2>3. sizes'[e[2].layer-1] = sizes[e[2].layer-1] /\ e[2] \in known' /\ Parent(e) \in known'
    BY <1>1, <1>8, <2>1, <2>2
  <2>4. Parent(e).layer = e[2].layer-1
    BY DEF Parent, Node
  <2> QED BY <1>0, <2>1, <2>2, <2>3, <2>4, LinkStays DEF Shape
<1>10. OldPos(layer, pos)' = OldPos(layer, pos)
  <2>1. \A l \in Nat : sizes'[l] = sizes[l] => \A p : OldPos(l+1, p)' = OldPos(l+1, p)
    BY StablePositions
  <2>2. layer-1 \in 0..layer-1 /\ layer-1 \in Nat /\ (layer-1)+1 = layer
    BY <1>0
  <2>3. \A p : OldPos(layer, p)' = OldPos(layer, p)
    BY <1>0, <1>8, <2>1, <2>2
  <2> QED BY <1>0, <2>3
<1>11. ASSUME NEW e \in links(A) PROVE Parent(e)' \in ops
  <2>1. PICK n \in Above : e[1] = n.op
    BY <1>7
  <2>2. n \in ops /\ n = Node(layer-1, OldPos(layer, pos), n.op)
    BY <1>0, AboveFacts DEF Shape
  <2> QED BY <1>0, <1>5, <1>10, <2>1, <2>2 DEF Parent
<1>12. pos \in Nat
  <2>1. Row(layer) /\ pos \in DOMAIN sizes[layer]
    BY <1>0 DEF Shape, Hierarchy
  <2>2. DOMAIN sizes[layer] = 0..Last(layer)
    BY <2>1, LastOfRow
  <2> QED BY <2>1, <2>2
<1>13. \A n \in known : ~(n.layer = layer /\ n.pos = pos)
  BY <1>0, <1>12 DEF Shape, Fresh
<1>14. todo' = {n \in Above : \A e \in links(A) : e[1] # n.op}
  <2> SUFFICES ASSUME NEW n \in Above
               PROVE  Kids(n, A) = {} <=> \A e \in links(A) : e[1] # n.op
    BY <1>1, Zenon
  <2>1. ASSUME NEW a \in Kids(n, A) PROVE \E e \in links(A) : e[1] = n.op
    <3>1. <<n.op, Node(layer, pos, a)>> \in {n.op} \X Here(Kids(n, A))
      BY <2>1 DEF Here
    <3>2. <<n.op, Node(layer, pos, a)>> \in links(A)
      BY <3>1 DEF links
    <3> QED BY <3>2
  <2>2. ASSUME Kids(n, A) = {}, NEW e \in links(A) PROVE e[1] # n.op
    <3>1. PICK m \in Above : e \in {m.op} \X Here(Kids(m, A))
      BY DEF links
    <3>2. Kids(m, A) # {} /\ e[1] = m.op
      BY <3>1 DEF Here
    <3>3. m = Node(layer-1, OldPos(layer, pos), m.op) /\ n = Node(layer-1, OldPos(layer, pos), n.op)
      BY <1>0, AboveFacts DEF Shape
    <3>4. m.op = n.op => m = n
      BY <3>3, Zenon
    <3> QED BY <2>2, <3>2, <3>4
  <2> QED BY <2>1, <2>2
<1>15. PICK new, more : new = Here(names(A)) /\ more = links(A)
  OBVIOUS
<1>16. /\ ops' = ops \cup new /\ known' = known \cup new
       /\ exp' = exp \cup more /\ pred' = pred \cup more /\ made' = made \cup more
       /\ todo' = {n \in Above : \A e \in more : e[1] # n.op}
  BY <1>1, <1>14, <1>15, Zenon
<1>17. /\ \A n \in new : n \notin known /\ n.layer = layer /\ n.pos = pos
       /\ \A e \in more : e[2] \in new /\ Parent(e)' \in ops
       /\ \A n \in new : \E e \in more : e[2] = n
       /\ IsFiniteSet(new)
  BY <1>4, <1>5, <1>6, <1>11, <1>13, <1>15, Zenon
<1> QED BY <1>9, <1>16, <1>17, Zenon

-----------------------------------------------------------------------------
(* Children and parents are complete.                                      *)

\* The links tell the parents and children of every operation there is.
Ancestry == IsFiniteSet(known) /\ HasParents /\ MadeInv

\* The operations of the first layer have no parents.
LEMMA InitAncestry == Init => Ancestry
<1> SUFFICES ASSUME Init PROVE Ancestry
  OBVIOUS
<1>1. PICK init \in SUBSET domain.init :
        ops = {Node(0, 0, r) : r \in init} \cup {Node(0, 1, Goal)}
  BY Zenon DEF Init
<1>2. domain \in Domains /\ known = ops /\ exp = {} /\ made = {}
  BY DEF Init
<1>3. IsFiniteSet(init)
  <2>1. init \in SUBSET Names
    BY <1>2, DomainFacts DEF Names
  <2> QED BY <1>2, <2>1, DomainFacts, FS_Subset
<1>4. IsFiniteSet({Node(0, 0, r) : r \in init})
  BY <1>3, NodesFinite
<1>5. IsFiniteSet(known)
  BY <1>1, <1>2, <1>4, FS_AddElement
<1>6. \A n \in ops : n.layer = 0
  BY <1>1 DEF Node
<1> QED BY <1>2, <1>5, <1>6 DEF Ancestry, HasParents, MadeInv

\* The links need no other argument while none of them changes.
LEMMA SameAncestry ==
  ASSUME Ancestry, UNCHANGED <<sizes, ops, exp, pred, made, known>>
  PROVE  Ancestry'
<1>1. \A e : Parent(e)' = Parent(e)
  BY SamePositions
<1> QED BY <1>1 DEF Ancestry, HasParents, MadeInv

\* A new layer leaves all positions above it where they are.
LEMMA NextLayerAncestry == Shape /\ Shape' /\ Ancestry /\ NextLayer => Ancestry'
<1> SUFFICES ASSUME Shape, Shape', Ancestry, NextLayer PROVE Ancestry'
  OBVIOUS
<1>1. /\ layer < LayerBound /\ layer \in Nat
      /\ UNCHANGED <<domain, ops, exp, pred, made, known>>
  BY DomainFacts DEF NextLayer, history, Shape, Hierarchy
<1>2. \A e \in made : Parent(e)' = Parent(e)
  <2> SUFFICES ASSUME NEW e \in made PROVE Parent(e)' = Parent(e)
    OBVIOUS
  <2>1. /\ e \in Links /\ e[2].layer \in 0..layer /\ e[2].layer > 0
        /\ e[2] \in known /\ Parent(e) \in known
    BY DEF Links, Shape, Elements, Nodes
  <2>2. sizes' = [l \in 0 .. layer + 1 |->
                 IF l <= layer THEN sizes[l]
                 ELSE [p \in 0 .. NextLayerSize(layer) - 1 |-> 1]]
    BY DEF NextLayer
  <2>3. e[2].layer-1 \in 0..layer+1 /\ e[2].layer-1 <= layer
    BY <1>1, <2>1
  <2>4. sizes'[e[2].layer-1] = sizes[e[2].layer-1]
    BY <2>2, <2>3, Zenon
  <2> QED BY <1>1, <2>1, <2>4, LinkStays DEF Shape
<1> QED BY <1>1, <1>2 DEF Ancestry, HasParents, MadeInv

\* Whatever Propagate adds has a parent.
LEMMA PropagateAncestry == Shape /\ Shape' /\ Book /\ Ancestry /\ Propagate => Ancestry'
<1> SUFFICES ASSUME Shape, Shape', Book, Ancestry, Propagate PROVE Ancestry'
  OBVIOUS
<1>1. PICK new, links :
           /\ ops' = ops \cup new /\ known' = known \cup new
           /\ exp' = exp \cup links /\ pred' = pred \cup links /\ made' = made \cup links
           /\ \A n \in new : n \notin known /\ n.layer = layer /\ n.pos = pos
           /\ \A e \in links : e[2] \in new /\ Parent(e)' \in ops
           /\ \A n \in new : \E e \in links : e[2] = n
           /\ \A e \in Links : Parent(e)' = Parent(e) /\ Parent(e).layer # layer
           /\ IsFiniteSet(new)
  BY PropagateFacts
<1>2. IsFiniteSet(known')
  <2>1. known' = known \cup new /\ IsFiniteSet(known) /\ IsFiniteSet(new)
    BY <1>1 DEF Ancestry
  <2>2. IsFiniteSet(known \cup new)
    BY <2>1, FS_Union
  <2> QED BY <2>1, <2>2
<1>3. HasParents'
  BY <1>1 DEF Ancestry, HasParents
<1>4. ASSUME NEW e \in made', e[2] \in ops', Parent(e)' \in ops' PROVE e \in exp'
  <2>1. CASE e \in links
    BY <1>1, <2>1
  <2>2. CASE e \in made
    <3>1. /\ e \in Links /\ e[2] \in known
      BY <2>2 DEF Links, Shape, Elements
    <3>2. e[2] \in ops
      BY <1>1, <1>4, <3>1
    <3>3. Parent(e) \in ops
      BY <1>1, <1>4, <3>1
    <3> QED BY <1>1, <2>2, <3>2, <3>3 DEF Ancestry, MadeInv
  <2> QED BY <1>1, <2>1, <2>2
<1>5. exp' \subseteq made'
  BY <1>1 DEF Ancestry, MadeInv
<1> QED BY <1>2, <1>3, <1>4, <1>5 DEF Ancestry, MadeInv

\* An operation that takes the place of another inherits its parents.
LEMMA DominateAncestry == Shape /\ Shape' /\ Book /\ Ancestry /\ Dominate => Ancestry'
<1> SUFFICES ASSUME Shape, Shape', Book, Ancestry, Dominate PROVE Ancestry'
  OBVIOUS
<1>0. PICK gone \in SUBSET At(layer, pos) : \E By \in [gone -> At(layer, pos) \ gone] :
        /\ ops' = ops \ gone
        /\ known' = known \ gone
        /\ exp' = Staying(exp, gone) \cup Moving(pred, gone, By)
        /\ pred' = Staying(pred, gone) \cup Moving(pred, gone, By)
        /\ made' = Staying(made, gone) \cup Moving(made, gone, By)
  BY DominateFacts, Zenon DEF Shape
<1>1. PICK By \in [gone -> At(layer, pos) \ gone] :
        /\ ops' = ops \ gone
        /\ known' = known \ gone
        /\ exp' = Staying(exp, gone) \cup Moving(pred, gone, By)
        /\ pred' = Staying(pred, gone) \cup Moving(pred, gone, By)
        /\ made' = Staying(made, gone) \cup Moving(made, gone, By)
  BY <1>0
<1>2. \A e : Parent(e)' = Parent(e)
  <2>1. sizes' = sizes
    BY DEF Dominate
  <2> QED BY <2>1, SamePositions
<1>3. IsFiniteSet(known')
  BY <1>1, FS_Subset DEF Ancestry
<1>4. HasParents'
  <2> SUFFICES ASSUME NEW n \in ops', n.layer > 0 PROVE \E e \in pred' : e[2] = n
    BY DEF HasParents
  <2>1. n \in ops /\ n \notin gone
    BY <1>1
  <2>2. PICK e \in pred : e[2] = n
    BY <2>1 DEF Ancestry, HasParents
  <2>3. e \in Staying(pred, gone)
    BY <2>1, <2>2 DEF Staying
  <2> QED BY <1>1, <2>2, <2>3
<1>5. exp' \subseteq made'
  BY <1>1 DEF Ancestry, MadeInv, Book, LinkInv, Staying, Moving
<1>6. ASSUME NEW e \in made', e[2] \in ops', Parent(e)' \in ops' PROVE e \in exp'
  <2>1. CASE e \in Staying(made, gone)
    <3>1. e \in made /\ e[2] \in ops /\ Parent(e) \in ops /\ e[2] \notin gone
      BY <1>1, <1>2, <1>6, <2>1 DEF Staying
    <3>2. e \in exp
      BY <3>1 DEF Ancestry, MadeInv
    <3> QED BY <1>1, <3>1, <3>2 DEF Staying
  <2>2. CASE e \in Moving(made, gone, By)
    <3>1. PICK x \in made : x[2] \in gone /\ e = <<x[1], By[x[2]]>>
      BY <2>2 DEF Moving
    <3>2. x[2] \in At(layer, pos) /\ e[2] \in At(layer, pos) /\ e[1] = x[1]
      BY <3>1
    <3>3. x[2] \in ops /\ Parent(x) = Parent(e)
      BY <3>2 DEF At, Parent
    <3>4. Parent(x) \in ops
      BY <1>1, <1>2, <1>6, <3>3
    <3>5. x \in pred
      BY <3>3, <3>4 DEF Ancestry, MadeInv, Book, LinkInv
    <3>6. e \in Moving(pred, gone, By)
      BY <3>1, <3>5 DEF Moving
    <3> QED BY <1>1, <3>6
  <2> QED BY <1>1, <2>1, <2>2
<1> QED BY <1>3, <1>4, <1>5, <1>6 DEF Ancestry, MadeInv

\* A child that stays keeps another parent.
LEMMA PruneDownAncestry == Shape /\ Ancestry /\ PruneDown => Ancestry'
<1> SUFFICES ASSUME Shape, Ancestry, PruneDown PROVE Ancestry'
  OBVIOUS
<1>1. UNCHANGED <<sizes, made, known>>
  BY DEF PruneDown, place
<1>2. PICK n \in remove : \E P \in Visited(n) :
        RemoveOccurrence(n, Children(n, P) \ Doomed(n, P))
  BY Zenon DEF PruneDown
<1>3. PICK P \in Visited(n) : RemoveOccurrence(n, Children(n, P) \ Doomed(n, P))
  BY <1>2
<1> DEFINE stay == Children(n, P) \ Doomed(n, P)
<1>4. /\ ops' = ops \ {n}
      /\ exp' = {e \in exp : e[2] # n}
      /\ pred' = {e \in pred : e[2] # n /\ ~(e[1] = n.op /\ e[2] \in stay)}
  BY <1>3 DEF RemoveOccurrence
<1>5. n \in known
  BY DEF Shape, Elements
<1>6. \A e : Parent(e)' = Parent(e)
  BY <1>1, SamePositions
<1>7. ASSUME NEW c \in stay, NEW x \in pred, x[2] = c, x[1] = n.op
      PROVE  \E e \in pred : e[2] = c /\ e[1] # n.op
  <2>1. /\ c.layer = n.layer + 1 /\ n.pos = OldPos(n.layer+1, c.pos) /\ Parent(<<n.op, c>>) = n
    BY <1>5, VisitedChild
  <2>2. x = <<n.op, c>>
    BY <1>7 DEF Shape, Elements, Links
  <2>3. n \in Parents(c) /\ Parents(c) # {n}
    BY <1>7, <2>1, <2>2, ParentsAre DEF Doomed
  <2>4. PICK m \in Parents(c) : m # n
    BY <2>3
  <2>5. PICK e \in pred : e[2] = c /\ m = Parent(e)
    BY <2>4, ParentsAre
  <2>6. e = <<e[1], c>>
    BY <2>5 DEF Shape, Elements, Links
  <2> QED BY <2>1, <2>4, <2>5, <2>6
<1> HIDE DEF stay
<1>8. HasParents'
  <2> SUFFICES ASSUME NEW c \in ops', c.layer > 0 PROVE \E e \in pred' : e[2] = c
    BY DEF HasParents
  <2>1. c \in ops /\ c # n
    BY <1>4
  <2>2. PICK x \in pred : x[2] = c
    BY <2>1 DEF Ancestry, HasParents
  <2>3. CASE x[1] = n.op /\ c \in stay
    BY <1>4, <1>7, <2>1, <2>2, <2>3
  <2>4. CASE ~(x[1] = n.op /\ c \in stay)
    BY <1>4, <2>1, <2>2, <2>4
  <2> QED BY <2>3, <2>4
<1>9. MadeInv'
  BY <1>1, <1>4, <1>6 DEF Ancestry, MadeInv
<1> QED BY <1>1, <1>8, <1>9 DEF Ancestry

\* One step per action.
LEMMA NextAncestry == Shape /\ Shape' /\ Book /\ Ancestry /\ [Next]_vars => Ancestry'
<1> SUFFICES ASSUME Shape, Shape', Book, Ancestry, [Next]_vars PROVE Ancestry'
  OBVIOUS
<1>1. CASE PruneLeft
  BY <1>1, SameAncestry DEF PruneLeft, structure, history
<1>2. CASE PruneAbove
  BY <1>2, SameAncestry DEF PruneAbove, structure, history
<1>3. CASE Propagate
  BY <1>3, PropagateAncestry
<1>4. CASE Dominate
  BY <1>4, DominateAncestry
<1>5. CASE Encode
  BY <1>5, SameAncestry DEF Encode, structure, history
<1>6. CASE NextLayer
  BY <1>6, NextLayerAncestry
<1>7. CASE StartPrune
  BY <1>7, SameAncestry DEF StartPrune, structure
<1>8. CASE PruneUp
  BY <1>8, SameAncestry DEF PruneUp, structure, history
<1>9. CASE RootsFound
  BY <1>9, SameAncestry DEF RootsFound, structure, history
<1>10. CASE PruneDown
  BY <1>10, PruneDownAncestry
<1>11. CASE Return
  BY <1>11, SameAncestry DEF Return, structure
<1>12. CASE UNCHANGED vars
  BY <1>12, SameAncestry DEF vars, structure, history
<1> QED
  BY <1>1, <1>2, <1>3, <1>4, <1>5, <1>6, <1>7, <1>8, <1>9, <1>10, <1>11, <1>12
  DEF Next, Step, CreateNextPosition, Prune, Finished

-----------------------------------------------------------------------------
(* Upwards.                                                                *)

\* Parents and siblings only depend on the sizes and the links.
LEMMA SameFamily ==
  ASSUME UNCHANGED <<sizes, ops, exp, pred>>
  PROVE  /\ \A n : Parents(n)' = Parents(n)
         /\ \A m, n : Siblings(m, n)' = Siblings(m, n)
         /\ \A C : Complete(C)' <=> Complete(C)
<1>1. \A l, p : OldPos(l, p)' = OldPos(l, p)
  BY SamePositions
<1>2. \A n : Parents(n)' = Parents(n)
  BY <1>1 DEF Parents
<1>3. \A m, n : Siblings(m, n)' = Siblings(m, n)
  BY Zenon DEF Siblings, Children
<1>4. \A C : Complete(C)' <=> Complete(C)
  BY <1>2, <1>3 DEF Complete
<1> QED BY <1>2, <1>3, <1>4

\* A child is among the children of its parent.
LEMMA OwnSibling ==
  ASSUME Shape, Book, NEW n \in known, NEW m \in Parents(n)
  PROVE  n \in Siblings(m, n) /\ m.layer + 1 = n.layer /\ n.layer \in Nat /\ n.layer > 0
<1>1. PICK e \in pred : e[2] = n /\ m = Parent(e)
  BY ParentsAre
<1>2. e \in exp /\ e \in Links
  BY <1>1 DEF Book, LinkInv, Shape, Elements
<1>3. m.op = e[1] /\ m.layer = n.layer - 1
  BY <1>1 DEF Parent, Node
<1>4. n.layer \in Nat /\ n.layer > 0
  BY <1>1, <1>2, DomainFacts DEF Links, Shape, Hierarchy, Elements, Nodes
<1>5. n.layer = m.layer + 1
  BY <1>3, <1>4
<1> QED BY <1>1, <1>2, <1>3, <1>4, <1>5, ChildrenAre DEF Siblings

\* Operations on a path that have a common parent are at the same position.
LEMMA OnePosition ==
  ASSUME NEW f, NEW x, NEW y, OnPath(f, x), OnPath(f, y), x.layer = y.layer
  PROVE  x.pos = y.pos
BY DEF OnPath

\* At first, only the argument of prune is climbed.
LEMMA StartPruneUp == Shape /\ Shape' /\ Book /\ StartPrune => UpInv'
<1> SUFFICES ASSUME Shape, Shape', Book, StartPrune PROVE UpInv'
  OBVIOUS
<1>1. /\ pruning' = "up" /\ remove' = {} /\ taken' = {} /\ ops' = ops
  BY DEF StartPrune, structure
<1>2. PICK n \in todo : op' = n /\ open' = {n}
  BY DEF StartPrune
<1>3. n \in ops /\ n.layer \in Nat
  BY <1>2, DomainFacts DEF Shape, Hierarchy, Elements, Nodes, Book, WorkInv
<1>4. Climbed' = {n}
  BY <1>1, <1>2 DEF Climbed
<1>5. n.layer <= n.layer
  BY <1>3
<1>6. \A f \in Paths(op)' : OnPath(f, n)'
  BY <1>2, <1>5 DEF Paths, OnPath
<1> QED BY <1>1, <1>2, <1>3, <1>4, <1>6 DEF UpInv

\* The next operation is taken from its parents, and those it empties are
\* climbed: they are impossible with what is climbed already.
LEMMA PruneUpUp == Shape /\ Shape' /\ Book /\ Ancestry /\ UpInv /\ PruneUp => UpInv'
<1> SUFFICES ASSUME Shape, Shape', Book, Ancestry, UpInv, PruneUp PROVE UpInv'
  OBVIOUS
<1>0. CASE beyond
  <2>1. beyond'
    BY <1>0 DEF PruneUp, history
  <2> QED BY <2>1, Zenon DEF UpInv
<1> SUFFICES ASSUME ~beyond PROVE UpInv'
  BY <1>0
<1>1. /\ pruning = "up" /\ pruning' = "up"
      /\ UNCHANGED <<layer, sizes, ops, exp, pred, op, known, beyond>>
  BY DEF PruneUp, place, structure, history
<1>2. PICK n \in open :
       IF n.layer = 0
       THEN /\ open' = Reopened(n, {})
            /\ remove' = remove \cup {n}
            /\ UNCHANGED taken
       ELSE LET empty == EmptiedParents(n, taken')
            IN /\ taken' = taken \cup {<<m, n>> : m \in Parents(n)}
               /\ open' = Reopened(n, empty)
               /\ remove' = IF empty = {} THEN remove \cup {n} ELSE remove
  BY Zenon DEF PruneUp
<1>3. /\ op \in Climbed
      /\ \A f \in Paths(op) : \A x \in Climbed : OnPath(f, x)
      /\ Climbed \subseteq ops
  BY <1>1 DEF UpInv
<1>4. /\ \A t \in taken : t[1] \in Parents(t[2])
      /\ \A t \in taken : \A m \in Parents(t[2]) : <<m, t[2]>> \in taken
  BY <1>1 DEF UpInv
<1>5. \A t \in taken : Siblings(t[1], t[2]) \subseteq Taken(t[1]) => t[1] \in Climbed
  BY <1>1 DEF UpInv
<1>6. \A t \in taken : \/ t[2] \in remove
                       \/ \E m \in Parents(t[2]) :
                            m \in Climbed /\ Siblings(m, t[2]) \subseteq Taken(m)
  BY <1>1 DEF UpInv
<1>13. /\ \A x \in remove : x.layer = 0 \/ \E t \in taken : t[2] = x
       /\ \A x \in Climbed : x = op \/ x.layer < op.layer
  BY <1>1 DEF UpInv
<1>7. \A C \in SUBSET ops : op \in C /\ Complete(C) => Climbed \subseteq C
  BY <1>1 DEF UpInv
<1>8. /\ \A k : Parents(k)' = Parents(k)
      /\ \A m, k : Siblings(m, k)' = Siblings(m, k)
      /\ \A C : Complete(C)' <=> Complete(C)
  BY <1>1, SameFamily
<1>9. Paths(op)' = Paths(op) /\ \A f, x : OnPath(f, x)' <=> OnPath(f, x)
  BY <1>1, SamePaths DEF OnPath
<1>10. /\ n \in Climbed /\ n \in ops /\ n \in known /\ n.layer \in Nat
       /\ op \in Nodes /\ op.layer \in Nat
  BY <1>1, <1>2, <1>3, DomainFacts DEF Climbed, Shape, Hierarchy, Elements, Nodes
<1>11. CASE n.layer = 0
  <2>1. /\ taken' = taken /\ remove' = remove \cup {n} /\ open' = open \ {n}
    BY <1>2, <1>11 DEF Reopened
  <2>2. Climbed' = Climbed /\ \A m : Taken(m)' = Taken(m)
    BY <1>2, <2>1 DEF Climbed, Taken
  <2>3. \A t \in taken' : \/ t[2] \in remove'
                          \/ \E m \in Parents(t[2])' :
                               m \in Climbed' /\ Siblings(m, t[2])' \subseteq Taken(m)'
    BY <1>6, <1>8, <2>1, <2>2
  <2>4. \A t \in taken' : Siblings(t[1], t[2])' \subseteq Taken(t[1])' => t[1] \in Climbed'
    BY <1>5, <1>8, <2>1, <2>2
  <2>5. \A C \in SUBSET ops' : op' \in C /\ Complete(C)' => Climbed' \subseteq C
    BY <1>1, <1>7, <1>8, <2>2
  <2>6. \A t \in taken' : t[1] \in Parents(t[2])' /\ \A m \in Parents(t[2])' : <<m, t[2]>> \in taken'
    BY <1>4, <1>8, <2>1
  <2>7. \A x \in remove' : x.layer = 0 \/ \E t \in taken' : t[2] = x
    BY <1>11, <1>13, <2>1
  <2>8. \A x \in Climbed' : x = op' \/ x.layer < op'.layer
    BY <1>1, <1>13, <2>2
  <2> QED BY <1>1, <1>3, <1>9, <2>2, <2>3, <2>4, <2>5, <2>6, <2>7, <2>8 DEF UpInv
<1>12. CASE n.layer # 0
  <2> DEFINE E == EmptiedParents(n, taken')
             K(m) == {t[2] : t \in {x \in taken' : x[1] = m}}
  <2>1. /\ taken' = taken \cup {<<m, n>> : m \in Parents(n)}
        /\ open' = (open \ {n}) \cup E
        /\ remove' = IF E = {} THEN remove \cup {n} ELSE remove
    BY <1>2, <1>12 DEF Reopened
  <2>2. \A m : m \in E <=> m \in Parents(n) /\ Siblings(m, n) = K(m)
    BY DEF EmptiedParents
  <2>3. \A m : Taken(m)' = K(m)
    BY DEF Taken
  <2> HIDE DEF E
  <2>4. PICK m0 : m0 \in Parents(n)
    <3>1. n.layer > 0
      BY <1>10, <1>12
    <3>2. PICK e \in pred : e[2] = n
      BY <1>10, <3>1 DEF Ancestry, HasParents
    <3> QED BY <3>2, ParentsAre
  <2>5. Climbed' = Climbed \cup E
    <3>1. {t[2] : t \in taken'} = {t[2] : t \in taken} \cup {n}
      <4>1. \A t \in taken' : t \in taken \/ t[2] = n
        BY <2>1
      <4>2. \A t \in taken : t \in taken'
        BY <2>1
      <4>3. <<m0, n>> \in taken' /\ <<m0, n>>[2] = n
        BY <2>1, <2>4
      <4>4. n \in {t[2] : t \in taken'}
        BY <4>3, Zenon
      <4> QED BY <4>1, <4>2, <4>4
    <3> QED BY <1>2, <2>1, <3>1 DEF Climbed
  <2>6. Parents(n) \subseteq ops
    <3>1. \A e \in pred : Parent(e) \in ops
      BY <1>1 DEF Book, LinkInv
    <3> QED BY <3>1, ParentsAre
  <2>7. PICK f : f \in Paths(op)
    BY <1>10, PathExists DEF Shape
  <2>8. ASSUME NEW t \in taken', t[1] \in Parents(n)
        PROVE  t[2].layer = n.layer /\ t[2].pos = n.pos /\ t[2] \in Siblings(t[1], n)
               /\ Siblings(t[1], t[2]) = Siblings(t[1], n)
    <3>1. t[1] \in Parents(t[2]) /\ t[2] \in Climbed /\ t[2] \in known
      <4>1. CASE t \in taken
        <5>1. t[1] \in Parents(t[2]) /\ t[2] \in Climbed
          BY <1>4, <4>1 DEF Climbed
        <5> QED BY <1>3, <5>1 DEF Shape, Elements
      <4>2. CASE t \notin taken
        BY <1>10, <2>1, <2>8, <4>2
      <4> QED BY <4>1, <4>2
    <3>2. /\ t[2] \in Siblings(t[1], t[2]) /\ t[1].layer + 1 = t[2].layer
          /\ t[1].layer + 1 = n.layer
      BY <1>10, <2>8, <3>1, OwnSibling
    <3>3. OnPath(f, t[2]) /\ OnPath(f, n)
      BY <1>3, <1>10, <2>7, <3>1
    <3>4. t[2].layer = n.layer /\ t[2].pos = n.pos
      BY <3>2, <3>3, OnePosition
    <3>5. Siblings(t[1], t[2]) = Siblings(t[1], n)
      BY <3>4, Zenon DEF Siblings
    <3> QED BY <3>2, <3>4, <3>5
  <2>9. \A g \in Paths(op) : \A x \in Climbed' : OnPath(g, x)
    <3> SUFFICES ASSUME NEW g \in Paths(op), NEW m \in E PROVE OnPath(g, m)
      BY <1>3, <2>5
    <3>1. m \in Parents(n) /\ OnPath(g, n)
      BY <1>3, <1>10, <2>2
    <3>2. m.layer = n.layer - 1 /\ m.pos = OldPos(n.layer, n.pos)
      BY <3>1, ParentsLayer
    <3>3. n.layer <= op.layer /\ n.pos = g[n.layer]
      BY <3>1 DEF OnPath
    <3>4. m.layer \in 0..op.layer-1 /\ m.layer + 1 = n.layer /\ m.layer <= op.layer
      BY <1>10, <1>12, <3>2, <3>3
    <3>5. \A l \in 0..op.layer-1 : g[l] = OldPos(l+1, g[l+1])
      BY DEF Paths
    <3>6. g[m.layer] = OldPos(m.layer+1, g[m.layer+1])
      BY <3>4, <3>5, Zenon
    <3> QED BY <3>2, <3>3, <3>4, <3>6 DEF OnPath
  <2>10. ASSUME NEW t \in taken' PROVE t[1] \in Parents(t[2])
    BY <1>4, <2>1
  <2>11. ASSUME NEW t \in taken', NEW m \in Parents(t[2]) PROVE <<m, t[2]>> \in taken'
    BY <1>4, <2>1
  <2>12. ASSUME NEW t \in taken', Siblings(t[1], t[2]) \subseteq K(t[1]) PROVE t[1] \in Climbed'
    <3>1. CASE t[1] \in Parents(n)
      <4>1. Siblings(t[1], n) \subseteq K(t[1])
        BY <2>8, <2>12, <3>1
      <4>2. K(t[1]) \subseteq Siblings(t[1], n)
        BY <2>8, <3>1
      <4> QED BY <2>2, <2>5, <3>1, <4>1, <4>2
    <3>2. CASE t[1] \notin Parents(n)
      <4>1. t \in taken
        BY <2>1, <3>2
      <4>2. K(t[1]) \subseteq Taken(t[1])
        BY <2>1, <3>2 DEF Taken
      <4> QED BY <1>5, <2>5, <2>12, <4>1, <4>2
    <3> QED BY <3>1, <3>2
  <2>13. \A m : Taken(m) \subseteq K(m)
    BY <2>1 DEF Taken
  <2>14. ASSUME NEW t \in taken'
         PROVE  \/ t[2] \in remove'
                \/ \E m \in Parents(t[2]) : m \in Climbed' /\ Siblings(m, t[2]) \subseteq K(m)
    <3>1. CASE t \in taken
      <4>1. CASE t[2] \in remove
        BY <2>1, <4>1
      <4>2. CASE t[2] \notin remove
        <5>1. PICK m \in Parents(t[2]) : m \in Climbed /\ Siblings(m, t[2]) \subseteq Taken(m)
          BY <1>6, <3>1, <4>2
        <5>2. m \in Climbed' /\ Siblings(m, t[2]) \subseteq K(m)
          BY <2>5, <2>13, <5>1
        <5> QED BY <5>2
      <4> QED BY <4>1, <4>2
    <3>2. CASE t \notin taken
      <4>1. t[2] = n
        BY <2>1, <3>2
      <4>2. CASE E = {}
        BY <2>1, <4>1, <4>2
      <4>3. CASE E # {}
        <5>1. PICK m \in E : TRUE
          BY <4>3
        <5>2. m \in Parents(t[2]) /\ m \in Climbed' /\ Siblings(m, t[2]) \subseteq K(m)
          BY <2>2, <2>5, <4>1, <5>1
        <5> QED BY <5>2
      <4> QED BY <4>2, <4>3
    <3> QED BY <3>1, <3>2
  <2>15. ASSUME NEW C \in SUBSET ops, op \in C, Complete(C) PROVE Climbed' \subseteq C
    <3>1. Climbed \subseteq C /\ n \in C
      BY <1>7, <1>10, <2>15
    <3>2. ASSUME NEW m \in E PROVE m \in C
      <4>1. m \in Parents(n) /\ Siblings(m, n) = K(m) /\ m \in ops
        BY <2>2, <2>6
      <4>2. K(m) \subseteq Climbed \cup {n}
        BY <2>1 DEF Climbed
      <4>3. Siblings(m, n) \subseteq C
        BY <3>1, <4>1, <4>2
      <4> QED BY <2>15, <3>1, <4>1, <4>3 DEF Complete
    <3> QED BY <2>5, <3>1, <3>2
  <2>16. Climbed' \subseteq ops
    BY <1>3, <2>2, <2>5, <2>6
  <2> HIDE DEF K
  <2>17. op' \in Climbed' /\ \A g \in Paths(op)' : \A x \in Climbed' : OnPath(g, x)'
    BY <1>1, <1>3, <1>9, <2>5, <2>9
  <2>18. \A t \in taken' : t[1] \in Parents(t[2])' /\ \A m \in Parents(t[2])' : <<m, t[2]>> \in taken'
    BY <1>8, <2>10, <2>11
  <2>19. \A t \in taken' : Siblings(t[1], t[2])' \subseteq Taken(t[1])' => t[1] \in Climbed'
    BY <1>8, <2>3, <2>12
  <2>20. \A t \in taken' : \/ t[2] \in remove'
                          \/ \E m \in Parents(t[2])' :
                               m \in Climbed' /\ Siblings(m, t[2])' \subseteq Taken(m)'
    BY <1>8, <2>3, <2>14
  <2>21. \A C \in SUBSET ops' : op' \in C /\ Complete(C)' => Climbed' \subseteq C
    BY <1>1, <1>8, <2>15
  <2>22. Climbed' \subseteq ops'
    BY <1>1, <2>16
  <2>23. \A x \in remove' : x.layer = 0 \/ \E t \in taken' : t[2] = x
    <3>1. <<m0, n>> \in taken' /\ <<m0, n>>[2] = n
      BY <2>1, <2>4
    <3>2. \A x \in remove' : x \in remove \/ x = n
      BY <2>1
    <3>3. taken \subseteq taken'
      BY <2>1
    <3> QED BY <1>13, <3>1, <3>2, <3>3
  <2>24. \A x \in Climbed' : x = op' \/ x.layer < op'.layer
    <3>1. ASSUME NEW m \in E PROVE m.layer < op.layer
      <4>1. m.layer = n.layer - 1
        BY <2>2, <3>1, ParentsLayer
      <4>2. n.layer <= op.layer
        BY <1>3, <1>10, <2>7 DEF OnPath
      <4> QED BY <1>10, <4>1, <4>2
    <3> QED BY <1>1, <1>13, <2>5, <3>1
  <2> QED BY <2>17, <2>18, <2>19, <2>20, <2>21, <2>22, <2>23, <2>24 DEF UpInv
<1> QED BY <1>11, <1>12

\* The argument of prune, and what it takes up on its way, goes upwards.
LEMMA NextUp == Shape /\ Shape' /\ Book /\ Ancestry /\ UpInv /\ [Next]_vars => UpInv'
<1> SUFFICES ASSUME Shape, Shape', Book, Ancestry, UpInv, [Next]_vars PROVE UpInv'
  OBVIOUS
<1>1. ASSUME pruning' # "up" PROVE UpInv'
  BY <1>1, Zenon DEF UpInv
<1>2. CASE PruneLeft \/ PruneAbove \/ Propagate \/ Dominate \/ Encode \/ NextLayer
  <2>1. pruning = "no" /\ pruning' = pruning
    BY <1>2 DEF PruneLeft, PruneAbove, Propagate, Dominate, Encode, NextLayer, Quiet, worklists
  <2> QED BY <1>1, <2>1
<1>3. CASE StartPrune
  BY <1>3, StartPruneUp
<1>4. CASE PruneUp
  BY <1>4, PruneUpUp
<1>5. CASE RootsFound \/ PruneDown \/ Return
  <2>1. pruning' # "up"
    BY <1>5 DEF RootsFound, PruneDown, Return
  <2> QED BY <1>1, <2>1
<1>6. CASE UNCHANGED vars
  <2>1. UNCHANGED <<sizes, ops, exp, pred, pruning, beyond, open, remove, taken, op>>
    BY <1>6 DEF vars, structure, worklists, history
  <2>2. /\ \A k : Parents(k)' = Parents(k)
        /\ \A m, k : Siblings(m, k)' = Siblings(m, k)
        /\ \A C : Complete(C)' <=> Complete(C)
    BY <2>1, SameFamily
  <2>3. Paths(op)' = Paths(op) /\ \A f, x : OnPath(f, x)' <=> OnPath(f, x)
    BY <2>1, SamePaths DEF OnPath
  <2>4. Climbed' = Climbed /\ \A m : Taken(m)' = Taken(m)
    BY <2>1 DEF Climbed, Taken
  <2> SUFFICES ASSUME pruning = "up", ~beyond PROVE UpInv'
    BY <1>1, <2>1 DEF UpInv
  <2>5. /\ op \in Climbed
        /\ \A f \in Paths(op) : \A x \in Climbed : OnPath(f, x)
        /\ \A x \in Climbed : x = op \/ x.layer < op.layer
        /\ \A t \in taken : /\ t[1] \in Parents(t[2])
                            /\ \A m \in Parents(t[2]) : <<m, t[2]>> \in taken
        /\ \A t \in taken : Siblings(t[1], t[2]) \subseteq Taken(t[1]) => t[1] \in Climbed
        /\ \A x \in remove : x.layer = 0 \/ \E t \in taken : t[2] = x
        /\ \A t \in taken : \/ t[2] \in remove
                             \/ \E m \in Parents(t[2]) :
                                  m \in Climbed /\ Siblings(m, t[2]) \subseteq Taken(m)
        /\ \A C \in SUBSET ops : op \in C /\ Complete(C) => Climbed \subseteq C
        /\ Climbed \subseteq ops
    BY DEF UpInv
  <2> QED BY <2>1, <2>2, <2>3, <2>4, <2>5 DEF UpInv
<1> QED BY <1>2, <1>3, <1>4, <1>5, <1>6 DEF Next, Step, CreateNextPosition, Prune, Finished

-----------------------------------------------------------------------------
(* What goes down, as the least set, and what the atomic specification     *)
(* sees of the hierarchy.                                                  *)

\* The operations that go down with those in D.
Falls(D) == {c \in ops \ D : /\ Parents(c) \cap D # {}
                             /\ (c = op \/ Parents(c) \subseteq D)}

\* Going is the least set that contains opsToRemove and lacks nothing.
LEMMA GoingIs ==
  IsFiniteSet(ops) /\ pruning = "down" /\ remove \subseteq ops =>
    /\ Going \in SUBSET ops /\ remove \subseteq Going /\ Falls(Going) = {}
    /\ \A C \in SUBSET ops : remove \subseteq C /\ Falls(C) = {} => Going \subseteq C
<1> SUFFICES ASSUME IsFiniteSet(ops), pruning = "down", remove \subseteq ops
             PROVE  /\ Going \in SUBSET ops /\ remove \subseteq Going /\ Falls(Going) = {}
                    /\ \A C \in SUBSET ops : remove \subseteq C /\ Falls(C) = {} => Going \subseteq C
  OBVIOUS
<1> DEFINE m == [D \in SUBSET ops |-> Falls(D)]
<1>1. Adds(ops, m)
  <2>1. \A D \in SUBSET ops : Falls(D) \in SUBSET ops /\ Falls(D) \cap D = {}
    BY DEF Falls
  <2>2. \A C, D \in SUBSET ops : D \subseteq C => Falls(D) \subseteq C \cup Falls(C)
    BY DEF Falls
  <2> QED BY <2>1, <2>2 DEF Adds
<1> DEFINE step(g) == [D \in SUBSET ops |->
                         IF Falls(D) = {} THEN D ELSE g[D \cup Falls(D)]]
<1>2. \A g : IsClosure(g, ops, m) <=> g = step(g)
  BY DEF IsClosure
<1> HIDE DEF m, step
<1>3. \E g : IsClosure(g, ops, m)
  BY <1>1, ClosureExists
<1> USE DEF m, step
<1>4. PICK h : Going = h[remove \cap ops] /\ h = CHOOSE g : g = step(g)
  BY Zenon DEF Going, Falls
<1> HIDE DEF m, step
<1>5. IsClosure(h, ops, m)
  BY <1>2, <1>3, <1>4
<1>6. remove \in SUBSET ops /\ remove \cap ops = remove
  OBVIOUS
<1>7. /\ h[remove] \in SUBSET ops /\ remove \subseteq h[remove] /\ m[h[remove]] = {}
      /\ \A C \in SUBSET ops : remove \subseteq C /\ m[C] = {} => h[remove] \subseteq C
  BY <1>1, <1>5, <1>6, ClosureIsLeast
<1>8. \A D \in SUBSET ops : m[D] = Falls(D)
  BY DEF m
<1> QED BY <1>4, <1>6, <1>7, <1>8

\* Before and after the downward pass nothing is going to be removed.
LEMMA GoingIsNot == pruning # "down" => Going = {}
  BY DEF Going

\* The links of the atomic specification.
ALinks == UNION {(Parents(n) \cap Alive) \X {n} : n \in Alive}

\* They lead from parents to children, neither of which is going to go.
LEMMA LinkIs ==
  \A e : e \in ALinks <=> \E n \in Alive : \E m \in Parents(n) \cap Alive : e = <<m, n>>
  BY DEF ALinks

\* So the parents of the atomic specification are parents of the code,
LEMMA AtomicParents == \A n : Atomic!Parents(n) = {m \in Parents(n) : m \in Alive /\ n \in Alive}
<1> TAKE n
<1> DEFINE I == {x \in ALinks : x[2] = n}
           F == {e[1] : e \in I}
<1>1. Atomic!Parents(n) = F
  BY Zenon DEF Atomic!Parents, ALinks
<1>2. ASSUME NEW m \in F PROVE m \in Parents(n) /\ m \in Alive /\ n \in Alive
  BY LinkIs
<1>3. ASSUME NEW m \in Parents(n), m \in Alive, n \in Alive PROVE m \in F
  <2>1. <<m, n>> \in ALinks
    BY <1>3, LinkIs
  <2>2. <<m, n>> \in I /\ <<m, n>>[1] = m
    BY <2>1
  <2> QED BY <2>2
<1> HIDE DEF F
<1> QED BY <1>1, <1>2, <1>3

\* and its children are children of the code.
LEMMA AtomicChildren ==
  \A m, p : Atomic!Children(m, p) = {c \in Alive : m \in Alive /\ c.pos = p /\ m \in Parents(c)}
<1> TAKE m, p
<1> DEFINE I == {x \in ALinks : x[1] = m /\ x[2].pos = p}
           F == {e[2] : e \in I}
<1>1. Atomic!Children(m, p) = F
  BY Zenon DEF Atomic!Children, ALinks
<1>2. ASSUME NEW c \in F PROVE c \in Alive /\ m \in Alive /\ c.pos = p /\ m \in Parents(c)
  BY LinkIs
<1>3. ASSUME NEW c \in Alive, m \in Alive, c.pos = p, m \in Parents(c) PROVE c \in F
  <2>1. <<m, c>> \in ALinks
    BY <1>3, LinkIs
  <2>2. <<m, c>> \in I /\ <<m, c>>[2] = c
    BY <1>3, <2>1
  <2> QED BY <2>2
<1> HIDE DEF F
<1> QED BY <1>1, <1>2, <1>3

\* What becomes impossible with the operations in D.
Missing(D) == {m \in Alive \ D : Atomic!Emptied(m, D) \/ Atomic!Orphaned(m, D)}

\* What is impossible if n is: the least set with n that lacks nothing.
LEMMA ImpossibleIs ==
  IsFiniteSet(ops) =>
    \A n \in Alive :
      /\ Atomic!Impossible(n) \in SUBSET Alive /\ n \in Atomic!Impossible(n)
      /\ Missing(Atomic!Impossible(n)) = {}
      /\ \A C \in SUBSET Alive : n \in C /\ Missing(C) = {} => Atomic!Impossible(n) \subseteq C
<1> SUFFICES ASSUME IsFiniteSet(ops), NEW n \in Alive
             PROVE  /\ Atomic!Impossible(n) \in SUBSET Alive /\ n \in Atomic!Impossible(n)
                    /\ Missing(Atomic!Impossible(n)) = {}
                    /\ \A C \in SUBSET Alive : n \in C /\ Missing(C) = {} => Atomic!Impossible(n) \subseteq C
  OBVIOUS
<1> DEFINE m == [D \in SUBSET Alive |-> Missing(D)]
<1>0. IsFiniteSet(Alive)
  BY FS_Subset DEF Alive
<1>1. Adds(Alive, m)
  <2>1. \A D \in SUBSET Alive : Missing(D) \in SUBSET Alive /\ Missing(D) \cap D = {}
    BY DEF Missing
  <2>2. ASSUME NEW C \in SUBSET Alive, NEW D \in SUBSET Alive, D \subseteq C
        PROVE  Missing(D) \subseteq C \cup Missing(C)
    <3>1. \A x : Atomic!Emptied(x, D) => Atomic!Emptied(x, C)
      BY <2>2 DEF Atomic!Emptied
    <3>2. \A x : Atomic!Orphaned(x, D) => Atomic!Orphaned(x, C)
      BY <2>2 DEF Atomic!Orphaned
    <3> QED BY <3>1, <3>2 DEF Missing
  <2> QED BY <2>1, <2>2 DEF Adds
<1> DEFINE step(g) == [D \in SUBSET Alive |->
                         IF Missing(D) = {} THEN D ELSE g[D \cup Missing(D)]]
<1>2. \A g : IsClosure(g, Alive, m) <=> g = step(g)
  BY DEF IsClosure
<1> HIDE DEF m, step
<1>3. \E g : IsClosure(g, Alive, m)
  BY <1>1, ClosureExists
<1> USE DEF m, step
<1>4. PICK h : Atomic!Impossible(n) = h[{n}] /\ h = CHOOSE g : g = step(g)
  BY Zenon DEF Atomic!Impossible, Missing
<1> HIDE DEF m, step
<1>5. IsClosure(h, Alive, m)
  BY <1>2, <1>3, <1>4
<1>6. ASSUME NEW R \in SUBSET Alive
      PROVE  /\ h[R] \in SUBSET Alive /\ R \subseteq h[R] /\ m[h[R]] = {}
             /\ \A C \in SUBSET Alive : R \subseteq C /\ m[C] = {} => h[R] \subseteq C
  BY <1>0, <1>1, <1>5, ClosureIsLeast
<1>7. /\ h[{n}] \in SUBSET Alive /\ {n} \subseteq h[{n}] /\ m[h[{n}]] = {}
      /\ \A C \in SUBSET Alive : {n} \subseteq C /\ m[C] = {} => h[{n}] \subseteq C
  BY <1>6
<1>8. \A D \in SUBSET Alive : m[D] = Missing(D)
  BY DEF m
<1>9. /\ Atomic!Impossible(n) \in SUBSET Alive /\ n \in Atomic!Impossible(n)
      /\ m[Atomic!Impossible(n)] = {}
      /\ \A C \in SUBSET Alive : n \in C /\ m[C] = {} => Atomic!Impossible(n) \subseteq C
  BY <1>4, <1>7
<1> QED BY <1>8, <1>9

-----------------------------------------------------------------------------
(* The steps that change nothing the callers see.                          *)

\* prune is not running, or only on its way up, or done.
AtRest == pruning = "down" => remove = {}

\* The links of _predecessors.
PredLinks == {<<Parent(e), e[2]>> : e \in pred}

\* Then nothing is going to be removed,
LEMMA RestGoing == IsFiniteSet(ops) /\ AtRest => Going = {}
<1> SUFFICES ASSUME IsFiniteSet(ops), AtRest, pruning = "down" PROVE Going = {}
  BY GoingIsNot
<1>1. remove = {} /\ Falls({}) = {}
  BY DEF AtRest, Falls
<1> QED BY <1>1, GoingIs

\* and the links of the atomic specification are those of _predecessors.
LEMMA RestLinks ==
  Shape /\ Book /\ Ancestry /\ AtRest /\ ~beyond => Going = {} /\ Alive = ops /\ ALinks = PredLinks
<1> SUFFICES ASSUME Shape, Book, Ancestry, AtRest, ~beyond
             PROVE  Going = {} /\ Alive = ops /\ ALinks = PredLinks
  OBVIOUS
<1>1. IsFiniteSet(ops)
  BY FS_Subset DEF Shape, Elements, Ancestry
<1>2. Going = {} /\ Alive = ops
  BY <1>1, RestGoing DEF Alive
<1>3. ASSUME NEW e \in pred PROVE e[2] \in ops /\ Parent(e) \in ops
  BY DEF Book, LinkInv, AtRest
<1>4. ASSUME NEW x \in ALinks PROVE x \in PredLinks
  <2>1. PICK n \in Alive : \E m \in Parents(n) \cap Alive : x = <<m, n>>
    BY LinkIs
  <2>2. PICK m \in Parents(n) : x = <<m, n>>
    BY <2>1
  <2>3. PICK e \in pred : e[2] = n /\ m = Parent(e)
    BY ParentsAre
  <2> QED BY <2>2, <2>3 DEF PredLinks
<1>5. ASSUME NEW e \in pred PROVE <<Parent(e), e[2]>> \in ALinks
  <2>1. Parent(e) \in Parents(e[2])
    BY ParentsAre
  <2> QED BY <1>2, <1>3, <2>1, LinkIs
<1>6. PredLinks \subseteq ALinks
  BY <1>5 DEF PredLinks
<1> QED BY <1>2, <1>4, <1>6

\* Whether parents share their children depends on the history only.
LEMMA SameAgree == ASSUME made' = made PROVE ChildSetsAgree' = ChildSetsAgree
BY DEF ChildSetsAgree

\* What the callers do between two calls of prune and what prune does on its
\* way up changes nothing that the atomic specification sees.
LEMMA RestStutter ==
  ASSUME Shape, Shape', Book, Book', Ancestry, Ancestry', AtRest, AtRest',
         UNCHANGED <<ops, pred, made, beyond>>, \A e \in pred : Parent(e)' = Parent(e)
  PROVE  [Atomic!Next]_Atomic!vars
<1>1. CASE beyond
  BY <1>1 DEF Atomic!Next, Atomic!Void
<1>2. CASE ~beyond
  <2>1. Alive = ops /\ ALinks = PredLinks
    BY <1>2, RestLinks
  <2>2. (Shape /\ Book /\ Ancestry /\ AtRest /\ ~beyond
         => Going = {} /\ Alive = ops /\ ALinks = PredLinks)'
    BY RestLinks, PTL
  <2>3. Alive' = ops' /\ ALinks' = PredLinks'
    BY <1>2, <2>2
  <2>4. PredLinks' = PredLinks
    <3>1. \A e \in pred : <<Parent(e), e[2]>> = <<Parent(e)', e[2]>>
      OBVIOUS
    <3> QED BY <3>1, Zenon DEF PredLinks
  <2>5. ALinks' = ALinks /\ Alive' = Alive
    BY <2>1, <2>3, <2>4
  <2>6. ChildSetsAgree' = ChildSetsAgree
    BY SameAgree
  <2>7. Atomic!vars' = Atomic!vars
    BY <2>5, <2>6, Zenon DEF Atomic!vars, ALinks
  <2> QED BY <2>7, Zenon
<1> QED BY <1>1, <1>2

\* If nothing happens, what goes down stays the same.
LEMMA SameGoing ==
  ASSUME Shape, Book, Ancestry, ~beyond, pruning = "down", UNCHANGED vars
  PROVE  (\A n : Parents(n)' = Parents(n)) /\ Alive' = Alive
<1>0. UNCHANGED <<sizes, ops, pred, exp, pruning, remove, op>>
  BY DEF vars, structure, worklists
<1>1. \A l, p : OldPos(l, p)' = OldPos(l, p)
  BY <1>0, SamePositions
<1>2. \A n : Parents(n)' = Parents(n)
  BY <1>0, <1>1 DEF Parents
<1>3. Going' = Going
  <2>1. /\ IsFiniteSet(ops) /\ remove \subseteq ops /\ pruning = "down"
        /\ ops' = ops /\ remove' = remove /\ pruning' = pruning
    BY <1>0, FS_Subset DEF Shape, Elements, Ancestry, Book, WorkInv
  <2>2. \A D : Falls(D)' = Falls(D)
    BY <1>0, <1>2 DEF Falls
  <2>3. /\ Going \in SUBSET ops /\ remove \subseteq Going /\ Falls(Going) = {}
        /\ \A C \in SUBSET ops : remove \subseteq C /\ Falls(C) = {} => Going \subseteq C
    BY <2>1, GoingIs
  <2>4. (IsFiniteSet(ops) /\ pruning = "down" /\ remove \subseteq ops =>
          /\ Going \in SUBSET ops /\ remove \subseteq Going /\ Falls(Going) = {}
          /\ \A C \in SUBSET ops : remove \subseteq C /\ Falls(C) = {} => Going \subseteq C)'
    BY GoingIs, PTL
  <2>5. /\ Going' \in SUBSET ops /\ remove \subseteq Going' /\ Falls(Going)' = {}
        /\ \A C \in SUBSET ops : remove \subseteq C /\ Falls(C)' = {} => Going' \subseteq C
    BY <2>1, <2>4
  <2>6. \A C \in SUBSET ops : remove \subseteq C /\ Falls(C) = {} => Going' \subseteq C
    BY <2>2, <2>5
  <2>7. Falls(Going') = {}
    BY <1>0, <1>2, <2>5 DEF Falls
  <2> QED BY <2>3, <2>5, <2>6, <2>7
<1>4. Alive' = Alive
  BY <1>0, <1>3 DEF Alive
<1> QED BY <1>2, <1>4

\* One step per action.
LEMMA CallersStutter ==
  ASSUME Shape, Shape', Book, Book', Ancestry, Ancestry',
         \/ PruneLeft \/ PruneAbove \/ Encode \/ NextLayer
         \/ StartPrune \/ PruneUp \/ Return \/ UNCHANGED vars
  PROVE  [Atomic!Next]_Atomic!vars
<1>1. ASSUME AtRest, AtRest', UNCHANGED <<ops, pred, made, beyond>>, sizes' = sizes
      PROVE  [Atomic!Next]_Atomic!vars
  <2>1. \A e : Parent(e)' = Parent(e)
    BY <1>1, SamePositions
  <2> QED BY <1>1, <2>1, RestStutter
<1>2. CASE PruneLeft
  BY <1>1, <1>2 DEF PruneLeft, Quiet, AtRest, structure, history, worklists
<1>3. CASE PruneAbove
  BY <1>1, <1>3 DEF PruneAbove, Quiet, AtRest, structure, history, worklists
<1>4. CASE Encode
  BY <1>1, <1>4 DEF Encode, Quiet, AtRest, structure, history, worklists
<1>5. CASE StartPrune
  BY <1>1, <1>5 DEF StartPrune, AtRest, structure
<1>6. CASE PruneUp
  BY <1>1, <1>6 DEF PruneUp, AtRest, structure, history
<1>7. CASE Return
  BY <1>1, <1>7 DEF Return, AtRest, structure
<1>8. CASE UNCHANGED vars
  <2>1. UNCHANGED <<sizes, ops, pred, made, beyond, exp, domain, pruning, remove, op, layer>>
    BY <1>8 DEF vars, structure, history, place, worklists
  <2>2. CASE AtRest
    BY <1>1, <2>1, <2>2 DEF AtRest
  <2>3. CASE beyond
    BY <2>1, <2>3 DEF Atomic!Next, Atomic!Void
  <2>4. CASE ~AtRest /\ ~beyond
    <3>1. (\A n : Parents(n)' = Parents(n)) /\ Alive' = Alive
      BY <1>8, <2>4, SameGoing DEF AtRest
    <3>2. ALinks' = ALinks
      BY <3>1 DEF ALinks
    <3>3. ChildSetsAgree' = ChildSetsAgree
      BY <2>1, SameAgree
    <3>4. Atomic!vars' = Atomic!vars
      BY <2>1, <3>1, <3>2, <3>3, Zenon DEF Atomic!vars, ALinks
    <3> QED BY <3>4, Zenon
  <2> QED BY <2>2, <2>3, <2>4
<1>9. CASE NextLayer
  <2>1. /\ layer < LayerBound /\ layer \in Nat /\ pruning = "no" /\ pruning' = "no"
        /\ UNCHANGED <<domain, ops, exp, pred, made, known, beyond>>
    BY <1>9, DomainFacts DEF NextLayer, Quiet, history, worklists, Shape, Hierarchy
  <2>2. \A e \in pred : Parent(e)' = Parent(e)
    <3> SUFFICES ASSUME NEW e \in pred PROVE Parent(e)' = Parent(e)
      OBVIOUS
    <3>1. /\ e \in Links /\ e[2].layer \in 0..layer /\ e[2].layer > 0
          /\ e[2] \in known /\ Parent(e) \in known
      BY DEF Links, Shape, Elements, Nodes
    <3>2. sizes' = [l \in 0 .. layer + 1 |->
                   IF l <= layer THEN sizes[l]
                   ELSE [p \in 0 .. NextLayerSize(layer) - 1 |-> 1]]
      BY <1>9 DEF NextLayer
    <3>3. e[2].layer-1 \in 0..layer+1 /\ e[2].layer-1 <= layer
      BY <2>1, <3>1
    <3>4. sizes'[e[2].layer-1] = sizes[e[2].layer-1]
      BY <3>2, <3>3, Zenon
    <3> QED BY <2>1, <3>1, <3>4, LinkStays DEF Shape
  <2>3. AtRest /\ AtRest'
    BY <2>1 DEF AtRest
  <2> QED BY <2>1, <2>2, <2>3, RestStutter
<1> QED BY <1>2, <1>3, <1>4, <1>5, <1>6, <1>7, <1>8, <1>9

-----------------------------------------------------------------------------
(* The steps of the callers.                                               *)

\* While prune is not running, the atomic specification sees _predecessors.
LEMMA RestLinksNext ==
  ASSUME Shape', Book', Ancestry', AtRest', ~beyond'
  PROVE  Alive' = ops' /\ ALinks' = PredLinks'
<1>1. (Shape /\ Book /\ Ancestry /\ AtRest /\ ~beyond
         => Going = {} /\ Alive = ops /\ ALinks = PredLinks)'
  BY RestLinks, PTL
<1> QED BY <1>1

\* Propagate adds operations below those that are there.
LEMMA PropagateGrows ==
  ASSUME Shape, Shape', Book, Book', Ancestry, Ancestry', Propagate
  PROVE  [Atomic!Next]_Atomic!vars
<1>1. CASE beyond'
  BY <1>1 DEF Atomic!Next, Atomic!Void
<1>2. CASE ~beyond'
  <2>1. pruning = "no" /\ pruning' = "no" /\ beyond' = beyond
    BY DEF Propagate, Quiet, worklists
  <2>2. Alive = ops /\ ALinks = PredLinks
    BY <1>2, <2>1, RestLinks DEF AtRest
  <2>3. Alive' = ops' /\ ALinks' = PredLinks'
    BY <1>2, <2>1, RestLinksNext DEF AtRest
  <2>4. PICK new, links :
           /\ ops' = ops \cup new /\ known' = known \cup new
           /\ exp' = exp \cup links /\ pred' = pred \cup links /\ made' = made \cup links
           /\ \A n \in new : n \notin known /\ n.layer = layer /\ n.pos = pos
           /\ \A e \in links : e[2] \in new /\ Parent(e)' \in ops
           /\ \A n \in new : \E e \in links : e[2] = n
           /\ \A e \in Links : Parent(e)' = Parent(e) /\ Parent(e).layer # layer
           /\ IsFiniteSet(new)
    BY PropagateFacts
  <2>5. ops \subseteq known /\ pred \subseteq Links
    BY DEF Shape, Elements
  <2>6. \A e \in pred : Parent(e)' = Parent(e)
    BY <2>4, <2>5
  <2>7. PredLinks' = {<<Parent(e)', e[2]>> : e \in pred'}
    BY Zenon DEF PredLinks
  <2>8. PredLinks \subseteq PredLinks'
    BY <2>4, <2>6, <2>7 DEF PredLinks
  <2>9. ASSUME NEW e \in PredLinks' \ PredLinks PROVE e[1] \in ops /\ e[2] \in ops' \ ops
    <3>1. PICK x \in pred' : e = <<Parent(x)', x[2]>>
      BY <2>7
    <3>2. x \notin pred
      BY <2>6, <3>1 DEF PredLinks
    <3> QED BY <2>4, <2>5, <3>1, <3>2
  <2>10. ASSUME NEW n \in ops' \ ops PROVE \E e \in PredLinks' : e[2] = n
    <3>1. PICK x \in pred' : x[2] = n
      BY <2>4
    <3>2. <<Parent(x)', x[2]>> \in PredLinks'
      BY <2>7
    <3> QED BY <3>1, <3>2
  <2>11. /\ Alive \subseteq Alive' /\ ALinks \subseteq ALinks'
         /\ \A e \in ALinks' \ ALinks : e[1] \in Alive /\ e[2] \in Alive' \ Alive
         /\ \A n \in Alive' \ Alive : \E e \in ALinks' : e[2] = n
         /\ beyond' = beyond
    BY <2>1, <2>2, <2>3, <2>4, <2>8, <2>9, <2>10
  <2>12. Atomic!Grow
    BY <2>11, Zenon DEF Atomic!Grow, ALinks
  <2> QED BY <2>12, Zenon DEF Atomic!Next
<1> QED BY <1>1, <1>2

\* Dominate replaces operations that have no children yet.
LEMMA DominateReplaces ==
  ASSUME Shape, Shape', Book, Book', Ancestry, Ancestry', Dominate
  PROVE  [Atomic!Next]_Atomic!vars
<1>1. CASE beyond'
  BY <1>1 DEF Atomic!Next, Atomic!Void
<1>2. CASE ~beyond'
  <2>1. pruning = "no" /\ pruning' = "no" /\ beyond' = beyond /\ sizes' = sizes
    BY DEF Dominate, Quiet, worklists
  <2>2. Alive = ops /\ ALinks = PredLinks
    BY <1>2, <2>1, RestLinks DEF AtRest
  <2>3. Alive' = ops' /\ ALinks' = PredLinks'
    BY <1>2, <2>1, RestLinksNext DEF AtRest
  <2>4. PICK gone \in SUBSET At(layer, pos) : \E By \in [gone -> At(layer, pos) \ gone] :
          /\ ops' = ops \ gone
          /\ known' = known \ gone
          /\ exp' = Staying(exp, gone) \cup Moving(pred, gone, By)
          /\ pred' = Staying(pred, gone) \cup Moving(pred, gone, By)
          /\ made' = Staying(made, gone) \cup Moving(made, gone, By)
    BY DominateFacts, Zenon DEF Shape
  <2>5. PICK By \in [gone -> At(layer, pos) \ gone] :
          /\ ops' = ops \ gone
          /\ pred' = Staying(pred, gone) \cup Moving(pred, gone, By)
    BY <2>4
  <2>6. ops \ ops' = gone /\ By \in [gone -> ops']
    <3>1. At(layer, pos) \subseteq ops
      BY DEF At
    <3> QED BY <2>5, <3>1
  <2>7. \A e : Parent(e)' = Parent(e)
    BY <2>1, SamePositions
  <2>8. ASSUME NEW x \in pred PROVE Parent(x) \in ops' /\ x[2] \in ops
    <3>1. x \in Links /\ Parent(x) \in ops /\ x[2] \in ops
      BY <1>2, <2>1 DEF Shape, Elements, Book, LinkInv
    <3>2. x[2].layer \in 0..layer /\ layer \in Nat
      BY <3>1, DomainFacts DEF Shape, Elements, Hierarchy, Nodes
    <3>3. Parent(x).layer # layer
      BY <3>2 DEF Parent, Node
    <3> QED BY <2>5, <3>1, <3>3 DEF At
  <2>9. \A e \in PredLinks : e[1] \in ops'
    BY <2>8 DEF PredLinks
  <2> DEFINE F(e) == IF e[2] \in ops' THEN e ELSE <<e[1], By[e[2]]>>
  <2>10. PredLinks' = {<<Parent(e), e[2]>> : e \in pred'}
    BY <2>7, Zenon DEF PredLinks
  <2>12. ASSUME NEW x \in pred, x[2] \in gone
         PROVE  Parent(<<x[1], By[x[2]]>>) = Parent(x)
    <3>1. By[x[2]] \in At(layer, pos) /\ x[2] \in At(layer, pos)
      BY <2>12
    <3>2. By[x[2]].layer = x[2].layer /\ By[x[2]].pos = x[2].pos
      BY <3>1 DEF At
    <3> DEFINE y == <<x[1], By[x[2]]>>
    <3>3. y[1] = x[1] /\ y[2].layer = x[2].layer /\ y[2].pos = x[2].pos
      BY <3>2
    <3> HIDE DEF y
    <3>4. Parent(y) = Parent(x)
      BY <3>3, Zenon DEF Parent
    <3> QED BY <3>4 DEF y
  <2>13. ASSUME NEW e \in PredLinks' PROVE e \in {F(l) : l \in PredLinks}
    <3>1. PICK x \in pred' : e = <<Parent(x), x[2]>>
      BY <2>10
    <3>2. CASE x \in Staying(pred, gone)
      <4>1. x \in pred /\ x[2] \in ops'
        BY <2>5, <2>8, <3>2 DEF Staying
      <4>2. e \in PredLinks /\ F(e) = e
        BY <3>1, <4>1 DEF PredLinks
      <4> QED BY <4>2
    <3>3. CASE x \in Moving(pred, gone, By)
      <4>1. PICK z \in pred : z[2] \in gone /\ x = <<z[1], By[z[2]]>>
        BY <3>3 DEF Moving
      <4>2. Parent(x) = Parent(z) /\ x[2] = By[z[2]]
        BY <2>12, <4>1
      <4>3. <<Parent(z), z[2]>> \in PredLinks
        BY DEF PredLinks
      <4>4. z[2] \notin ops'
        BY <2>5, <4>1
      <4>5. F(<<Parent(z), z[2]>>) = e
        BY <3>1, <4>2, <4>4
      <4> QED BY <4>3, <4>5
    <3> QED BY <2>5, <3>1, <3>2, <3>3
  <2>14. ASSUME NEW l \in PredLinks PROVE F(l) \in PredLinks'
    <3>1. PICK x \in pred : l = <<Parent(x), x[2]>>
      BY DEF PredLinks
    <3>2. CASE x[2] \in ops'
      <4>1. x \in pred'
        BY <2>5, <3>2 DEF Staying
      <4> QED BY <2>10, <3>1, <3>2, <4>1
    <3>3. CASE x[2] \notin ops'
      <4>1. x[2] \in gone
        BY <2>5, <2>8, <3>3
      <4>2. <<x[1], By[x[2]]>> \in pred'
        BY <2>5, <4>1 DEF Moving
      <4>3. <<Parent(x), By[x[2]]>> \in PredLinks'
        BY <2>10, <2>12, <4>1, <4>2
      <4> QED BY <3>1, <3>3, <4>3
    <3> QED BY <3>2, <3>3
  <2>15. PredLinks' = {F(l) : l \in PredLinks}
    BY <2>13, <2>14
  <2>16. /\ Alive' \subseteq Alive
         /\ \A e \in ALinks : e[1] \in Alive'
         /\ \E by \in [Alive \ Alive' -> Alive'] :
              ALinks' = {IF e[2] \in Alive' THEN e ELSE <<e[1], by[e[2]]>> : e \in ALinks}
         /\ beyond' = beyond
    <3>1. By \in [Alive \ Alive' -> Alive']
      BY <2>2, <2>3, <2>6
    <3>2. ALinks' = {IF e[2] \in Alive' THEN e ELSE <<e[1], By[e[2]]>> : e \in ALinks}
      BY <2>2, <2>3, <2>15, Zenon
    <3>3. Alive' \subseteq Alive
      BY <2>2, <2>3, <2>5
    <3>4. \A e \in ALinks : e[1] \in Alive'
      BY <2>2, <2>3, <2>9, Zenon
    <3> QED BY <2>1, <3>1, <3>2, <3>3, <3>4, Zenon
  <2>17. Atomic!Replace
    BY <2>16, Zenon DEF Atomic!Replace, ALinks
  <2> QED BY <2>17, Zenon DEF Atomic!Next
<1> QED BY <1>1, <1>2

-----------------------------------------------------------------------------
(* Downwards.                                                              *)

\* What GoingIs says of the next state.
LEMMA GoingIsNext ==
  ASSUME IsFiniteSet(ops'), pruning' = "down", remove' \subseteq ops'
  PROVE  /\ Going' \in SUBSET ops' /\ remove' \subseteq Going' /\ Falls(Going)' = {}
         /\ \A C \in SUBSET ops' : remove' \subseteq C /\ Falls(C)' = {} => Going' \subseteq C
<1>1. (IsFiniteSet(ops) /\ pruning = "down" /\ remove \subseteq ops =>
         /\ Going \in SUBSET ops /\ remove \subseteq Going /\ Falls(Going) = {}
         /\ \A C \in SUBSET ops : remove \subseteq C /\ Falls(C) = {} => Going \subseteq C)'
  BY GoingIs, PTL
<1> QED BY <1>1

\* On its way down prune does what is already decided.
LEMMA PruneDownFacts ==
  ASSUME Shape, Shape', Book, Book', Ancestry, Ancestry', PruneDown, ~beyond'
  PROVE  Alive' = Alive /\ ALinks' = ALinks /\ made' = made /\ beyond' = beyond
<1>1. /\ pruning = "down" /\ pruning' = "down"
      /\ UNCHANGED <<layer, sizes, open, taken, op, known, made>>
  BY DEF PruneDown, place
<1>2. PICK n \in remove : \E P \in Visited(n) :
        /\ remove' = (remove \ {n}) \cup Doomed(n, P)
        /\ RemoveOccurrence(n, Children(n, P) \ Doomed(n, P))
        /\ beyond' = (beyond \/ (n.layer < layer /\ n.pos = Last(n.layer)))
  BY Zenon DEF PruneDown
<1>3. PICK P \in Visited(n) :
        /\ remove' = (remove \ {n}) \cup Doomed(n, P)
        /\ RemoveOccurrence(n, Children(n, P) \ Doomed(n, P))
        /\ beyond' = (beyond \/ (n.layer < layer /\ n.pos = Last(n.layer)))
  BY <1>2
<1> DEFINE stay == Children(n, P) \ Doomed(n, P)
<1>4. /\ ops' = ops \ {n}
      /\ pred' = {e \in pred : e[2] # n /\ ~(e[1] = n.op /\ e[2] \in stay)}
      /\ ~beyond
  BY <1>3 DEF RemoveOccurrence
<1>5. /\ n \in known /\ n.layer \in Nat /\ n.layer \in 0..layer /\ layer \in Nat
      /\ beyond \in BOOLEAN /\ beyond' \in BOOLEAN
  BY <1>1, <1>2, DomainFacts DEF Shape, Hierarchy, Elements, Nodes
<1>6. beyond' = beyond
  BY <1>4, <1>5
<1>7. ASSUME NEW c \in Children(n, P)
      PROVE  c # n /\ c \in ops /\ Parent(<<n.op, c>>) = n /\ n \in Parents(c)
  <2>1. c.layer = n.layer + 1 /\ <<n.op, c>> \in exp /\ Parent(<<n.op, c>>) = n
    BY <1>5, VisitedChild
  <2>2. c \in ops /\ <<n.op, c>> \in pred
    BY <1>1, <1>2, <1>4, <2>1 DEF Book, LinkInv, WorkInv
  <2>3. Parent(<<n.op, c>>) \in Parents(c)
    BY <2>2, ParentsAre
  <2> QED BY <1>5, <2>1, <2>2, <2>3
<1>8. ASSUME NEW c, n \in Parents(c) PROVE c \in Children(n, P)
  <2>1. PICK e \in pred : e[2] = c /\ n = Parent(e)
    BY <1>8, ParentsAre
  <2>2. e \in exp /\ e \in Links
    BY <2>1 DEF Shape, Elements, Book, LinkInv
  <2>3. e[2].layer \in 0..layer /\ n.layer = e[2].layer - 1
    BY <2>1, <2>2 DEF Links, Shape, Elements, Nodes, Parent, Node
  <2>4. n.pos # Last(n.layer)
    <3>1. n.layer < layer
      BY <1>5, <2>3
    <3> QED BY <1>3, <3>1
  <2> QED BY <1>5, <2>1, <2>2, <2>4, ChildVisited
<1>9. \A e : Parent(e)' = Parent(e)
  BY <1>1, SamePositions
<1>10. ASSUME NEW c
       PROVE  /\ \A e \in pred' : e[2] = c => Parent(e) \in Parents(c)'
              /\ \A m \in Parents(c)' : \E e \in pred' : e[2] = c /\ m = Parent(e)
  <2>1. /\ \A e \in pred' : e[2] = c => Parent(e)' \in Parents(c)'
        /\ \A m \in Parents(c)' : \E e \in pred' : e[2] = c /\ m = Parent(e)'
    <3>1. Parents(c)' = {Node(c.layer-1, OldPos(c.layer, c.pos)', e[1]) :
                           e \in {x \in pred' : x[2] = c}}
      BY Zenon DEF Parents, Node
    <3>2. \A e : Parent(e)' = Node(e[2].layer-1, OldPos(e[2].layer, e[2].pos)', e[1])
      BY Zenon DEF Parent, Node
    <3> QED BY <3>1, <3>2
  <2> QED BY <1>9, <2>1
<1> HIDE DEF stay
<1>11. ASSUME NEW c, c # n, c \notin Doomed(n, P) PROVE Parents(c)' = Parents(c) \ {n}
  <2>1. ASSUME NEW m \in Parents(c)' PROVE m \in Parents(c) /\ m # n
    <3>1. PICK e \in pred' : e[2] = c /\ m = Parent(e)
      BY <1>10
    <3>2. e \in pred /\ m \in Parents(c)
      BY <1>4, <3>1, ParentsAre
    <3>3. SUFFICES ASSUME m = n PROVE FALSE
      BY <3>2
    <3>4. c \in stay
      BY <1>8, <1>11, <3>2, <3>3 DEF stay
    <3>5. e[1] = n.op
      BY <3>1, <3>3 DEF Parent, Node
    <3> QED BY <1>4, <3>1, <3>4, <3>5
  <2>2. ASSUME NEW m \in Parents(c), m # n PROVE m \in Parents(c)'
    <3>1. PICK e \in pred : e[2] = c /\ m = Parent(e)
      BY ParentsAre
    <3>2. ASSUME e[1] = n.op, c \in stay PROVE FALSE
      <4>1. e = <<n.op, c>>
        BY <3>1, <3>2 DEF Shape, Elements, Links
      <4> QED BY <1>7, <2>2, <3>1, <3>2, <4>1 DEF stay
    <3>3. e \in pred'
      BY <1>4, <1>11, <3>1, <3>2
    <3> QED BY <1>10, <3>1, <3>3
  <2> QED BY <2>1, <2>2
<1>12. IsFiniteSet(ops) /\ IsFiniteSet(ops') /\ remove \subseteq ops /\ remove' \subseteq ops'
  BY <1>1, <1>4, FS_Subset DEF Shape, Elements, Ancestry, Book, WorkInv
<1>13. /\ Going \in SUBSET ops /\ remove \subseteq Going /\ Falls(Going) = {}
       /\ \A C \in SUBSET ops : remove \subseteq C /\ Falls(C) = {} => Going \subseteq C
  BY <1>1, <1>12, GoingIs
<1>14. /\ Going' \in SUBSET ops' /\ remove' \subseteq Going' /\ Falls(Going)' = {}
       /\ \A C \in SUBSET ops' : remove' \subseteq C /\ Falls(C)' = {} => Going' \subseteq C
  BY <1>1, <1>12, GoingIsNext
<1>15. Going' \subseteq Going \ {n}
  <2>0. PICK C : C = Going \ {n}
    OBVIOUS
  <2>1. ASSUME NEW c \in Doomed(n, P) PROVE c \in C
    <3>1. c \in Children(n, P) /\ (c = op \/ Parents(c) = {n})
      BY DEF Doomed
    <3>2. c # n /\ c \in ops /\ n \in Parents(c) /\ n \in Going
      BY <1>2, <1>7, <1>13, <3>1
    <3> QED BY <1>13, <2>0, <3>1, <3>2 DEF Falls
  <2>2. remove' \subseteq C
    BY <1>3, <1>13, <2>0, <2>1
  <2>3. ASSUME NEW c \in Falls(C)' PROVE FALSE
    <3>1. c \in ops' \ C /\ Parents(c)' \cap C # {} /\ (c = op \/ Parents(c)' \subseteq C)
      BY <1>1, <2>3 DEF Falls
    <3>2. c # n /\ c \in ops /\ c \notin Going /\ c \notin Doomed(n, P)
      BY <1>4, <2>0, <2>1, <3>1
    <3>3. Parents(c)' = Parents(c) \ {n}
      BY <1>11, <3>2
    <3>4. Parents(c) \cap Going # {} /\ (c = op \/ Parents(c) \subseteq Going)
      BY <1>2, <1>13, <2>0, <3>1, <3>3
    <3> QED BY <1>13, <3>2, <3>4 DEF Falls
  <2>4. Falls(C)' = {}
    BY <2>3
  <2>5. C \in SUBSET ops'
    BY <1>4, <1>13, <2>0
  <2> QED BY <1>14, <2>0, <2>2, <2>4, <2>5
<1>16. Going \subseteq Going' \cup {n}
  <2> DEFINE C == Going' \cup {n}
  <2>1. remove \subseteq C /\ C \in SUBSET ops
    BY <1>2, <1>3, <1>4, <1>12, <1>14
  <2>2. ASSUME NEW c \in Falls(C) PROVE FALSE
    <3>1. /\ c \in ops /\ c \notin Going' /\ c # n
          /\ Parents(c) \cap C # {} /\ (c = op \/ Parents(c) \subseteq C)
      BY <2>2 DEF Falls
    <3>2. c \in ops' /\ c \notin Doomed(n, P) /\ Parents(c)' = Parents(c) \ {n}
      BY <1>3, <1>4, <1>11, <1>14, <3>1
    <3>3. n \in Parents(c) => c # op /\ Parents(c) # {n}
      BY <1>8, <3>2 DEF Doomed
    <3>4. Parents(c)' \cap Going' # {} /\ (c = op \/ Parents(c)' \subseteq Going')
      BY <3>1, <3>2, <3>3
    <3>5. c \in Falls(Going)'
      BY <1>1, <3>1, <3>2, <3>4 DEF Falls
    <3> QED BY <1>14, <3>5
  <2> QED BY <1>13, <2>1, <2>2
<1>17. Alive' = Alive /\ n \notin Alive
  BY <1>2, <1>4, <1>13, <1>14, <1>15, <1>16 DEF Alive
<1>18. \A c \in Alive : Parents(c)' \cap Alive = Parents(c) \cap Alive
  <2> SUFFICES ASSUME NEW c \in Alive PROVE Parents(c)' \cap Alive = Parents(c) \cap Alive
    OBVIOUS
  <2>1. c # n /\ c \notin Going'
    BY <1>17 DEF Alive
  <2>2. c \notin Doomed(n, P)
    BY <1>3, <1>14, <2>1
  <2> QED BY <1>11, <1>17, <2>1, <2>2
<1>19. ALinks' = ALinks
  <2>1. ALinks' = UNION {(Parents(c)' \cap Alive') \X {c} : c \in Alive'}
    BY Zenon DEF ALinks
  <2>2. ALinks = UNION {(Parents(c) \cap Alive) \X {c} : c \in Alive}
    BY DEF ALinks
  <2> QED BY <1>17, <1>18, <2>1, <2>2
<1> QED BY <1>1, <1>6, <1>17, <1>19

\* So the atomic specification sees nothing of it.
LEMMA PruneDownStutters ==
  ASSUME Shape, Shape', Book, Book', Ancestry, Ancestry', PruneDown
  PROVE  [Atomic!Next]_Atomic!vars
<1>1. CASE beyond'
  BY <1>1 DEF Atomic!Next, Atomic!Void
<1>2. CASE ~beyond'
  <2>1. Alive' = Alive /\ ALinks' = ALinks /\ made' = made /\ beyond' = beyond
    BY <1>2, PruneDownFacts
  <2>2. ChildSetsAgree' = ChildSetsAgree
    BY <2>1, SameAgree
  <2>3. Atomic!vars' = Atomic!vars
    BY <2>1, <2>2, Zenon DEF Atomic!vars, ALinks
  <2> QED BY <2>3, Zenon
<1> QED BY <1>1, <1>2

-----------------------------------------------------------------------------
(* The roots.                                                              *)

\* When prune has found its roots: what it climbed is what it will remove,
\* or is above it.

\* At rest the atomic specification has the parents and children of the code.
LEMMA RestFamily ==
  ASSUME Shape, Book, Ancestry, AtRest, ~beyond
  PROVE  /\ \A n : Parents(n) \subseteq ops
         /\ \A n \in ops : Atomic!Parents(n) = Parents(n)
         /\ \A m \in ops : \A p : Atomic!Children(m, p) = {c \in ops : c.pos = p /\ m \in Parents(c)}
         /\ \A n \in ops : \A m \in Parents(n) :
              /\ n \in Siblings(m, n)
              /\ \A c \in ops : c.pos = n.pos /\ m \in Parents(c) => c \in Siblings(m, n)
              /\ \A c \in Siblings(m, n) : c \in ops /\ c.pos = n.pos /\ m \in Parents(c)
<1>1. Alive = ops
  BY RestLinks
<1>2. \A e \in pred : Parent(e) \in ops
  BY DEF Book, LinkInv, AtRest
<1>3. \A n : Parents(n) \subseteq ops
  BY <1>2, ParentsAre
<1>4. \A n \in ops : Atomic!Parents(n) = Parents(n)
  BY <1>1, <1>3, AtomicParents
<1>5. \A m \in ops : \A p : Atomic!Children(m, p) = {c \in ops : c.pos = p /\ m \in Parents(c)}
  BY <1>1, AtomicChildren
<1>6. ASSUME NEW n \in ops, NEW m \in Parents(n), NEW c \in ops, c.pos = n.pos, m \in Parents(c)
      PROVE  c \in Siblings(m, n)
  <2>1. c \in known
    BY DEF Shape, Elements
  <2>2. c \in Siblings(m, c)
    BY <1>6, <2>1, OwnSibling
  <2> QED BY <1>6, <2>2, Zenon DEF Siblings
<1>7. ASSUME NEW n \in ops, NEW m \in Parents(n), NEW c \in Siblings(m, n)
      PROVE  c \in ops /\ c.pos = n.pos /\ c.layer = n.layer /\ m \in Parents(c)
  <2>1. n \in known /\ m \in ops
    BY <1>3 DEF Shape, Elements
  <2>2. m.layer + 1 = n.layer
    BY <2>1, OwnSibling
  <2>3. c.layer = n.layer /\ c.pos = n.pos /\ \E e \in exp : e[1] = m.op /\ e[2] = c
    BY <2>2, ChildrenAre DEF Siblings
  <2>4. PICK e \in exp : e[1] = m.op /\ e[2] = c
    BY <2>3
  <2>5. c \in ops
    BY <2>4 DEF Book, LinkInv
  <2>6. PICK x \in pred : x[2] = n /\ m = Parent(x)
    BY ParentsAre
  <2>7. m.op = x[1]
    BY <2>6 DEF Parent, Node
  <2>8. Parent(e) = m
    BY <2>3, <2>4, <2>6, <2>7, Zenon DEF Parent
  <2>9. e \in pred
    BY <2>1, <2>4, <2>8 DEF Book, LinkInv
  <2> QED BY <2>3, <2>4, <2>5, <2>8, <2>9, ParentsAre
<1>8. \A n \in ops : \A m \in Parents(n) : n \in Siblings(m, n)
  <2>1. ops \subseteq known
    BY DEF Shape, Elements
  <2> QED BY <2>1, OwnSibling
<1> QED BY <1>3, <1>4, <1>5, <1>6, <1>7, <1>8

\* All parents of n have the same children at its position.
AgreeAt(n) ==
  \A e, f \in made : e[2] = n /\ f[2] = n =>
    \A x \in made : x[1] = e[1] /\ x[2].layer = n.layer /\ x[2].pos = n.pos =>
      \E y \in made : y[1] = f[1] /\ y[2] = x[2]

\* The atomic specification asks for that everywhere.
LEMMA AgreeEverywhere == ChildSetsAgree => \A n : AgreeAt(n)
<1> SUFFICES ASSUME ChildSetsAgree, NEW n,
                    NEW e \in made, NEW f \in made, e[2] = n, f[2] = n,
                    NEW x \in made, x[1] = e[1], x[2].layer = n.layer, x[2].pos = n.pos
             PROVE  \E y \in made : y[1] = f[1] /\ y[2] = x[2]
  BY DEF AgreeAt
<1> DEFINE Made(l, p, name) == {y[2] : y \in {z \in made : /\ z[1] = name
                                                         /\ z[2].layer = l
                                                         /\ z[2].pos = p}}
<1>1. \A g, h \in made : g[2] = h[2] =>
        Made(g[2].layer, g[2].pos, g[1]) = Made(g[2].layer, g[2].pos, h[1])
  BY Zenon DEF ChildSetsAgree
<1> HIDE DEF Made
<1>2. Made(n.layer, n.pos, e[1]) = Made(n.layer, n.pos, f[1])
  BY <1>1
<1> USE DEF Made
<1>3. x[2] \in Made(n.layer, n.pos, e[1])
  OBVIOUS
<1>4. x[2] \in Made(n.layer, n.pos, f[1])
  BY <1>2, <1>3
<1> QED BY <1>4

\* Then an operation that is a child of one of them is a child of all.
LEMMA AgreeingSiblings ==
  ASSUME Shape, Book, Ancestry, AtRest, ~beyond,
         NEW n \in ops, AgreeAt(n), NEW m \in Parents(n), NEW k \in Parents(n)
  PROVE  Siblings(k, n) \subseteq Siblings(m, n)
<1>1. PICK e \in pred : e[2] = n /\ m = Parent(e)
  BY ParentsAre
<1>2. PICK f \in pred : f[2] = n /\ k = Parent(f)
  BY ParentsAre
<1>3. e \in made /\ f \in made
  BY DEF Ancestry, MadeInv, Book, LinkInv
<1>5. m.op = e[1] /\ k.op = f[1] /\ m.layer + 1 = n.layer /\ k.layer + 1 = n.layer
      /\ m \in ops
  <2>1. n \in known
    BY DEF Shape, Elements
  <2>2. m.layer + 1 = n.layer /\ k.layer + 1 = n.layer
    BY <2>1, OwnSibling
  <2> QED BY <1>1, <1>2, <2>2, RestFamily DEF Parent, Node
<1>6. SUFFICES ASSUME NEW y \in Siblings(k, n) PROVE y \in Siblings(m, n)
  OBVIOUS
<1>7. y.layer = n.layer /\ y.pos = n.pos /\ y \in ops
  <2>1. y.layer = k.layer + 1
    BY ChildrenAre DEF Siblings
  <2> QED BY <1>5, <2>1, RestFamily
<1>8. PICK x \in exp : x[1] = k.op /\ x[2] = y
  BY ChildrenAre DEF Siblings
<1>9. x \in made
  BY DEF Ancestry, MadeInv
<1>10. PICK z \in made : z[1] = e[1] /\ z[2] = y
  BY <1>1, <1>2, <1>3, <1>5, <1>7, <1>8, <1>9 DEF AgreeAt
<1>11. Parent(z) = m
  BY <1>1, <1>7, <1>10, Zenon DEF Parent
<1>12. z \in exp
  BY <1>5, <1>7, <1>10, <1>11 DEF Ancestry, MadeInv
<1> QED BY <1>5, <1>7, <1>10, <1>12, ChildrenAre DEF Siblings

\* If the parents' children agree, whatever is taken from one parent of an
\* operation on the way is taken from all of them: all of them are climbed.
LEMMA ParentsClimbed ==
  ASSUME Shape, Book, Ancestry, UpInv, pruning = "up", ~beyond,
         open = {}, NEW x \in Climbed, AgreeAt(x), x \notin remove
  PROVE  Parents(x) # {} /\ Parents(x) \subseteq Climbed /\ x \in ops
<1>0. AtRest
  BY DEF AtRest
<1>1. PICK t \in taken : t[2] = x
  BY DEF Climbed
<1>2. /\ \A u \in taken : \A k \in Parents(u[2]) : <<k, u[2]>> \in taken
      /\ \A u \in taken : Siblings(u[1], u[2]) \subseteq Taken(u[1]) => u[1] \in Climbed
      /\ Climbed \subseteq ops
  BY DEF UpInv
<1>3. PICK m \in Parents(x) : m \in Climbed /\ Siblings(m, x) \subseteq Taken(m)
  BY <1>1 DEF UpInv
<1>4. x \in ops
  BY <1>2
<1>5. ASSUME NEW k \in Parents(x) PROVE k \in Climbed
  <2>1. Siblings(k, x) \subseteq Siblings(m, x)
    BY <1>0, <1>4, AgreeingSiblings
  <2>2. ASSUME NEW y \in Siblings(k, x) PROVE y \in Taken(k)
    <3>1. y \in Taken(m)
      BY <1>3, <2>1
    <3>2. PICK u \in taken : u[2] = y
      BY <3>1 DEF Taken
    <3>3. k \in Parents(y)
      BY <1>0, <1>4, RestFamily
    <3>4. <<k, y>> \in taken
      BY <1>2, <3>2, <3>3
    <3>5. <<k, y>>[1] = k /\ <<k, y>>[2] = y
      OBVIOUS
    <3> QED BY <3>4, <3>5 DEF Taken
  <2>3. <<k, x>> \in taken /\ <<k, x>>[1] = k /\ <<k, x>>[2] = x
    BY <1>1, <1>2
  <2> QED BY <1>2, <2>2, <2>3
<1> QED BY <1>3, <1>4, <1>5

\* Then a set that contains the roots and lacks nothing contains all of it.
LEMMA ClimbedFalls ==
  ASSUME Shape, Book, Ancestry, UpInv, pruning = "up", ~beyond, \A x \in Climbed : AgreeAt(x),
         open = {}, NEW D \in SUBSET ops, remove \subseteq D, Falls(D) = {}
  PROVE  Climbed \subseteq D
<1> DEFINE Bad == {x.layer : x \in Climbed \ D}
<1>0. Climbed \subseteq ops /\ AtRest
  BY DEF UpInv, AtRest
<1>1. \A x \in ops : x.layer \in Nat
  BY DomainFacts DEF Shape, Hierarchy, Elements, Nodes
<1>2. SUFFICES ASSUME NEW y \in Climbed, y \notin D PROVE FALSE
  OBVIOUS
<1>3. Bad \subseteq Nat /\ Bad # {}
  BY <1>0, <1>1, <1>2
<1> HIDE DEF Bad
<1>4. PICK l \in Bad : \A k \in Bad : l <= k
  BY <1>3, LeastNumber
<1> USE DEF Bad
<1>5. PICK x \in Climbed \ D : x.layer = l
  BY <1>4
<1>6. Parents(x) # {} /\ Parents(x) \subseteq Climbed /\ x \in ops
  BY <1>5, ParentsClimbed
<1>7. Parents(x) \subseteq D
  <2> SUFFICES ASSUME NEW m \in Parents(x), m \notin D PROVE FALSE
    OBVIOUS
  <2>1. m.layer \in Bad
    BY <1>6
  <2>2. m.layer + 1 = x.layer
    BY <1>6, OwnSibling DEF Shape, Elements
  <2>3. m.layer \in Nat
    BY <1>0, <1>1, <1>6
  <2>4. l <= m.layer
    BY <1>4, <2>1
  <2> QED BY <1>5, <2>2, <2>3, <2>4
<1>8. x \in Falls(D)
  BY <1>5, <1>6, <1>7 DEF Falls
<1> QED BY <1>8

\* What the roots take with them is impossible without the argument of prune.
LEMMA RemovesImpossible ==
  ASSUME Shape, Book, Ancestry, UpInv, pruning = "up", ~beyond, open = {},
         NEW D \in SUBSET ops,
         \A C \in SUBSET ops : remove \subseteq C /\ Falls(C) = {} => D \subseteq C
  PROVE  op \in ops /\ D \subseteq Atomic!Impossible(op)
<1> DEFINE I == Atomic!Impossible(op)
<1>1. AtRest /\ Alive = ops
  BY RestLinks DEF AtRest
<1>2. /\ op \in Climbed /\ Climbed \subseteq ops /\ remove \subseteq Climbed
      /\ \A C \in SUBSET ops : op \in C /\ Complete(C) => Climbed \subseteq C
  BY DEF UpInv, Climbed
<1>3. IsFiniteSet(ops)
  BY FS_Subset DEF Shape, Elements, Ancestry
<1>4. I \in SUBSET ops /\ op \in I /\ Missing(I) = {}
  <2>1. op \in Alive
    BY <1>1, <1>2
  <2> QED BY <1>1, <1>3, <2>1, ImpossibleIs
<1> HIDE DEF I
<1>5. ASSUME NEW m \in ops, NEW n \in I, m \in Parents(n), Siblings(m, n) \subseteq I
      PROVE  m \in I
  <2>1. Atomic!Parents(n) = Parents(n)
    BY <1>1, <1>4, RestFamily
  <2>2. Atomic!Children(m, n.pos) = {c \in ops : c.pos = n.pos /\ m \in Parents(c)}
    BY <1>1, RestFamily
  <2>3. \A c \in ops : c.pos = n.pos /\ m \in Parents(c) => c \in Siblings(m, n)
    BY <1>1, <1>4, <1>5, RestFamily
  <2>4. Atomic!Children(m, n.pos) \subseteq I
    BY <1>5, <2>2, <2>3
  <2>5. Atomic!Emptied(m, I)
    BY <1>5, <2>1, <2>4, Zenon DEF Atomic!Emptied
  <2> QED BY <1>1, <1>4, <2>5 DEF Missing
<1>6. ASSUME NEW m \in ops, Parents(m) # {}, Parents(m) \subseteq I PROVE m \in I
  <2>1. Atomic!Parents(m) = Parents(m)
    BY <1>1, RestFamily
  <2>2. Atomic!Orphaned(m, I)
    BY <1>6, <2>1, Zenon DEF Atomic!Orphaned
  <2> QED BY <1>1, <1>4, <2>2 DEF Missing
<1>7. Complete(I)
  BY <1>5, <1>6 DEF Complete
<1>8. Falls(I) = {}
  BY <1>4, <1>6 DEF Falls
<1>9. D \subseteq I
  BY <1>2, <1>4, <1>7, <1>8
<1> QED BY <1>2, <1>9 DEF I

\* Everything impossible without it goes, if the parents' children agree.
LEMMA RemovesAllImpossible ==
  ASSUME Shape, Book, Ancestry, UpInv, pruning = "up", ~beyond, open = {},
         \A x \in Climbed : AgreeAt(x),
         NEW D \in SUBSET ops, remove \subseteq D, Falls(D) = {},
         \A C \in SUBSET ops : remove \subseteq C /\ Falls(C) = {} => D \subseteq C
  PROVE  Atomic!Impossible(op) \subseteq D
<1>1. AtRest /\ Alive = ops
  BY RestLinks DEF AtRest
<1>2. IsFiniteSet(ops)
  BY FS_Subset DEF Shape, Elements, Ancestry
<1>3. op \in Climbed /\ Climbed \subseteq ops /\ Climbed \subseteq D
  BY ClimbedFalls DEF UpInv
<1>4. ASSUME NEW y \in D, y \notin remove, y # op PROVE Parents(y) \subseteq D
  <2> DEFINE C == {x \in D : x \in remove \/ x = op \/ Parents(x) \subseteq D}
  <2>1. Falls(C) = {}
    <3> SUFFICES ASSUME NEW c \in Falls(C) PROVE FALSE
      OBVIOUS
    <3>1. c \in ops /\ c \notin C /\ Parents(c) \cap C # {} /\ (c = op \/ Parents(c) \subseteq C)
      BY DEF Falls
    <3>2. Parents(c) \cap D # {} /\ (c = op \/ Parents(c) \subseteq D)
      BY <3>1
    <3>3. c \in D
      BY <3>1, <3>2 DEF Falls
    <3> QED BY <3>1, <3>2, <3>3
  <2>2. D \subseteq C
    BY <2>1
  <2> QED BY <1>4, <2>2
<1>5. ASSUME NEW m \in ops, NEW n \in D, m \in Parents(n),
             Atomic!Children(m, n.pos) \subseteq D
      PROVE  m \in D
  <2> SUFFICES ASSUME m \notin D PROVE FALSE
    OBVIOUS
  <2>1. ASSUME NEW y \in Siblings(m, n) PROVE y \in Taken(m)
    <3>1. y \in ops /\ y.pos = n.pos /\ m \in Parents(y)
      BY <1>1, <1>5, RestFamily
    <3>2. y \in Atomic!Children(m, n.pos)
      BY <1>1, <3>1, RestFamily
    <3>3. y \in D
      BY <1>5, <3>2
    <3>4. y \in Climbed
      BY <1>3, <1>4, <3>1, <3>3 DEF Climbed
    <3>5. y.layer # 0
      <4>1. y \in known /\ y.layer > 0 /\ y.layer \in Nat
        BY <3>1, OwnSibling DEF Shape, Elements
      <4> QED BY <4>1
    <3>6. \A x \in remove : x.layer = 0 \/ \E t \in taken : t[2] = x
      BY DEF UpInv
    <3>7. PICK t \in taken : t[2] = y
      BY <3>4, <3>5, <3>6 DEF Climbed
    <3>8. <<m, y>> \in taken
      BY <3>1, <3>7 DEF UpInv
    <3>9. <<m, y>>[1] = m /\ <<m, y>>[2] = y
      OBVIOUS
    <3> QED BY <3>8, <3>9 DEF Taken
  <2>2. n \in Siblings(m, n)
    BY <1>1, <1>5, RestFamily
  <2>3. n \in Taken(m)
    BY <2>1, <2>2
  <2>4. PICK t \in taken : t[1] = m /\ t[2] = n
    BY <2>3 DEF Taken
  <2>5. m \in Climbed
    BY <2>1, <2>4 DEF UpInv
  <2> QED BY <1>3, <2>5
<1>6. ASSUME NEW m \in Missing(D) PROVE FALSE
  <2>1. m \in ops /\ m \notin D /\ (Atomic!Emptied(m, D) \/ Atomic!Orphaned(m, D))
    BY <1>1 DEF Missing
  <2>2. CASE Atomic!Emptied(m, D)
    <3>1. PICK n \in D : m \in Atomic!Parents(n) /\ Atomic!Children(m, n.pos) \subseteq D
      BY <2>2, Zenon DEF Atomic!Emptied
    <3>2. m \in Parents(n)
      BY <1>1, <3>1, RestFamily
    <3> QED BY <1>5, <2>1, <3>1, <3>2
  <2>3. CASE Atomic!Orphaned(m, D)
    <3>1. Atomic!Parents(m) # {} /\ Atomic!Parents(m) \subseteq D
      BY <2>3, Zenon DEF Atomic!Orphaned
    <3>2. Parents(m) # {} /\ Parents(m) \subseteq D
      BY <1>1, <2>1, <3>1, RestFamily
    <3> QED BY <2>1, <3>2 DEF Falls
  <2> QED BY <2>1, <2>2, <2>3
<1>7. op \in Alive /\ D \in SUBSET Alive /\ op \in D /\ Missing(D) = {}
  BY <1>1, <1>3, <1>6
<1> QED BY <1>2, <1>7, ImpossibleIs

\* The step that finds the roots decides what goes: the least set D with the
\* roots in it that lacks nothing.
LEMMA RootsFoundFacts ==
  ASSUME Shape, Shape', Book, Book', Ancestry, Ancestry', RootsFound, ~beyond'
  PROVE  \E D \in SUBSET ops :
           /\ Alive = ops /\ Alive' = ops \ D
           /\ remove \subseteq D /\ Falls(D) = {}
           /\ \A C \in SUBSET ops : remove \subseteq C /\ Falls(C) = {} => D \subseteq C
<1>1. /\ pruning = "up" /\ pruning' = "down" /\ open = {} /\ ~beyond
      /\ UNCHANGED <<layer, sizes, ops, exp, pred, made, remove, taken, op, beyond, known>>
  BY DEF RootsFound, place, structure, history
<1>2. AtRest /\ Alive = ops
  BY <1>1, RestLinks DEF AtRest
<1>3. \A n : Parents(n)' = Parents(n)
  BY <1>1, SameFamily
<1>4. IsFiniteSet(ops') /\ remove' \subseteq ops'
  <2>1. remove \subseteq ops
    BY <1>1 DEF Book, WorkInv
  <2>2. IsFiniteSet(ops)
    BY FS_Subset DEF Shape, Elements, Ancestry
  <2> QED BY <1>1, <2>1, <2>2
<1>5. /\ Going' \in SUBSET ops' /\ remove' \subseteq Going' /\ Falls(Going)' = {}
      /\ \A C \in SUBSET ops' : remove' \subseteq C /\ Falls(C)' = {} => Going' \subseteq C
  BY <1>1, <1>4, GoingIsNext
<1>6. \A C : Falls(C)' = Falls(C)
  BY <1>1, <1>3 DEF Falls
<1>7. PICK D : D = Going'
  OBVIOUS
<1>8. Falls(D) = {}
  BY <1>1, <1>3, <1>5, <1>7 DEF Falls
<1>9. /\ D \in SUBSET ops /\ remove \subseteq D
      /\ \A C \in SUBSET ops : remove \subseteq C /\ Falls(C) = {} => D \subseteq C
  <2>1. \A C \in SUBSET ops : remove \subseteq C /\ Falls(C)' = {} => D \subseteq C
    BY <1>1, <1>5, <1>7
  <2> QED BY <1>1, <1>5, <1>6, <1>7, <2>1
<1>10. Alive' = ops \ D
  BY <1>1, <1>2, <1>7, <1>9 DEF Alive
<1> QED BY <1>2, <1>8, <1>9, <1>10

\* To its callers, that is the whole prune.
LEMMA RootsFoundPrunes ==
  ASSUME Shape, Shape', Book, Book', Ancestry, Ancestry', UpInv, RootsFound
  PROVE  [Atomic!Next]_Atomic!vars
<1>0. CASE beyond'
  BY <1>0 DEF Atomic!Next, Atomic!Void
<1> SUFFICES ASSUME ~beyond' PROVE [Atomic!Next]_Atomic!vars
  BY <1>0
<1>1. /\ pruning = "up" /\ open = {} /\ ~beyond
      /\ UNCHANGED <<sizes, ops, exp, pred, made, beyond>>
  BY DEF RootsFound, structure, history
<1>2. PICK D \in SUBSET ops :
           /\ Alive = ops /\ Alive' = ops \ D
           /\ remove \subseteq D /\ Falls(D) = {}
           /\ \A C \in SUBSET ops : remove \subseteq C /\ Falls(C) = {} => D \subseteq C
  BY RootsFoundFacts
<1>3. \A n : Parents(n)' = Parents(n)
  BY <1>1, SameFamily
<1>10. D = Alive \ Alive'
  BY <1>2
<1>11. op \in Alive /\ D \subseteq Atomic!Impossible(op)
  BY <1>1, <1>2, RemovesImpossible
<1>12. ChildSetsAgree => D = Atomic!Impossible(op)
  <2> SUFFICES ASSUME ChildSetsAgree PROVE Atomic!Impossible(op) \subseteq D
    BY <1>11
  <2> QED BY <1>1, <1>2, AgreeEverywhere, RemovesAllImpossible
<1>13. ALinks' = {e \in ALinks : e[1] \in Alive' /\ e[2] \in Alive'}
  <2>1. \A e : e \in ALinks <=> \E n \in Alive : \E m \in Parents(n) \cap Alive : e = <<m, n>>
    BY LinkIs
  <2>2. (\A e : e \in ALinks <=> \E n \in Alive : \E m \in Parents(n) \cap Alive : e = <<m, n>>)'
    BY LinkIs, PTL
  <2>3. \A e : e \in ALinks' <=> \E n \in Alive' : \E m \in Parents(n) \cap Alive' : e = <<m, n>>
    BY <1>3, <2>2
  <2>4. Alive' \subseteq Alive
    BY <1>2, <1>10
  <2> QED BY <2>1, <2>3, <2>4
<1>14. ChildSetsAgree' = ChildSetsAgree
  BY <1>1, SameAgree
<1>15. /\ \E n \in Alive : /\ Alive \ Alive' \subseteq Atomic!Impossible(n)
                           /\ ChildSetsAgree => Alive \ Alive' = Atomic!Impossible(n)
       /\ Alive' \subseteq Alive
       /\ ALinks' = {e \in ALinks : e[1] \in Alive' /\ e[2] \in Alive'}
       /\ ChildSetsAgree' = ChildSetsAgree /\ beyond' = beyond
  <2>1. Alive' \subseteq Alive
    BY <1>2, <1>10
  <2>2. \E n \in Alive : /\ Alive \ Alive' \subseteq Atomic!Impossible(n)
                         /\ ChildSetsAgree => Alive \ Alive' = Atomic!Impossible(n)
    BY <1>10, <1>11, <1>12
  <2> QED BY <1>1, <1>13, <1>14, <2>1, <2>2
<1>16. Atomic!Prune
  BY <1>15, Zenon DEF Atomic!Prune, ALinks
<1> QED BY <1>16, Zenon DEF Atomic!Next

-----------------------------------------------------------------------------
\* Every step of the code is one of the atomic specification, or none.
LEMMA NextAtomic ==
  Shape /\ Shape' /\ Book /\ Book' /\ Ancestry /\ Ancestry' /\ UpInv /\ [Next]_vars
    => [Atomic!Next]_Atomic!vars
<1> SUFFICES ASSUME Shape, Shape', Book, Book', Ancestry, Ancestry', UpInv, [Next]_vars
             PROVE  [Atomic!Next]_Atomic!vars
  OBVIOUS
<1>1. CASE PruneLeft \/ PruneAbove \/ Encode \/ NextLayer \/ StartPrune \/ PruneUp \/ Return
             \/ UNCHANGED vars
  BY <1>1, CallersStutter
<1>2. CASE Propagate
  BY <1>2, PropagateGrows
<1>3. CASE Dominate
  BY <1>3, DominateReplaces
<1>4. CASE RootsFound
  BY <1>4, RootsFoundPrunes
<1>5. CASE PruneDown
  BY <1>5, PruneDownStutters
<1> QED BY <1>1, <1>2, <1>3, <1>4, <1>5 DEF Next, Step, CreateNextPosition, Prune, Finished

\* The first layer has no links.
LEMMA InitAtomic == Init => Atomic!Init
<1> SUFFICES ASSUME Init PROVE Atomic!Init
  OBVIOUS
<1>1. made = {} /\ pred = {} /\ beyond = FALSE
  BY DEF Init
<1>2. ChildSetsAgree = TRUE
  BY <1>1 DEF ChildSetsAgree
<1>3. \A n : Parents(n) = {}
  BY <1>1 DEF Parents
<1>4. ALinks = {}
  BY <1>3, LinkIs
<1> QED BY <1>1, <1>2, <1>4, Zenon DEF Atomic!Init, ALinks

\* And prune is not running.
LEMMA InitUp == Init => UpInv
  BY DEF Init, UpInv

\* Whatever the order of its worklists, prune looks to its callers like one
\* step that takes out an operation and what has become impossible with it.
THEOREM PruningIsAtomic == Spec => IsAtomicPruning
<1>1. Init => Ancestry /\ UpInv /\ Atomic!Init
  BY InitAncestry, InitUp, InitAtomic
<1>2. Shape /\ Shape' /\ Book /\ Ancestry /\ [Next]_vars => Ancestry'
  BY NextAncestry
<1>3. Shape /\ Shape' /\ Book /\ Ancestry /\ UpInv /\ [Next]_vars => UpInv'
  BY NextUp
<1>4. Shape /\ Shape' /\ Book /\ Book' /\ Ancestry /\ Ancestry' /\ UpInv /\ [Next]_vars
        => [Atomic!Next]_Atomic!vars
  BY NextAtomic
<1> QED BY <1>1, <1>2, <1>3, <1>4, BookHolds, PTL DEF Spec, IsAtomicPruning, Atomic!Spec

-----------------------------------------------------------------------------
(* Pruning is exact: what prune has taken out is what no decomposition can *)
(* contain any more, given what has been propagated so far. The two halves *)
(* need different invariants.  That nothing possible goes is carried over  *)
(* every closed set that contains what was pruned; it survives each prune  *)
(* because the atomic specification's set of impossible operations lies in *)
(* all of them.  That everything impossible goes is local: every operation *)
(* that is left has a child that is left for each position, or is one of   *)
(* those still to be pruned.  While the operations of the current position *)
(* may still be replaced, prune must not touch them, which is so because   *)
(* its argument has no child there.                                        *)

\* The operations of the current position while they can still be replaced.
Replaceable == {n \in known : phase = "dominate" /\ n.layer = layer /\ n.pos = pos}

\* Parents share their children, or none, wherever that is settled.
Agreed == \A n \in known \ Replaceable : AgreeAt(n)

\* m has no children at the current position.
Barren(m) == /\ m.layer = layer-1 /\ m.pos = OldPos(layer, pos)
             /\ \A e \in made : e[2].layer = layer /\ e[2].pos = pos => Parent(e) # m

\* What is going to be pruned, or being taken up.
Pending == todo \cup (IF pruning = "up" THEN {op} ELSE {})

\* n has a child that is alive for every position that is filled, unless
\* propagation has just left it without.
Fed(n) ==
  \A p \in Nat :
    /\ n.layer < layer /\ p \in DOMAIN sizes[n.layer+1]
    /\ Propagated(n.layer+1, p) /\ OldPos(n.layer+1, p) = n.pos
    => \/ \E e \in made : Parent(e) = n /\ e[2].pos = p /\ e[2] \in Alive
       \/ phase = "dominate" /\ n.layer+1 = layer /\ p = pos /\ n \in Pending

\* Nothing else has become impossible with C.
Closed(C) == \A n \in known : Starved(n, C) \/ Orphaned(n, C) => n \in C

\* A layer is encoded when its last position is filled.
LayerDone == phase \in {"encode", "layer"} => pos = Last(layer)

\* While the operations of the current position can be replaced, none of them
\* is removed: what is pruned then has no children there.
FreshInv ==
  ~beyond /\ phase = "dominate" =>
    /\ Replaceable \subseteq Alive
    /\ \A m \in todo \cup (IF pruning = "no" THEN {} ELSE {op}) : Barren(m)

\* What goes is impossible.
OnlyImpossible ==
  ~beyond => \A C \in SUBSET known : pruned \subseteq C /\ Closed(C) => known \ Alive \subseteq C

\* And what is impossible goes.
AllImpossible ==
  ~beyond /\ skipped = {} /\ Agreed =>
    /\ \A n \in Alive : Fed(n)
    /\ pruned \cap Alive \subseteq (IF pruning = "up" THEN {op} ELSE {})

\* The argument of prune counts as pruned.
OpPruned == pruning # "no" => op \in pruned

ExactInv == LayerDone /\ FreshInv /\ OnlyImpossible /\ AllImpossible

\* Impossible is the least closed set that contains what was pruned.
LEMMA KnownImpossibleIs ==
  ASSUME IsFiniteSet(known), pruned \subseteq known
  PROVE  /\ Impossible \in SUBSET known /\ pruned \subseteq Impossible /\ Closed(Impossible)
         /\ \A C \in SUBSET known : pruned \subseteq C /\ Closed(C) => Impossible \subseteq C
<1> DEFINE more(D) == {n \in known \ D : Starved(n, D) \/ Orphaned(n, D)}
           m == [D \in SUBSET known |-> more(D)]
<1>1. Adds(known, m)
  <2>1. \A D \in SUBSET known : more(D) \in SUBSET known /\ more(D) \cap D = {}
    OBVIOUS
  <2>2. ASSUME NEW C \in SUBSET known, NEW D \in SUBSET known, D \subseteq C
        PROVE  more(D) \subseteq C \cup more(C)
    <3>1. \A x : Starved(x, D) => Starved(x, C)
      BY <2>2 DEF Starved
    <3>2. \A x : Orphaned(x, D) => Orphaned(x, C)
      BY <2>2 DEF Orphaned
    <3> QED BY <3>1, <3>2
  <2> QED BY <2>1, <2>2 DEF Adds
<1> DEFINE step(g) == [D \in SUBSET known |-> IF more(D) = {} THEN D ELSE g[D \cup more(D)]]
<1>2. \A g : IsClosure(g, known, m) <=> g = step(g)
  BY DEF IsClosure
<1> HIDE DEF m, step
<1>3. \E g : IsClosure(g, known, m)
  BY <1>1, ClosureExists
<1> USE DEF m, step
<1>4. PICK h : Impossible = h[pruned] /\ h = CHOOSE g : g = step(g)
  BY Zenon DEF Impossible
<1> HIDE DEF m, step
<1>5. IsClosure(h, known, m)
  BY <1>2, <1>3, <1>4
<1>6. /\ h[pruned] \in SUBSET known /\ pruned \subseteq h[pruned] /\ m[h[pruned]] = {}
      /\ \A C \in SUBSET known : pruned \subseteq C /\ m[C] = {} => h[pruned] \subseteq C
  BY <1>1, <1>5, ClosureIsLeast
<1>7. \A D \in SUBSET known : m[D] = {} <=> Closed(D)
  <2>1. \A D \in SUBSET known : m[D] = more(D)
    BY DEF m
  <2>2. \A D \in SUBSET known : more(D) = {} <=> Closed(D)
    BY DEF Closed
  <2> QED BY <2>1, <2>2
<1> QED BY <1>4, <1>6, <1>7

\* The children and parents that Starved and Orphaned speak of.
LEMMA LinkPlace ==
  ASSUME Shape, NEW e \in made
  PROVE  /\ e = <<e[1], e[2]>> /\ e[2] \in known /\ Parent(e) \in known
         /\ e[2].layer \in Nat /\ e[2].layer > 0 /\ e[2].pos \in Nat
         /\ e[2].pos \in DOMAIN sizes[e[2].layer]
         /\ Parent(e).op = e[1] /\ Parent(e).layer + 1 = e[2].layer
         /\ Parent(e).layer \in Nat /\ Parent(e).layer < layer /\ e[2].layer <= layer
         /\ Parent(e).pos = OldPos(e[2].layer, e[2].pos)
<1>1. e \in Names \X known /\ e[2].layer > 0 /\ Parent(e) \in known
  BY DEF Shape, Elements, Links
<1>2. e[2].layer \in 0..layer /\ e[2].pos \in Nat /\ e[2].pos \in DOMAIN sizes[e[2].layer]
  BY <1>1 DEF Shape, Elements, Nodes
<1>3. layer \in Nat
  BY DomainFacts DEF Shape, Hierarchy
<1>4. /\ Parent(e).op = e[1] /\ Parent(e).layer = e[2].layer - 1
      /\ Parent(e).pos = OldPos(e[2].layer, e[2].pos)
  BY DEF Parent, Node
<1> QED BY <1>1, <1>2, <1>3, <1>4

\* A link that leads to a child of n has n as its parent.
LEMMA ParentIs ==
  ASSUME Shape, NEW n \in known, NEW e \in made,
         e[1] = n.op, e[2].layer = n.layer+1, OldPos(e[2].layer, e[2].pos) = n.pos
  PROVE  Parent(e) = n
<1>1. n \in [layer : 0..layer, pos : Nat, op : Names]
  BY DEF Shape, Elements, Nodes
<1>2. n.layer \in Nat /\ n = Node(n.layer, n.pos, n.op)
  BY <1>1, DomainFacts DEF Shape, Hierarchy, Node
<1>3. e[2].layer - 1 = n.layer
  BY <1>2
<1> QED BY <1>2, <1>3, Zenon DEF Parent

\* At rest, the invariant is what the property says.
LEMMA ExactFollows == Shape /\ Book /\ Ancestry /\ ExactInv => PruneExact
<1> SUFFICES ASSUME Shape, Book, Ancestry, ExactInv, Quiet, Undisturbed
             PROVE  known \ ops = Impossible
  BY DEF PruneExact
<1>1. pruning = "no" /\ todo = {} /\ skipped = {} /\ ~beyond /\ ChildSetsAgree
  BY DEF Quiet, Undisturbed
<1>2. Alive = ops
  BY <1>1, RestLinks DEF AtRest
<1>3. IsFiniteSet(known) /\ pruned \subseteq known /\ ops \subseteq known
  BY DEF Ancestry, Shape, Elements
<1>4. Agreed
  BY <1>1, AgreeEverywhere DEF Agreed
<1>5. (\A n \in ops : Fed(n)) /\ pruned \cap ops = {}
  BY <1>1, <1>2, <1>4 DEF ExactInv, AllImpossible
<1>6. ASSUME NEW n \in ops, Starved(n, known \ ops) PROVE FALSE
  <2>1. PICK p \in DOMAIN sizes[n.layer+1] :
          /\ Propagated(n.layer+1, p) /\ OldPos(n.layer+1, p) = n.pos
          /\ \A e \in made : e[1] = n.op /\ e[2].layer = n.layer+1 /\ e[2].pos = p
                               => e[2] \in known \ ops
    BY <1>6, Zenon DEF Starved
  <2>2. n.layer < layer /\ n.layer \in Nat /\ layer \in Nat /\ n \in known
    BY <1>3, <1>6, DomainFacts DEF Starved, Shape, Elements, Hierarchy, Nodes
  <2>3. p \in Nat
    <3>1. n.layer+1 \in 0..layer
      BY <2>2
    <3>2. Row(n.layer+1)
      BY <3>1 DEF Shape, Hierarchy
    <3> QED BY <3>2 DEF Row
  <2>4. Pending = {}
    BY <1>1 DEF Pending
  <2>5. PICK e \in made : Parent(e) = n /\ e[2].pos = p /\ e[2] \in ops
    BY <1>2, <1>5, <2>1, <2>2, <2>3, <2>4 DEF Fed
  <2>6. e[1] = n.op /\ e[2].layer = n.layer+1
    BY <2>5, LinkPlace
  <2> QED BY <2>1, <2>5, <2>6
<1>7. ASSUME NEW n \in ops, Orphaned(n, known \ ops) PROVE FALSE
  <2>1. n.layer > 0 /\ \A e \in made : e[2] = n => Parent(e) \in known \ ops
    BY <1>7, Zenon DEF Orphaned, Parent
  <2>2. PICK e \in pred : e[2] = n
    BY <2>1 DEF Ancestry, HasParents
  <2>3. e \in made /\ Parent(e) \in ops
    BY <1>1, <2>2 DEF Ancestry, MadeInv, Book, LinkInv
  <2> QED BY <2>1, <2>2, <2>3
<1>8. Closed(known \ ops)
  BY <1>6, <1>7 DEF Closed
<1>9. pruned \subseteq known \ ops
  BY <1>3, <1>5
<1>10. Impossible \subseteq known \ ops
  BY <1>3, <1>8, <1>9, KnownImpossibleIs
<1>11. Impossible \in SUBSET known /\ pruned \subseteq Impossible /\ Closed(Impossible)
  BY <1>3, KnownImpossibleIs
<1>12. known \ ops \subseteq Impossible
  BY <1>1, <1>2, <1>11 DEF ExactInv, OnlyImpossible
<1> QED BY <1>10, <1>12

\* The argument of prune on its way up.
Argument == IF pruning = "up" THEN {op} ELSE {}

\* The operations there have been.
LEMMA KnownPlaces ==
  Shape => /\ layer \in Nat
           /\ pos \in Nat
           /\ \A l \in 0..layer : DOMAIN sizes[l] \subseteq Nat
           /\ \A n \in known : n.layer \in 0..layer /\ n.layer \in Nat /\ n.pos \in Nat
<1> SUFFICES ASSUME Shape
             PROVE  /\ layer \in Nat
                    /\ pos \in Nat
                    /\ \A l \in 0..layer : DOMAIN sizes[l] \subseteq Nat
                    /\ \A n \in known : n.layer \in 0..layer /\ n.layer \in Nat /\ n.pos \in Nat
  OBVIOUS
<1>1. layer \in Nat
  BY DomainFacts DEF Shape, Hierarchy
<1>2. \A l \in 0..layer : DOMAIN sizes[l] \subseteq Nat
  <2> SUFFICES ASSUME NEW l \in 0..layer PROVE DOMAIN sizes[l] \subseteq Nat
    OBVIOUS
  <2>1. Row(l)
    BY DEF Shape, Hierarchy
  <2> QED BY <2>1 DEF Row
<1>3. pos \in Nat
  BY <1>1, <1>2 DEF Shape, Hierarchy
<1>4. \A n \in known : n.layer \in 0..layer /\ n.layer \in Nat /\ n.pos \in Nat
  BY <1>1 DEF Shape, Elements, Nodes
<1> QED BY <1>1, <1>2, <1>3, <1>4

\* The two ways to become impossible, by links.
LEMMA StarvedIs ==
  Shape => \A n \in known : \A C :
    Starved(n, C) <=>
      /\ n.layer < layer
      /\ \E p \in DOMAIN sizes[n.layer+1] :
           /\ Propagated(n.layer+1, p) /\ OldPos(n.layer+1, p) = n.pos
           /\ \A e \in made : Parent(e) = n /\ e[2].pos = p => e[2] \in C
<1> SUFFICES ASSUME Shape, NEW n \in known, NEW C
             PROVE  Starved(n, C) <=>
                      /\ n.layer < layer
                      /\ \E p \in DOMAIN sizes[n.layer+1] :
                           /\ Propagated(n.layer+1, p) /\ OldPos(n.layer+1, p) = n.pos
                           /\ \A e \in made : Parent(e) = n /\ e[2].pos = p => e[2] \in C
  OBVIOUS
<1>1. ASSUME NEW p, OldPos(n.layer+1, p) = n.pos, NEW e \in made
      PROVE  e[1] = n.op /\ e[2].layer = n.layer+1 /\ e[2].pos = p
               <=> Parent(e) = n /\ e[2].pos = p
  <2>1. ASSUME e[1] = n.op, e[2].layer = n.layer+1, e[2].pos = p PROVE Parent(e) = n
    BY <1>1, <2>1, ParentIs
  <2>2. ASSUME Parent(e) = n PROVE e[1] = n.op /\ e[2].layer = n.layer+1
    BY <2>2, LinkPlace
  <2> QED BY <2>1, <2>2
<1> QED BY <1>1 DEF Starved

\* Without a parent is what has none left among its links.
LEMMA OrphanedIs ==
  \A n, C : Orphaned(n, C) <=> n.layer > 0 /\ \A e \in made : e[2] = n => Parent(e) \in C
<1> SUFFICES ASSUME NEW n, NEW C
             PROVE  Orphaned(n, C) <=> n.layer > 0 /\ \A e \in made : e[2] = n => Parent(e) \in C
  OBVIOUS
<1>1. \A e : e[2] = n => Parent(e) = Node(n.layer-1, OldPos(n.layer, n.pos), e[1])
  BY Zenon DEF Parent
<1> QED BY <1>1, Zenon DEF Orphaned

-----------------------------------------------------------------------------
(* The steps that change neither the history nor what is alive.            *)
\* While the history stays, it means the same.
LEMMA SameHistory ==
  ASSUME UNCHANGED <<layer, pos, sizes, made, known>>,
         phase' = "dominate" <=> phase = "dominate",
         phase' \in {"encode", "layer"} <=> phase \in {"encode", "layer"}
  PROVE  /\ \A n, C : Starved(n, C)' <=> Starved(n, C)
         /\ \A n, C : Orphaned(n, C)' <=> Orphaned(n, C)
         /\ \A C : Closed(C)' <=> Closed(C)
         /\ \A l, p : Propagated(l, p)' <=> Propagated(l, p)
         /\ Replaceable' = Replaceable
         /\ Agreed' <=> Agreed
         /\ \A m : Barren(m)' <=> Barren(m)
         /\ LayerDone' <=> LayerDone
         /\ \A l, p : OldPos(l, p)' = OldPos(l, p)
         /\ \A e : Parent(e)' = Parent(e)
<1>1. /\ \A l, p : OldPos(l, p)' = OldPos(l, p)
      /\ \A l : Last(l)' = Last(l)
      /\ \A e : Parent(e)' = Parent(e)
  BY SamePositions
<1>2. \A l, p : Propagated(l, p)' <=> Propagated(l, p)
  BY DEF Propagated
<1>3. \A n, C : Starved(n, C)' <=> Starved(n, C)
  <2> SUFFICES ASSUME NEW n, NEW C PROVE Starved(n, C)' <=> Starved(n, C)
    OBVIOUS
  <2> QED BY <1>1, <1>2 DEF Starved
<1>4. \A n, C : Orphaned(n, C)' <=> Orphaned(n, C)
  BY <1>1 DEF Orphaned, Node
<1>5. \A C : Closed(C)' <=> Closed(C)
  BY <1>3, <1>4 DEF Closed
<1>6. Replaceable' = Replaceable
  BY DEF Replaceable
<1>7. \A n : AgreeAt(n)' <=> AgreeAt(n)
  BY DEF AgreeAt
<1>8. Agreed' <=> Agreed
  BY <1>6, <1>7 DEF Agreed
<1>9. \A m : Barren(m)' <=> Barren(m)
  BY <1>1 DEF Barren
<1>10. LayerDone' <=> LayerDone
  BY <1>1 DEF LayerDone
<1> QED BY <1>1, <1>2, <1>3, <1>4, <1>5, <1>6, <1>8, <1>9, <1>10

\* A step that touches neither the history nor what is alive.
LEMMA QuietExact ==
  ASSUME ExactInv, UNCHANGED <<layer, pos, sizes, made, known>>,
         phase' = "dominate" <=> phase = "dominate",
         phase' \in {"encode", "layer"} <=> phase \in {"encode", "layer"},
         ~beyond' => ~beyond /\ Alive' = Alive,
         pruned \subseteq pruned', skipped \subseteq skipped',
         (pruned' \ pruned) \cup Argument \subseteq Argument',
         phase = "dominate" /\ skipped' = {} => Pending \subseteq Pending',
         phase = "dominate" => todo' \cup (IF pruning' = "no" THEN {} ELSE {op'})
                           \subseteq todo \cup (IF pruning = "no" THEN {} ELSE {op})
  PROVE  ExactInv'
<1>1. LayerDone'
  BY SameHistory DEF ExactInv
<1>2. CASE beyond'
  BY <1>1, <1>2 DEF ExactInv, FreshInv, OnlyImpossible, AllImpossible
<1>3. CASE ~beyond'
  <2>1. ~beyond /\ Alive' = Alive
    BY <1>3
  <2>2. FreshInv'
    <3> SUFFICES ASSUME phase' = "dominate"
                 PROVE  /\ Replaceable' \subseteq Alive'
                        /\ \A m \in todo' \cup (IF pruning' = "no" THEN {} ELSE {op'}) : Barren(m)'
      BY DEF FreshInv
    <3>1. /\ Replaceable \subseteq Alive
          /\ \A m \in todo \cup (IF pruning = "no" THEN {} ELSE {op}) : Barren(m)
      BY <2>1 DEF ExactInv, FreshInv
    <3> QED BY <2>1, <3>1, SameHistory
  <2>3. OnlyImpossible'
    <3> SUFFICES ASSUME NEW C \in SUBSET known, pruned' \subseteq C, Closed(C)'
                 PROVE  known \ Alive \subseteq C
      BY <2>1 DEF OnlyImpossible
    <3>1. Closed(C) /\ pruned \subseteq C
      BY SameHistory
    <3> QED BY <2>1, <3>1 DEF ExactInv, OnlyImpossible
  <2>4. AllImpossible'
    <3> SUFFICES ASSUME skipped' = {}, Agreed'
                 PROVE  /\ \A n \in Alive' : Fed(n)'
                        /\ pruned' \cap Alive' \subseteq Argument'
      BY DEF AllImpossible, Argument
    <3>1. /\ \A n \in Alive : Fed(n)
          /\ pruned \cap Alive \subseteq Argument
      <4>1. skipped = {} /\ Agreed
        BY SameHistory
      <4> QED BY <2>1, <4>1 DEF ExactInv, AllImpossible, Argument
    <3>2. ASSUME NEW n \in Alive PROVE Fed(n)'
      <4> SUFFICES ASSUME NEW p \in Nat,
                          n.layer < layer /\ p \in DOMAIN sizes[n.layer+1],
                          Propagated(n.layer+1, p)', OldPos(n.layer+1, p)' = n.pos
                   PROVE  \/ \E e \in made : Parent(e)' = n /\ e[2].pos = p /\ e[2] \in Alive
                          \/ phase' = "dominate" /\ n.layer+1 = layer /\ p = pos /\ n \in Pending'
        BY <2>1 DEF Fed
      <4>1. Propagated(n.layer+1, p) /\ OldPos(n.layer+1, p) = n.pos
        BY SameHistory
      <4>2. \/ \E e \in made : Parent(e) = n /\ e[2].pos = p /\ e[2] \in Alive
            \/ phase = "dominate" /\ n.layer+1 = layer /\ p = pos /\ n \in Pending
        BY <3>1, <3>2, <4>1 DEF Fed
      <4>3. \A e : Parent(e)' = Parent(e)
        BY SameHistory
      <4> QED BY <4>2, <4>3
    <3> QED BY <2>1, <3>1, <3>2
  <2> QED BY <1>1, <2>2, <2>3, <2>4 DEF ExactInv
<1> QED BY <1>2, <1>3

\* What the callers do between two calls of prune.
LEMMA CallersExact ==
  ASSUME Shape, Shape', Book, Book', Ancestry, Ancestry', ExactInv,
         PruneLeft \/ PruneAbove \/ Encode
  PROVE  ExactInv'
<1>1. /\ UNCHANGED <<layer, pos, sizes, made, known, pruned, skipped, beyond, pruning, op, ops>>
      /\ phase # "dominate" /\ phase' # "dominate" /\ pruning = "no"
      /\ phase' \in {"encode", "layer"} <=> phase \in {"encode", "layer"}
  BY DEF PruneLeft, PruneAbove, Encode, Quiet, structure, worklists, history
<1>2. ~beyond' => Alive' = Alive
  <2>1. AtRest /\ AtRest'
    BY <1>1 DEF AtRest
  <2> QED BY <1>1, <2>1, RestLinks, RestLinksNext
<1>3. Argument = {} /\ Argument' = {}
  BY <1>1 DEF Argument
<1> QED BY <1>1, <1>2, <1>3, QuietExact

\* prune begins.
LEMMA StartPruneExact ==
  ASSUME Shape, Shape', Book, Book', Ancestry, Ancestry', ExactInv, StartPrune
  PROVE  ExactInv'
<1>1. PICK n \in todo : todo' = todo \ {n} /\ op' = n /\ pruned' = pruned \cup {n}
  BY Zenon DEF StartPrune
<1>2. /\ UNCHANGED <<layer, pos, phase, sizes, made, known, skipped, beyond, ops>>
      /\ pruning = "no" /\ pruning' = "up"
  BY DEF StartPrune, place, structure
<1>3. ~beyond' => Alive' = Alive
  <2>1. AtRest /\ AtRest'
    BY <1>2 DEF AtRest
  <2> QED BY <1>2, <2>1, RestLinks, RestLinksNext
<1>4. Argument = {} /\ Argument' = {n}
  BY <1>1, <1>2 DEF Argument
<1>5. Pending' = Pending
  BY <1>1, <1>2 DEF Pending
<1> QED BY <1>1, <1>2, <1>3, <1>4, <1>5, QuietExact

\* Upwards nothing is removed yet.
LEMMA PruneUpExact ==
  ASSUME Shape, Shape', Book, Book', Ancestry, Ancestry', ExactInv, PruneUp
  PROVE  ExactInv'
<1>1. /\ UNCHANGED <<layer, pos, phase, sizes, made, known, pruned, skipped, beyond, ops, todo,
                     pruning, op>>
      /\ pruning = "up"
  BY DEF PruneUp, place, structure, history
<1>2. ~beyond' => Alive' = Alive
  <2>1. AtRest /\ AtRest'
    BY <1>1 DEF AtRest
  <2> QED BY <1>1, <2>1, RestLinks, RestLinksNext
<1>3. Argument' = Argument /\ Pending' = Pending
  BY <1>1 DEF Argument, Pending
<1> QED BY <1>1, <1>2, <1>3, QuietExact

\* Downwards goes what was decided.
LEMMA PruneDownExact ==
  ASSUME Shape, Shape', Book, Book', Ancestry, Ancestry', ExactInv, PruneDown
  PROVE  ExactInv'
<1>1. /\ UNCHANGED <<layer, pos, phase, sizes, made, known, pruned, skipped, todo, pruning, op>>
      /\ pruning = "down"
  BY DEF PruneDown, place
<1>2. ~beyond' => ~beyond /\ Alive' = Alive
  BY PruneDownFacts
<1>3. Argument' = Argument /\ Pending' = Pending
  BY <1>1 DEF Argument, Pending
<1> QED BY <1>1, <1>2, <1>3, QuietExact

\* When prune returns, the caller may miss an operation.
LEMMA ReturnExact ==
  ASSUME Shape, Shape', Book, Book', Ancestry, Ancestry', ExactInv, Return
  PROVE  ExactInv'
<1>1. PICK over \in {{}} \cup {{n} : n \in todo} :
        todo' = todo \ over /\ skipped' = skipped \cup over
  BY Zenon DEF Return
<1>2. /\ UNCHANGED <<layer, pos, phase, sizes, made, known, pruned, beyond, ops, op>>
      /\ pruning = "down" /\ pruning' = "no" /\ remove = {}
  BY DEF Return, place, structure
<1>3. ~beyond' => Alive' = Alive
  <2>1. AtRest /\ AtRest'
    BY <1>2 DEF AtRest
  <2> QED BY <1>2, <2>1, RestLinks, RestLinksNext
<1>4. Argument = {} /\ Argument' = {}
  BY <1>2 DEF Argument
<1>5. Pending = todo /\ Pending' = todo'
  BY <1>2 DEF Pending
<1>6. skipped' = {} => todo' = todo
  BY <1>1
<1>7. skipped \subseteq skipped' /\ todo' \subseteq todo
  BY <1>1
<1> QED BY <1>2, <1>3, <1>4, <1>5, <1>6, <1>7, QuietExact

\* Nothing changes when nothing happens.
LEMMA StutterExact ==
  ASSUME Shape, Shape', Book, Book', Ancestry, Ancestry', ExactInv, UNCHANGED vars
  PROVE  ExactInv'
<1>1. UNCHANGED <<layer, pos, phase, sizes, made, known, pruned, skipped, beyond, ops, exp, pred,
                  todo, pruning, op, remove>>
  BY DEF vars, place, structure, history, worklists
<1>2. ~beyond' => Alive' = Alive
  <2>1. CASE AtRest
    <3>1. AtRest'
      BY <1>1, <2>1 DEF AtRest
    <3> QED BY <1>1, <2>1, <3>1, RestLinks, RestLinksNext
  <2>2. CASE pruning = "down"
    BY <1>1, <2>2, SameGoing
  <2> QED BY <2>1, <2>2 DEF AtRest
<1>3. Argument' = Argument /\ Pending' = Pending
  BY <1>1 DEF Argument, Pending
<1> QED BY <1>1, <1>2, <1>3, QuietExact

-----------------------------------------------------------------------------
(* The roots.                                                              *)
\* What prune has taken up cannot be replaced any more.
LEMMA ClimbedSettled ==
  ASSUME Shape, UpInv, pruning = "up", ~beyond
  PROVE  Climbed \cap Replaceable = {}
<1> SUFFICES ASSUME NEW x \in Climbed, x \in Replaceable PROVE FALSE
  OBVIOUS
<1>1. phase = "dominate" /\ x.layer = layer /\ x.pos = pos /\ layer > 0
  BY DEF Replaceable, Shape, Hierarchy
<1>2. x \notin Touched
  BY <1>1 DEF Shape, Fresh
<1>3. x \in remove
  BY <1>2 DEF Climbed, Touched
<1>4. x.layer = 0 \/ \E t \in taken : t[2] = x
  BY <1>3 DEF UpInv
<1> QED BY <1>1, <1>2, <1>4, KnownPlaces DEF Touched

\* On the path to its argument, the downward pass removes only what the
\* upward pass has climbed: everything else there keeps a child.
LEMMA PathFalls ==
  ASSUME Shape, Book, UpInv, pruning = "up", ~beyond,
         NEW D \in SUBSET ops, Falls(D) = {},
         \A C \in SUBSET ops : remove \subseteq C /\ Falls(C) = {} => D \subseteq C,
         remove \subseteq D,
         NEW f \in Paths(op), NEW x \in D, OnPath(f, x)
  PROVE  x \in Climbed
<1> DEFINE C == {y \in D : OnPath(f, y) => y \in Climbed}
<1>1. C \in SUBSET ops /\ remove \subseteq C
  BY DEF Climbed
<1>2. op \in Climbed /\ op \in known
  BY DEF UpInv, Shape, Elements
<1>3. ASSUME NEW c \in Falls(C) PROVE FALSE
  <2>1. c \in ops \ C /\ Parents(c) \cap C # {} /\ (c = op \/ Parents(c) \subseteq C)
    BY <1>3 DEF Falls
  <2>2. c \in D
    <3> SUFFICES ASSUME c \notin D PROVE FALSE
      OBVIOUS
    <3>1. Parents(c) \cap D # {} /\ (c = op \/ Parents(c) \subseteq D)
      BY <2>1
    <3> QED BY <2>1, <3>1 DEF Falls
  <2>3. OnPath(f, c) /\ c \notin Climbed
    BY <2>1, <2>2
  <2>4. PICK m \in Parents(c) : m \in C
    BY <2>1
  <2>5. c \in known /\ op.layer \in Nat
    BY <1>2, <2>1, KnownPlaces DEF Shape, Elements
  <2>6. /\ c \in Siblings(m, c) /\ m.layer + 1 = c.layer /\ c.layer \in Nat /\ c.layer > 0
        /\ m.layer = c.layer - 1 /\ m.pos = OldPos(c.layer, c.pos)
    BY <2>4, <2>5, OwnSibling, ParentsLayer
  <2>7. /\ c.layer <= op.layer /\ c.pos = f[c.layer]
        /\ m.layer \in 0..op.layer-1 /\ m.layer < op.layer /\ m.layer <= op.layer
    BY <2>3, <2>5, <2>6 DEF OnPath
  <2>8. OnPath(f, m)
    <3>1. \A l \in 0 .. op.layer-1 : f[l] = OldPos(l+1, f[l+1])
      BY DEF Paths
    <3>2. f[m.layer] = OldPos(m.layer+1, f[m.layer+1])
      BY <2>7, <3>1
    <3> QED BY <2>6, <2>7, <3>2 DEF OnPath
  <2>9. m \in Climbed
    BY <2>4, <2>8
  <2>10. Covered(f, m)
    BY <2>8, <2>9 DEF Book, WorkInv, Cone, Climbed
  <2>11. m # op
    BY <2>7
  <2>12. \A y \in Children(m, {f[m.layer+1]}) : <<m, y>> \in taken
    BY <2>10, <2>11 DEF Covered
  <2>13. <<m, c>> \in taken
    BY <2>6, <2>7, <2>12 DEF Siblings
  <2>14. c \in Climbed
    BY <2>13 DEF Climbed
  <2> QED BY <2>3, <2>14
<1>4. D \subseteq C
  BY <1>1, <1>3
<1> QED BY <1>4

\* At the position of its argument, it removes nothing else.
LEMMA OnlyArgument ==
  ASSUME Shape, Book, UpInv, pruning = "up", ~beyond,
         NEW D \in SUBSET ops, Falls(D) = {},
         \A C \in SUBSET ops : remove \subseteq C /\ Falls(C) = {} => D \subseteq C,
         remove \subseteq D,
         NEW x \in D, x.layer = op.layer, x.pos = op.pos
  PROVE  x = op
<1>1. op \in known /\ op \in Nodes /\ op.layer \in Nat
  BY KnownPlaces DEF Shape, Elements
<1>2. PICK f : f \in Paths(op)
  BY <1>1, PathExists DEF Shape
<1>3. OnPath(f, x)
  BY <1>1, <1>2 DEF OnPath, Paths
<1>4. x \in Climbed
  BY <1>2, <1>3, PathFalls
<1> QED BY <1>1, <1>4 DEF UpInv

\* It does not reach what can still be replaced.
LEMMA SettledFalls ==
  ASSUME Shape, Book, Ancestry, UpInv, ExactInv, pruning = "up", ~beyond,
         NEW D \in SUBSET ops, Falls(D) = {},
         \A C \in SUBSET ops : remove \subseteq C /\ Falls(C) = {} => D \subseteq C,
         remove \subseteq D
  PROVE  D \cap Replaceable = {}
<1> DEFINE C == D \ Replaceable
<1>1. C \in SUBSET ops /\ remove \subseteq C
  BY ClimbedSettled DEF Climbed
<1>2. ASSUME NEW c \in Falls(C) PROVE FALSE
  <2>1. c \in ops \ C /\ Parents(c) \cap C # {} /\ (c = op \/ Parents(c) \subseteq C)
    BY <1>2 DEF Falls
  <2>2. c \in D
    <3> SUFFICES ASSUME c \notin D PROVE FALSE
      OBVIOUS
    <3>1. Parents(c) \cap D # {} /\ (c = op \/ Parents(c) \subseteq D)
      BY <2>1
    <3> QED BY <2>1, <3>1 DEF Falls
  <2>3. phase = "dominate" /\ c.layer = layer /\ c.pos = pos
    BY <2>1, <2>2 DEF Replaceable
  <2>4. Barren(op)
    BY <2>3 DEF ExactInv, FreshInv
  <2>5. PICK m \in Parents(c) : m \in C
    BY <2>1
  <2>6. m.layer = layer-1 /\ m.pos = OldPos(layer, pos)
    BY <2>3, <2>5, ParentsLayer
  <2>7. m \in D /\ m.layer = op.layer /\ m.pos = op.pos
    BY <2>4, <2>5, <2>6 DEF Barren
  <2>8. m = op
    BY <2>7, OnlyArgument
  <2>9. PICK e \in pred : e[2] = c /\ op = Parent(e)
    BY <2>5, <2>8, ParentsAre
  <2>10. e \in made
    BY <2>9 DEF Book, LinkInv, Ancestry, MadeInv
  <2> QED BY <2>3, <2>4, <2>9, <2>10 DEF Barren
<1>3. D \subseteq C
  BY <1>1, <1>2
<1> QED BY <1>3

\* A link between operations that are there is in _predecessors.
LEMMA AliveLinks ==
  ASSUME Book, Ancestry, NEW e \in made, e[2] \in ops, Parent(e) \in ops
  PROVE  e \in pred /\ Parent(e) \in Parents(e[2])
<1>1. e \in exp
  BY DEF Ancestry, MadeInv
<1>2. e \in pred
  BY <1>1 DEF Book, LinkInv
<1> QED BY <1>2, ParentsAre

\* And the other way round.
LEMMA ParentLinks ==
  ASSUME Book, Ancestry, NEW n, NEW m \in Parents(n)
  PROVE  \E e \in made : e[2] = n /\ Parent(e) = m
<1>1. PICK e \in pred : e[2] = n /\ m = Parent(e)
  BY ParentsAre
<1>2. e \in made
  BY <1>1 DEF Book, LinkInv, Ancestry, MadeInv
<1> QED BY <1>1, <1>2

\* What is there has been propagated.
LEMMA KnownPropagated ==
  ASSUME Shape, NEW n \in known
  PROVE  Propagated(n.layer, n.pos)
<1>1. n.layer \in 0..layer /\ n.pos \in Nat /\ layer \in Nat /\ pos \in Nat /\ n.layer \in Nat
  BY KnownPlaces
<1>2. phase \in Phases
  BY DEF Shape, Hierarchy
<1>3. CASE n.layer < layer
  BY <1>3 DEF Propagated
<1>4. CASE n.layer = layer
  <2>1. n.pos <= pos /\ (phase \in {"left", "actions", "reductions"} => n.pos < pos)
    BY <1>4 DEF Shape, Fresh
  <2> QED BY <1>1, <1>2, <1>4, <2>1 DEF Propagated, Phases
<1> QED BY <1>1, <1>3, <1>4

\* What is impossible for the atomic specification is so for good.
LEMMA AtomicImpossible ==
  ASSUME Shape, Book, Ancestry, ExactInv, AtRest, ~beyond, op \in ops,
         NEW C \in SUBSET known, op \in C, pruned \subseteq C, Closed(C)
  PROVE  Atomic!Impossible(op) \subseteq C
<1>1. Alive = ops /\ IsFiniteSet(ops) /\ ops \subseteq known
  BY RestLinks, FS_Subset DEF Ancestry, Shape, Elements
<1>2. known \ ops \subseteq C
  BY <1>1 DEF ExactInv, OnlyImpossible
<1>3. ASSUME NEW m \in Missing(C \cap ops) PROVE FALSE
  <2>1. m \in ops \ C /\ (Atomic!Emptied(m, C \cap ops) \/ Atomic!Orphaned(m, C \cap ops))
    BY <1>1, <1>3 DEF Missing
  <2>2. m \in known
    BY <1>1, <2>1
  <2>3. CASE Atomic!Emptied(m, C \cap ops)
    <3>1. PICK n \in C \cap ops :
            m \in Atomic!Parents(n) /\ Atomic!Children(m, n.pos) \subseteq C \cap ops
      BY <2>3, Zenon DEF Atomic!Emptied
    <3>2. m \in Parents(n) /\ n \in known
      BY <1>1, <3>1, RestFamily
    <3>3. m.layer + 1 = n.layer /\ m.pos = OldPos(n.layer, n.pos) /\ n.layer \in Nat
      BY <3>2, OwnSibling, ParentsLayer
    <3>4. m.layer < layer /\ n.pos \in DOMAIN sizes[n.layer]
      BY <2>2, <3>2, <3>3, KnownPlaces DEF Shape, Elements, Nodes
    <3>5. \A c \in ops : c.pos = n.pos /\ m \in Parents(c) => c \in C
      BY <2>1, <3>1, RestFamily
    <3>6. ASSUME NEW e \in made, Parent(e) = m, e[2].pos = n.pos PROVE e[2] \in C
      <4>1. e[2] \in known
        BY LinkPlace
      <4>2. CASE e[2] \in ops
        <5>1. m \in Parents(e[2])
          BY <2>1, <3>6, <4>2, AliveLinks
        <5> QED BY <3>5, <3>6, <4>2, <5>1
      <4> QED BY <1>2, <4>1, <4>2
    <3>7. Starved(m, C)
      BY <2>2, <3>2, <3>3, <3>4, <3>6, KnownPropagated, StarvedIs
    <3> QED BY <2>1, <2>2, <3>7 DEF Closed
  <2>4. CASE Atomic!Orphaned(m, C \cap ops)
    <3>1. Parents(m) # {} /\ Parents(m) \subseteq C
      BY <2>1, <2>4, RestFamily DEF Atomic!Orphaned
    <3>2. m.layer > 0
      <4>1. PICK k : k \in Parents(m)
        BY <3>1
      <4> QED BY <2>2, <4>1, OwnSibling
    <3>3. ASSUME NEW e \in made, e[2] = m PROVE Parent(e) \in C
      <4>1. Parent(e) \in known
        BY LinkPlace
      <4>2. CASE Parent(e) \in ops
        BY <2>1, <3>1, <3>3, <4>2, AliveLinks
      <4> QED BY <1>2, <4>1, <4>2
    <3>4. Orphaned(m, C)
      BY <3>2, <3>3, OrphanedIs
    <3> QED BY <2>1, <2>2, <3>4 DEF Closed
  <2> QED BY <2>1, <2>3, <2>4
<1>4. \A B \in SUBSET Alive : op \in B /\ Missing(B) = {} => Atomic!Impossible(op) \subseteq B
  BY <1>1, ImpossibleIs
<1>5. Atomic!Impossible(op) \subseteq C \cap ops
  BY <1>1, <1>3, <1>4
<1> QED BY <1>5

\* What prune leaves has all the children it had to have.
LEMMA StaysFed ==
  ASSUME Shape, Book, Ancestry, ExactInv, AtRest, ~beyond,
         NEW D \in SUBSET ops, Missing(D) = {}, NEW n \in ops \ D, NEW e \in made,
         Parent(e) = n, e[2] \in ops
  PROVE  \E x \in made : Parent(x) = n /\ x[2].pos = e[2].pos /\ x[2] \in ops \ D
<1> SUFFICES ASSUME \A x \in made :
                      Parent(x) = n /\ x[2].pos = e[2].pos /\ x[2] \in ops => x[2] \in D
             PROVE  FALSE
  OBVIOUS
<1>1. Alive = ops
  BY RestLinks
<1>2. e[2] \in D /\ n \in Parents(e[2])
  BY AliveLinks
<1>3. n \in Atomic!Parents(e[2])
  BY <1>2, RestFamily
<1>4. Atomic!Children(n, e[2].pos) \subseteq D
  <2> SUFFICES ASSUME NEW c \in ops, c.pos = e[2].pos, n \in Parents(c) PROVE c \in D
    BY RestFamily
  <2>1. PICK x \in made : x[2] = c /\ Parent(x) = n
    BY ParentLinks
  <2> QED BY <2>1
<1>5. Atomic!Emptied(n, D)
  BY <1>2, <1>3, <1>4 DEF Atomic!Emptied
<1> QED BY <1>1, <1>5 DEF Missing

\* When prune has found its roots, what goes is what has become impossible.
LEMMA RootsFoundExact ==
  ASSUME Shape, Shape', Book, Book', Ancestry, Ancestry', UpInv, ExactInv, OpPruned, RootsFound
  PROVE  ExactInv'
<1>1. /\ UNCHANGED <<layer, pos, phase, sizes, made, known, pruned, skipped, beyond, ops, todo, op>>
      /\ pruning = "up" /\ pruning' = "down" /\ open = {}
  BY DEF RootsFound, place, structure, history
<1>2. /\ \A C : Closed(C)' <=> Closed(C)
      /\ \A l, p : Propagated(l, p)' <=> Propagated(l, p)
      /\ Replaceable' = Replaceable
      /\ Agreed' <=> Agreed
      /\ \A m : Barren(m)' <=> Barren(m)
      /\ LayerDone' <=> LayerDone
      /\ \A l, p : OldPos(l, p)' = OldPos(l, p)
      /\ \A e : Parent(e)' = Parent(e)
  BY <1>1, SameHistory
<1>3. LayerDone'
  BY <1>2 DEF ExactInv
<1>4. CASE beyond'
  BY <1>3, <1>4 DEF ExactInv, FreshInv, OnlyImpossible, AllImpossible
<1>5. CASE ~beyond'
  <2>1. PICK D \in SUBSET ops :
          /\ Alive = ops /\ Alive' = ops \ D
          /\ remove \subseteq D /\ Falls(D) = {}
          /\ \A C \in SUBSET ops : remove \subseteq C /\ Falls(C) = {} => D \subseteq C
    BY <1>5, RootsFoundFacts
  <2>2. ~beyond /\ AtRest
    BY <1>1, <1>5 DEF AtRest
  <2>3. op \in ops /\ D \subseteq Atomic!Impossible(op)
    BY <1>1, <2>1, <2>2, RemovesImpossible
  <2>4. IsFiniteSet(ops) /\ ops \subseteq known
    BY FS_Subset DEF Ancestry, Shape, Elements
  <2>5. op \in pruned
    BY <1>1 DEF OpPruned
  <2>6. FreshInv'
    <3> SUFFICES ASSUME phase = "dominate"
                 PROVE  Replaceable \subseteq ops \ D /\ \A m \in todo \cup {op} : Barren(m)
      BY <1>1, <1>2, <2>1 DEF FreshInv
    <3>1. Replaceable \subseteq Alive /\ \A m \in todo \cup {op} : Barren(m)
      BY <1>1, <2>2 DEF ExactInv, FreshInv
    <3>2. D \cap Replaceable = {}
      BY <1>1, <2>1, <2>2, SettledFalls
    <3> QED BY <2>1, <3>1, <3>2
  <2>7. OnlyImpossible'
    <3> SUFFICES ASSUME NEW C \in SUBSET known, pruned \subseteq C, Closed(C)
                 PROVE  known \ (ops \ D) \subseteq C
      BY <1>1, <1>2, <2>1 DEF OnlyImpossible
    <3>1. known \ ops \subseteq C
      BY <2>1, <2>2 DEF ExactInv, OnlyImpossible
    <3>2. Atomic!Impossible(op) \subseteq C
      BY <2>2, <2>3, <2>5, AtomicImpossible
    <3> QED BY <2>3, <3>1, <3>2
  <2>8. AllImpossible'
    <3> SUFFICES ASSUME skipped = {}, Agreed
                 PROVE  (\A n \in ops \ D : Fed(n)') /\ pruned \cap (ops \ D) = {}
      BY <1>1, <1>2, <2>1 DEF AllImpossible
    <3>1. (\A n \in ops : Fed(n)) /\ pruned \cap ops \subseteq {op}
      BY <1>1, <2>1, <2>2 DEF ExactInv, AllImpossible
    <3>2. \A x \in Climbed : AgreeAt(x)
      <4>1. Climbed \subseteq known
        BY <1>1, <2>2, <2>4 DEF UpInv
      <4>2. Climbed \cap Replaceable = {}
        BY <1>1, <2>2, ClimbedSettled
      <4> QED BY <4>1, <4>2 DEF Agreed
    <3>3. Atomic!Impossible(op) \subseteq D
      BY <1>1, <2>1, <2>2, <3>2, RemovesAllImpossible
    <3>4. D = Atomic!Impossible(op)
      BY <2>3, <3>3
    <3>5. op \in D /\ Missing(D) = {}
      BY <2>1, <2>3, <2>4, <3>4, ImpossibleIs
    <3>6. ASSUME NEW n \in ops \ D PROVE Fed(n)'
      <4> SUFFICES ASSUME NEW p \in Nat, n.layer < layer, p \in DOMAIN sizes[n.layer+1],
                          Propagated(n.layer+1, p), OldPos(n.layer+1, p) = n.pos
                   PROVE  \/ \E e \in made : Parent(e) = n /\ e[2].pos = p /\ e[2] \in ops \ D
                          \/ phase = "dominate" /\ n.layer+1 = layer /\ p = pos /\ n \in Pending'
        BY <1>1, <1>2, <2>1 DEF Fed
      <4>1. \/ \E e \in made : Parent(e) = n /\ e[2].pos = p /\ e[2] \in ops
            \/ phase = "dominate" /\ n.layer+1 = layer /\ p = pos /\ n \in Pending
        BY <2>1, <3>1 DEF Fed
      <4>2. ASSUME NEW e \in made, Parent(e) = n, e[2].pos = p, e[2] \in ops
            PROVE  \E x \in made : Parent(x) = n /\ x[2].pos = p /\ x[2] \in ops \ D
        BY <2>2, <3>5, <4>2, StaysFed
      <4>3. n \in Pending => n \in Pending'
        BY <1>1, <3>5 DEF Pending
      <4> QED BY <4>1, <4>2, <4>3
    <3> QED BY <3>1, <3>5, <3>6
  <2> QED BY <1>3, <2>6, <2>7, <2>8 DEF ExactInv
<1> QED BY <1>4, <1>5

-----------------------------------------------------------------------------
(* The steps that make the hierarchy grow.                                 *)
\* A new layer leaves the positions above it where they are.
LEMMA NextLayerPlaces ==
  ASSUME Shape, Shape', NextLayer
  PROVE  /\ layer' = layer+1 /\ layer \in Nat
         /\ \A l \in 0..layer : sizes'[l] = sizes[l]
         /\ \A l \in 1..layer : \A p : OldPos(l, p)' = OldPos(l, p)
         /\ \A e \in made : Parent(e)' = Parent(e)
<1>1. /\ layer < LayerBound /\ layer \in Nat /\ layer' = layer + 1
      /\ UNCHANGED <<domain, ops, exp, pred, made, known, beyond>>
  BY DomainFacts DEF NextLayer, history, Shape, Hierarchy
<1>2. sizes' = [l \in 0 .. layer + 1 |->
                 IF l <= layer THEN sizes[l]
                 ELSE [p \in 0 .. NextLayerSize(layer) - 1 |-> 1]]
  BY DEF NextLayer
<1>3. ASSUME NEW l \in 0..layer PROVE sizes'[l] = sizes[l]
  <2>1. l \in 0..layer+1 /\ l <= layer
    BY <1>1
  <2> QED BY <1>2, <2>1, Zenon
<1>4. ASSUME NEW l \in 1..layer PROVE \A p : OldPos(l, p)' = OldPos(l, p)
  <2>1. l-1 \in Nat /\ l-1 \in 0..layer /\ (l-1)+1 = l
    BY <1>1
  <2>2. \A k \in Nat : sizes'[k] = sizes[k] => \A p : OldPos(k+1, p)' = OldPos(k+1, p)
    BY StablePositions
  <2>3. \A p : OldPos((l-1)+1, p)' = OldPos((l-1)+1, p)
    BY <1>3, <2>1, <2>2
  <2> QED BY <2>1, <2>3
<1>5. ASSUME NEW e \in made PROVE Parent(e)' = Parent(e)
  <2>1. e[2].layer \in 1..layer
    BY <1>1, LinkPlace
  <2> QED BY <1>4, <2>1 DEF Parent
<1> QED BY <1>1, <1>3, <1>4, <1>5

\* A new layer starts when the old one is complete.
LEMMA NextLayerExact ==
  ASSUME Shape, Shape', Book, Book', Ancestry, Ancestry', ExactInv, NextLayer
  PROVE  ExactInv'
<1>1. /\ UNCHANGED <<made, known, pruned, skipped, beyond, ops, todo, pruning>>
      /\ pruning = "no" /\ todo = {} /\ phase = "layer" /\ phase' = "left" /\ pos' = 0
  BY DEF NextLayer, Quiet, history, worklists
<1>2. /\ layer' = layer+1 /\ layer \in Nat
      /\ \A l \in 0..layer : sizes'[l] = sizes[l]
      /\ \A l \in 1..layer : \A p : OldPos(l, p)' = OldPos(l, p)
      /\ \A e \in made : Parent(e)' = Parent(e)
  BY NextLayerPlaces
<1>3. ASSUME NEW l \in Nat, NEW p \in Nat, Propagated(l, p)' PROVE l \in 0..layer
  BY <1>1, <1>2, <1>3 DEF Propagated
<1>4. ASSUME NEW l \in 0..layer, NEW p \in DOMAIN sizes[l]
      PROVE  Propagated(l, p) /\ Propagated(l, p)'
  <2>1. pos = Last(layer)
    BY <1>1 DEF ExactInv, LayerDone
  <2>2. l < layer \/ l = layer
    BY <1>2
  <2>3. Row(layer) /\ p \in Nat
    BY <1>2, KnownPlaces DEF Shape, Hierarchy
  <2>4. Last(layer) \in Nat /\ (l = layer => p \in 0..Last(layer))
    BY <2>3, LastOfRow
  <2>5. Propagated(l, p)'
    BY <1>2, <2>2 DEF Propagated
  <2>6. p < pos \/ p = pos \/ l # layer
    BY <2>1, <2>3, <2>4
  <2> QED BY <1>1, <2>2, <2>5, <2>6 DEF Propagated
<1>5. ~beyond' => ~beyond /\ Alive' = Alive
  <2>1. AtRest /\ AtRest'
    BY <1>1 DEF AtRest
  <2> QED BY <1>1, <2>1, RestLinks, RestLinksNext
<1>6. Replaceable = {} /\ Replaceable' = {}
  BY <1>1 DEF Replaceable
<1>7. LayerDone' /\ FreshInv'
  BY <1>1 DEF LayerDone, FreshInv
<1>8. OnlyImpossible'
  <2> SUFFICES ASSUME ~beyond', NEW C \in SUBSET known, pruned \subseteq C, Closed(C)'
               PROVE  known \ Alive' \subseteq C
    BY <1>1 DEF OnlyImpossible
  <2>1. ASSUME NEW n \in known, Starved(n, C) PROVE n \in C
    <3>1. n.layer < layer /\ n.layer \in Nat
      BY <2>1, KnownPlaces DEF Starved
    <3>2. PICK p \in DOMAIN sizes[n.layer+1] :
            /\ OldPos(n.layer+1, p) = n.pos
            /\ \A e \in made : e[1] = n.op /\ e[2].layer = n.layer+1 /\ e[2].pos = p => e[2] \in C
      BY <2>1, Zenon DEF Starved
    <3>3. n.layer+1 \in 0..layer /\ n.layer+1 \in 1..layer /\ n.layer < layer'
      BY <1>2, <3>1
    <3>4. /\ p \in DOMAIN sizes'[n.layer+1] /\ Propagated(n.layer+1, p)'
          /\ OldPos(n.layer+1, p)' = n.pos
      BY <1>2, <1>4, <3>2, <3>3
    <3>5. Starved(n, C)'
      BY <1>1, <3>2, <3>3, <3>4 DEF Starved
    <3> QED BY <1>1, <3>5 DEF Closed
  <2>2. ASSUME NEW n \in known, Orphaned(n, C) PROVE n \in C
    <3>1. n.layer \in 1..layer
      BY <1>2, <2>2, KnownPlaces DEF Orphaned
    <3>2. OldPos(n.layer, n.pos)' = OldPos(n.layer, n.pos)
      BY <1>2, <3>1
    <3>3. Orphaned(n, C)'
      BY <1>1, <2>2, <3>2 DEF Orphaned, Node
    <3> QED BY <1>1, <3>3 DEF Closed
  <2>3. Closed(C)
    BY <2>1, <2>2 DEF Closed
  <2> QED BY <1>5, <2>3 DEF ExactInv, OnlyImpossible
<1>9. AllImpossible'
  <2> SUFFICES ASSUME ~beyond', skipped' = {}, Agreed'
               PROVE  (\A n \in Alive' : Fed(n)') /\ pruned \cap Alive' = {}
    BY <1>1 DEF AllImpossible
  <2>1. Agreed
    <3>1. \A n : AgreeAt(n)' <=> AgreeAt(n)
      BY <1>1 DEF AgreeAt
    <3> QED BY <1>1, <1>6, <3>1 DEF Agreed
  <2>2. (\A n \in Alive : Fed(n)) /\ pruned \cap Alive = {}
    BY <1>1, <1>5, <2>1 DEF ExactInv, AllImpossible
  <2>3. ASSUME NEW n \in Alive PROVE Fed(n)'
    <3> SUFFICES ASSUME NEW p \in Nat, n.layer < layer', p \in DOMAIN sizes'[n.layer+1],
                        Propagated(n.layer+1, p)', OldPos(n.layer+1, p)' = n.pos
                 PROVE  \E e \in made : Parent(e) = n /\ e[2].pos = p /\ e[2] \in Alive
      BY <1>1, <1>2, <1>5 DEF Fed
    <3>1. n \in known /\ n.layer \in Nat
      BY KnownPlaces DEF Alive, Shape, Elements
    <3>2. n.layer+1 \in 0..layer /\ n.layer < layer /\ n.layer+1 \in 1..layer
      BY <1>2, <1>3, <3>1
    <3>3. p \in DOMAIN sizes[n.layer+1] /\ Propagated(n.layer+1, p) /\ OldPos(n.layer+1, p) = n.pos
      BY <1>2, <1>4, <3>2
    <3> QED BY <1>1, <2>2, <2>3, <3>2, <3>3 DEF Fed
  <2> QED BY <1>5, <2>2, <2>3
<1> QED BY <1>7, <1>8, <1>9 DEF ExactInv

\* Positions above the current one stay where they are.
LEMMA PropagatePlaces ==
  ASSUME Shape, Shape', Propagate
  PROVE  /\ UNCHANGED <<layer, pos, pruned, skipped, beyond, pruning>>
         /\ layer \in Nat /\ layer > 0 /\ pruning = "no" /\ todo = {}
         /\ phase = "reductions" /\ phase' = "dominate"
         /\ \A l \in 0..layer : DOMAIN sizes'[l] = DOMAIN sizes[l]
         /\ \A l \in 1..layer : \A p : OldPos(l, p)' = OldPos(l, p)
<1>1. /\ UNCHANGED <<layer, pos, pruned, skipped, beyond, pruning>>
      /\ layer \in Nat /\ layer > 0 /\ pruning = "no" /\ todo = {}
      /\ phase = "reductions" /\ phase' = "dominate"
  BY DomainFacts DEF Propagate, Quiet, worklists, Shape, Hierarchy
<1>2. PICK s : sizes' = [sizes EXCEPT ![layer][pos] = s]
  BY Zenon DEF Propagate
<1>3. DOMAIN sizes = 0..layer
  BY DEF Shape, Hierarchy
<1>4. \A l \in 0..layer : DOMAIN sizes'[l] = DOMAIN sizes[l]
  BY <1>2, <1>3
<1>5. \A l \in 0..layer-1 : sizes'[l] = sizes[l]
  BY <1>1, <1>2, <1>3
<1>6. ASSUME NEW l \in 1..layer PROVE \A p : OldPos(l, p)' = OldPos(l, p)
  <2>1. l-1 \in Nat /\ l-1 \in 0..layer-1 /\ (l-1)+1 = l
    BY <1>1
  <2>2. \A k \in Nat : sizes'[k] = sizes[k] => \A p : OldPos(k+1, p)' = OldPos(k+1, p)
    BY StablePositions
  <2>3. \A p : OldPos((l-1)+1, p)' = OldPos((l-1)+1, p)
    BY <1>5, <2>1, <2>2
  <2> QED BY <2>1, <2>3
<1> QED BY <1>1, <1>4, <1>6

\* Propagation makes nothing impossible; what it leaves without children it
\* hands over to be pruned.
LEMMA PropagateExact ==
  ASSUME Shape, Shape', Book, Book', Ancestry, Ancestry', ExactInv, Propagate
  PROVE  ExactInv'
<1>1. PICK new, links :
        /\ ops' = ops \cup new /\ known' = known \cup new
        /\ exp' = exp \cup links /\ pred' = pred \cup links /\ made' = made \cup links
        /\ \A n \in new : n \notin known /\ n.layer = layer /\ n.pos = pos
        /\ \A e \in links : e[2] \in new /\ Parent(e)' \in ops
        /\ \A n \in new : \E e \in links : e[2] = n
        /\ \A e \in Links : Parent(e)' = Parent(e) /\ Parent(e).layer # layer
        /\ IsFiniteSet(new)
        /\ todo' = {n \in Above : \A e \in links : e[1] # n.op}
  BY PropagateFacts
<1>2. /\ UNCHANGED <<layer, pos, pruned, skipped, beyond, pruning>>
      /\ layer \in Nat /\ layer > 0 /\ pruning = "no" /\ todo = {}
      /\ phase = "reductions" /\ phase' = "dominate"
      /\ \A l \in 0..layer : DOMAIN sizes'[l] = DOMAIN sizes[l]
      /\ \A l \in 1..layer : \A p : OldPos(l, p)' = OldPos(l, p)
  BY PropagatePlaces
<1>3. ~beyond' => ~beyond /\ Alive = ops /\ Alive' = ops'
  <2>1. AtRest /\ AtRest'
    BY <1>2 DEF AtRest
  <2> QED BY <1>2, <2>1, RestLinks, RestLinksNext
<1>4. \A n \in known : n.layer \in Nat /\ n.pos \in Nat /\ ~(n.layer = layer /\ n.pos = pos)
  BY <1>2, KnownPlaces DEF Shape, Fresh
<1>5. /\ Replaceable = {} /\ Replaceable' = new
  BY <1>1, <1>2, <1>4 DEF Replaceable
<1>6. \A e \in made : e[2] \in known /\ e \notin links /\ Parent(e)' = Parent(e)
  BY <1>1, LinkPlace DEF Shape, Elements
<1>7. \A e \in links : /\ Parent(e)'.op = e[1] /\ e[2] \in new
                       /\ Parent(e)'.layer = layer-1 /\ Parent(e)'.pos = OldPos(layer, pos)
  <2> SUFFICES ASSUME NEW e \in links
               PROVE  /\ Parent(e)'.op = e[1] /\ e[2] \in new
                      /\ Parent(e)'.layer = layer-1 /\ Parent(e)'.pos = OldPos(layer, pos)
    OBVIOUS
  <2>1. e[2] \in new /\ e[2].layer = layer /\ e[2].pos = pos
    BY <1>1
  <2>2. OldPos(layer, pos)' = OldPos(layer, pos)
    BY <1>2
  <2> QED BY <1>2, <2>1, <2>2 DEF Parent, Node
<1>8. \A n \in Above : n = Node(layer-1, OldPos(layer, pos), n.op) /\ n \in ops
                       /\ n.layer = layer-1 /\ n.pos = OldPos(layer, pos)
  BY <1>2, AboveFacts DEF Shape
<1>9. ASSUME NEW l \in Nat, NEW p \in Nat, Propagated(l, p)
      PROVE  Propagated(l, p)' /\ ~(l = layer /\ p = pos)
  BY <1>2, <1>9, KnownPlaces DEF Propagated
<1>10. ASSUME NEW l \in Nat, NEW p \in Nat, Propagated(l, p)', ~(l = layer /\ p = pos)
      PROVE  Propagated(l, p)
  BY <1>2, <1>10, KnownPlaces DEF Propagated
<1>11. LayerDone'
  BY <1>2 DEF LayerDone
<1>12. FreshInv'
  <2> SUFFICES ASSUME ~beyond', NEW m \in todo' PROVE Barren(m)'
    BY <1>1, <1>2, <1>3, <1>5 DEF FreshInv
  <2>1. /\ m \in Above /\ m.layer = layer-1 /\ m.pos = OldPos(layer, pos)
        /\ \A e \in links : e[1] # m.op
    BY <1>1, <1>8
  <2>2. OldPos(layer, pos)' = OldPos(layer, pos)
    BY <1>2
  <2>3. ASSUME NEW e \in made', e[2].layer = layer, e[2].pos = pos PROVE Parent(e)' # m
    <3>1. e \in links
      BY <1>1, <1>4, <1>6, <2>3
    <3> QED BY <1>7, <2>1, <3>1
  <2> QED BY <1>2, <2>1, <2>2, <2>3 DEF Barren
<1>13. OnlyImpossible'
  <2> SUFFICES ASSUME ~beyond', NEW C \in SUBSET known', pruned \subseteq C, Closed(C)'
               PROVE  known' \ ops' \subseteq C
    BY <1>2, <1>3 DEF OnlyImpossible
  <2>1. PICK B : B = C \cap known
    OBVIOUS
  <2>2. ASSUME NEW n \in known, Starved(n, B) PROVE n \in B
    <3>1. n.layer < layer /\ n.layer \in Nat
      BY <2>2, <1>4 DEF Starved
    <3>2. PICK p \in DOMAIN sizes[n.layer+1] :
            /\ Propagated(n.layer+1, p) /\ OldPos(n.layer+1, p) = n.pos
            /\ \A e \in made : e[1] = n.op /\ e[2].layer = n.layer+1 /\ e[2].pos = p => e[2] \in B
      BY <2>2, Zenon DEF Starved
    <3>3. n.layer+1 \in 0..layer /\ n.layer+1 \in 1..layer /\ n.layer+1 \in Nat
      BY <1>2, <3>1
    <3>4. p \in Nat
      BY <3>2, <3>3, KnownPlaces
    <3>5. /\ p \in DOMAIN sizes'[n.layer+1] /\ Propagated(n.layer+1, p)'
          /\ OldPos(n.layer+1, p)' = n.pos /\ ~(n.layer+1 = layer /\ p = pos)
      BY <1>2, <1>9, <3>2, <3>3, <3>4
    <3>6. ASSUME NEW e \in made', e[1] = n.op, e[2].layer = n.layer+1, e[2].pos = p
          PROVE  e[2] \in C
      <4>1. e \in made
        BY <1>1, <3>5, <3>6
      <4> QED BY <2>1, <3>2, <3>6, <4>1
    <3>7. Starved(n, C)'
      BY <1>2, <3>1, <3>5, <3>6 DEF Starved
    <3> QED BY <1>1, <2>1, <3>7 DEF Closed
  <2>3. ASSUME NEW n \in known, Orphaned(n, B) PROVE n \in B
    <3>1. n.layer \in 1..layer /\ n.layer > 0
      BY <1>2, <2>3, KnownPlaces DEF Orphaned
    <3>2. OldPos(n.layer, n.pos)' = OldPos(n.layer, n.pos)
      BY <1>2, <3>1
    <3>3. \A e \in made' : e[2] = n => e \in made
      BY <1>1
    <3>4. Orphaned(n, C)'
      BY <2>1, <2>3, <3>1, <3>2, <3>3 DEF Orphaned, Node
    <3> QED BY <1>1, <2>1, <3>4 DEF Closed
  <2>4. Closed(B)
    BY <2>2, <2>3 DEF Closed
  <2>5. pruned \subseteq B /\ B \in SUBSET known
    BY <2>1 DEF Shape, Elements
  <2>6. known \ ops \subseteq B
    BY <1>3, <2>4, <2>5 DEF ExactInv, OnlyImpossible
  <2> QED BY <1>1, <2>1, <2>6
<1>14. AllImpossible'
  <2> SUFFICES ASSUME ~beyond', skipped = {}, Agreed'
               PROVE  (\A n \in ops' : Fed(n)') /\ pruned \cap ops' = {}
    BY <1>2, <1>3 DEF AllImpossible
  <2>1. Agreed
    <3> SUFFICES ASSUME NEW n \in known PROVE AgreeAt(n)
      BY DEF Agreed
    <3>1. AgreeAt(n)'
      <4>1. n \in known' \ Replaceable'
        BY <1>1, <1>5
      <4> QED BY <4>1 DEF Agreed
    <3> SUFFICES ASSUME NEW e \in made, NEW f \in made, e[2] = n, f[2] = n,
                        NEW x \in made, x[1] = e[1], x[2].layer = n.layer, x[2].pos = n.pos
                 PROVE  \E y \in made : y[1] = f[1] /\ y[2] = x[2]
      BY DEF AgreeAt
    <3>2. e \in made' /\ f \in made' /\ x \in made'
      BY <1>1
    <3>3. PICK y \in made' : y[1] = f[1] /\ y[2] = x[2]
      BY <3>1, <3>2 DEF AgreeAt
    <3>4. y \in made
      BY <1>1, <1>6, <3>3
    <3> QED BY <3>3, <3>4
  <2>2. (\A n \in ops : Fed(n)) /\ pruned \cap ops = {}
    BY <1>2, <1>3, <2>1 DEF ExactInv, AllImpossible
  <2>3. pruned \cap ops' = {}
    BY <1>1, <2>2 DEF Shape, Elements
  <2>4. ASSUME NEW n \in ops' PROVE Fed(n)'
    <3> SUFFICES ASSUME NEW p \in Nat, n.layer < layer, p \in DOMAIN sizes'[n.layer+1],
                        Propagated(n.layer+1, p)', OldPos(n.layer+1, p)' = n.pos
                 PROVE  \/ \E e \in made' : Parent(e)' = n /\ e[2].pos = p /\ e[2] \in ops'
                        \/ n.layer+1 = layer /\ p = pos /\ n \in todo'
      BY <1>2, <1>3 DEF Fed, Pending
    <3>1. n \in ops
      BY <1>1, <1>2
    <3>2. n \in known /\ n.layer \in Nat /\ n.layer+1 \in 1..layer /\ n.layer+1 \in 0..layer
      BY <1>2, <1>4, <3>1 DEF Shape, Elements
    <3>3. OldPos(n.layer+1, p) = n.pos /\ p \in DOMAIN sizes[n.layer+1] /\ n.layer+1 \in Nat
      BY <1>2, <3>2
    <3>4. CASE n.layer+1 = layer /\ p = pos
      <4>1. n \in Above
        BY <1>2, <3>1, <3>2, <3>3, <3>4 DEF Above, At
      <4>2. CASE \A e \in links : e[1] # n.op
        BY <1>1, <3>4, <4>1, <4>2
      <4>3. CASE \E e \in links : e[1] = n.op
        <5>1. PICK e \in links : e[1] = n.op
          BY <4>3
        <5>2. Parent(e)' = n
          <6>1. Parent(e)' = Node(layer-1, OldPos(layer, pos), e[1])
            <7>1. e[2].layer = layer /\ e[2].pos = pos
              BY <1>1
            <7>2. OldPos(layer, pos)' = OldPos(layer, pos)
              BY <1>2
            <7>3. Parent(e)' = Node(e[2].layer-1, OldPos(e[2].layer, e[2].pos)', e[1])
              BY Zenon DEF Parent
            <7>4. OldPos(e[2].layer, e[2].pos)' = OldPos(layer, pos)'
              BY <1>2, <7>1, Zenon
            <7> QED BY <7>1, <7>2, <7>3, <7>4, Zenon
          <6>2. n = Node(layer-1, OldPos(layer, pos), n.op)
            BY <1>8, <4>1
          <6> QED BY <5>1, <6>1, <6>2
        <5> QED BY <1>1, <3>4, <5>1, <5>2
      <4> QED BY <4>2, <4>3
    <3>5. CASE ~(n.layer+1 = layer /\ p = pos)
      <4>1. Propagated(n.layer+1, p)
        BY <1>10, <3>3, <3>5
      <4>2. PICK e \in made : Parent(e) = n /\ e[2].pos = p /\ e[2] \in ops
        BY <1>2, <1>3, <2>2, <3>1, <3>3, <3>5, <4>1 DEF Fed
      <4> QED BY <1>1, <1>6, <4>2
    <3> QED BY <3>4, <3>5
  <2> QED BY <2>3, <2>4
<1> QED BY <1>11, <1>12, <1>13, <1>14 DEF ExactInv

\* Domination makes nothing impossible: an operation that takes the place of
\* another can be reached wherever that could.
LEMMA DominateExact ==
  ASSUME Shape, Shape', Book, Book', Ancestry, Ancestry', ExactInv, Dominate
  PROVE  ExactInv'
<1>1. PICK gone \in SUBSET At(layer, pos) : \E By \in [gone -> At(layer, pos) \ gone] :
           /\ ops' = ops \ gone
           /\ known' = known \ gone
           /\ exp' = Staying(exp, gone) \cup Moving(pred, gone, By)
           /\ pred' = Staying(pred, gone) \cup Moving(pred, gone, By)
           /\ made' = Staying(made, gone) \cup Moving(made, gone, By)
  BY DominateFacts DEF Shape
<1>2. PICK By \in [gone -> At(layer, pos) \ gone] :
           /\ ops' = ops \ gone
           /\ known' = known \ gone
           /\ made' = Staying(made, gone) \cup Moving(made, gone, By)
  BY <1>1
<1>3. /\ UNCHANGED <<layer, sizes, pruned, skipped, beyond, pruning, todo>>
      /\ pruning = "no" /\ todo = {} /\ phase = "dominate"
      /\ \/ pos = Last(layer) /\ phase' = "encode" /\ pos' = pos
         \/ phase' = "left" /\ pos' = pos + 1
  BY DEF Dominate, Quiet, worklists
<1>4. /\ \A l, p : OldPos(l, p)' = OldPos(l, p)
      /\ \A l : Last(l)' = Last(l)
      /\ \A e : Parent(e)' = Parent(e)
  BY <1>3, SamePositions
<1>5. layer \in Nat /\ pos \in Nat /\ \A n \in known : n.layer \in Nat /\ n.layer \in 0..layer
  BY KnownPlaces
<1>6. ~beyond' => ~beyond /\ Alive = ops /\ Alive' = ops'
  <2>1. AtRest /\ AtRest'
    BY <1>3 DEF AtRest
  <2> QED BY <1>3, <2>1, RestLinks, RestLinksNext
<1>7. ASSUME NEW l, NEW p \in Nat PROVE Propagated(l, p)' <=> Propagated(l, p)
  BY <1>3, <1>5 DEF Propagated
<1>8. /\ ops \subseteq known /\ pruned \subseteq known /\ gone \subseteq ops
      /\ \A n \in gone : n.layer = layer /\ n.pos = pos
  BY DEF Shape, Elements, At
<1>9. ASSUME NEW e \in made' PROVE
        \/ e \in made /\ e[2] \notin gone
        \/ /\ e[2].layer = layer /\ e[2].pos = pos
           /\ \E x \in made : x[1] = e[1] /\ x[2] \in gone /\ Parent(x) = Parent(e)
  <2>1. CASE e \in Staying(made, gone)
    BY <2>1 DEF Staying
  <2>2. CASE e \in Moving(made, gone, By)
    <3>1. made \in SUBSET Links
      BY DEF Shape, Elements
    <3>2. /\ e[2] \in At(layer, pos) \ gone
          /\ \E x \in made : x[1] = e[1] /\ x[2] \in gone /\ Parent(x) = Parent(e)
      BY <2>2, <3>1, MovedLink DEF Shape
    <3> QED BY <3>2 DEF At
  <2> QED BY <1>2, <2>1, <2>2
<1>10. ASSUME NEW e \in made, e[2] \notin gone PROVE e \in made'
  BY <1>2, <1>10 DEF Staying
<1>11. ASSUME NEW e \in made, e[2] \in gone
       PROVE  \E x \in made' : /\ x[2] \in ops' /\ x[2].layer = layer /\ x[2].pos = pos
                               /\ Parent(x) = Parent(e)
  <2>1. PICK x : x = <<e[1], By[e[2]]>>
    OBVIOUS
  <2>2. x \in Moving(made, gone, By)
    BY <1>11, <2>1 DEF Moving
  <2>3. x \in made'
    BY <1>2, <2>2
  <2>4. x[1] = e[1] /\ x[2] = By[e[2]] /\ By[e[2]] \in At(layer, pos) \ gone
    BY <1>11, <2>1
  <2>5. x[2] \in ops' /\ x[2].layer = layer /\ x[2].pos = pos
    BY <1>2, <2>4 DEF At
  <2>6. Parent(x) = Parent(e)
    BY <1>8, <1>11, <2>4, <2>5, Zenon DEF Parent
  <2> QED BY <2>3, <2>5, <2>6
<1>12. LayerDone'
  BY <1>3, <1>4 DEF LayerDone
<1>13. FreshInv'
  BY <1>3 DEF FreshInv
<1>14. Replaceable' = {} /\ Replaceable = {n \in known : n.layer = layer /\ n.pos = pos}
  BY <1>3 DEF Replaceable
<1>15. OnlyImpossible'
  <2> SUFFICES ASSUME ~beyond', NEW C \in SUBSET known', pruned \subseteq C, Closed(C)'
               PROVE  known' \ ops' \subseteq C
    BY <1>3, <1>6 DEF OnlyImpossible
  <2>1. PICK B : B = {n \in known : IF n \in Replaceable
                                    THEN \A e \in made : e[2] = n => Parent(e) \in C
                                    ELSE n \in C}
    OBVIOUS
  <2>2. /\ \A n \in Replaceable : n \in B => \A e \in made : e[2] = n => Parent(e) \in C
        /\ \A n \in known \ Replaceable : n \in B <=> n \in C
    BY <1>14, <2>1
  <2>3. ASSUME NEW n \in known, Starved(n, B) PROVE n \in B
    <3>1. n.layer < layer
      BY <2>3 DEF Starved
    <3>2. PICK p \in DOMAIN sizes[n.layer+1] :
            /\ Propagated(n.layer+1, p) /\ OldPos(n.layer+1, p) = n.pos
            /\ \A e \in made : Parent(e) = n /\ e[2].pos = p => e[2] \in B
      BY <2>3, StarvedIs
    <3>3. n.layer+1 \in 0..layer /\ n \notin Replaceable /\ n \in known'
      BY <1>2, <1>5, <1>8, <1>14, <3>1
    <3>4. p \in Nat
      BY <3>3, KnownPlaces
    <3>5. ASSUME n \notin C PROVE FALSE
      <4>1. ASSUME NEW e \in made', Parent(e) = n, e[2].pos = p PROVE e[2] \in C
        <5>1. CASE e \in made /\ e[2] \notin gone
          <6>1. e[2] \in B /\ e[2] \in known
            BY <3>2, <4>1, <5>1, LinkPlace
          <6>2. e[2] \notin Replaceable
            BY <2>2, <3>5, <4>1, <5>1, <6>1
          <6> QED BY <2>2, <6>1, <6>2
        <5>2. CASE /\ e[2].layer = layer /\ e[2].pos = pos
                   /\ \E x \in made : x[1] = e[1] /\ x[2] \in gone /\ Parent(x) = Parent(e)
          <6>1. PICK x \in made : x[2] \in gone /\ Parent(x) = Parent(e)
            BY <5>2
          <6>2. x[2].pos = p /\ x[2] \in Replaceable
            BY <1>8, <1>14, <4>1, <5>2, <6>1
          <6>3. x[2] \in B
            BY <3>2, <4>1, <6>1, <6>2
          <6>4. n \in C
            BY <2>2, <4>1, <6>1, <6>2, <6>3
          <6> QED BY <3>5, <6>4
        <5> QED BY <1>9, <5>1, <5>2
      <4>2. ASSUME NEW e \in made', e[1] = n.op, e[2].layer = n.layer+1, e[2].pos = p
            PROVE  Parent(e) = n
        <5>1. CASE e \in made
          BY <3>2, <4>2, <5>1, ParentIs
        <5>2. CASE /\ e[2].layer = layer /\ e[2].pos = pos
                   /\ \E x \in made : x[1] = e[1] /\ x[2] \in gone /\ Parent(x) = Parent(e)
          <6>1. PICK x \in made : x[1] = e[1] /\ x[2] \in gone /\ Parent(x) = Parent(e)
            BY <5>2
          <6>2. x[2].layer = n.layer+1 /\ x[2].pos = p /\ x[1] = n.op
            BY <1>8, <4>2, <5>2, <6>1
          <6>3. Parent(x) = n
            BY <3>2, <6>2, ParentIs
          <6> QED BY <6>1, <6>3
        <5> QED BY <1>9, <5>1, <5>2
      <4>3. Starved(n, C)'
        BY <1>3, <1>4, <1>7, <3>1, <3>2, <3>4, <4>1, <4>2 DEF Starved
      <4> QED BY <3>3, <3>5, <4>3 DEF Closed
    <3> QED BY <2>2, <3>3, <3>5
  <2>4. ASSUME NEW n \in known, Orphaned(n, B) PROVE n \in B
    <3>1. n.layer > 0 /\ \A e \in made : e[2] = n => Parent(e) \in B
      BY <2>4, OrphanedIs
    <3>2. \A e \in made : e[2] = n => Parent(e) \in C
      <4> SUFFICES ASSUME NEW e \in made, e[2] = n PROVE Parent(e) \in C
        OBVIOUS
      <4>1. Parent(e) \in known /\ Parent(e).layer # layer
        BY <1>5, LinkPlace
      <4> QED BY <1>14, <2>2, <3>1, <4>1
    <3>3. CASE n \in Replaceable
      BY <2>1, <3>2, <3>3
    <3>4. CASE n \notin Replaceable
      <4>1. n \in known'
        BY <1>2, <1>8, <1>14, <3>4
      <4>2. \A e \in made' : e[2] = n => e \in made
        BY <1>9, <1>14, <3>4
      <4>3. \A e \in made : e[2] = n => Node(n.layer-1, OldPos(n.layer, n.pos), e[1]) \in C
        BY <3>2, Zenon DEF Parent
      <4>4. OldPos(n.layer, n.pos)' = OldPos(n.layer, n.pos)
        BY <1>4
      <4>5. Orphaned(n, C)'
        BY <3>1, <4>2, <4>3, <4>4 DEF Orphaned, Node
      <4> QED BY <2>2, <3>4, <4>1, <4>5 DEF Closed
    <3> QED BY <3>3, <3>4
  <2>5. Closed(B) /\ B \in SUBSET known
    BY <2>1, <2>3, <2>4 DEF Closed
  <2>6. pruned \subseteq B
    <3> SUFFICES ASSUME NEW n \in pruned PROVE n \in B
      OBVIOUS
    <3>1. n \notin Replaceable
      BY <1>3, <1>14 DEF Shape, Fresh, Touched
    <3> QED BY <1>8, <2>2, <3>1
  <2>7. known \ ops \subseteq B /\ Replaceable \subseteq ops
    BY <1>3, <1>6, <2>5, <2>6 DEF ExactInv, OnlyImpossible, FreshInv
  <2> QED BY <1>2, <2>2, <2>7
<1>16. AllImpossible'
  <2> SUFFICES ASSUME ~beyond', skipped = {}, Agreed'
               PROVE  (\A n \in ops' : Fed(n)') /\ pruned \cap ops' = {}
    BY <1>3, <1>6 DEF AllImpossible
  <2>1. Agreed
    <3> SUFFICES ASSUME NEW n \in known \ Replaceable PROVE AgreeAt(n)
      BY DEF Agreed
    <3>1. n \in known' /\ ~(n.layer = layer /\ n.pos = pos)
      BY <1>2, <1>8, <1>14
    <3>2. AgreeAt(n)'
      BY <1>14, <3>1 DEF Agreed
    <3> SUFFICES ASSUME NEW e \in made, NEW f \in made, e[2] = n, f[2] = n,
                        NEW x \in made, x[1] = e[1], x[2].layer = n.layer, x[2].pos = n.pos
                 PROVE  \E y \in made : y[1] = f[1] /\ y[2] = x[2]
      BY DEF AgreeAt
    <3>3. e[2] \notin gone /\ f[2] \notin gone /\ x[2] \notin gone
      BY <1>8, <3>1
    <3>4. e \in made' /\ f \in made' /\ x \in made'
      BY <1>10, <3>3
    <3>5. PICK y \in made' : y[1] = f[1] /\ y[2] = x[2]
      BY <3>2, <3>4 DEF AgreeAt
    <3>6. y \in made
      BY <1>9, <3>1, <3>5
    <3> QED BY <3>5, <3>6
  <2>2. (\A n \in ops : Fed(n)) /\ pruned \cap ops = {}
    BY <1>3, <1>6, <2>1 DEF ExactInv, AllImpossible
  <2>3. ASSUME NEW n \in ops' PROVE Fed(n)'
    <3> SUFFICES ASSUME NEW p \in Nat, n.layer < layer, p \in DOMAIN sizes[n.layer+1],
                        Propagated(n.layer+1, p), OldPos(n.layer+1, p) = n.pos
                 PROVE  \E e \in made' : Parent(e) = n /\ e[2].pos = p /\ e[2] \in ops'
      BY <1>3, <1>4, <1>6, <1>7 DEF Fed
    <3>1. n \in ops /\ Pending = {}
      BY <1>2, <1>3 DEF Pending
    <3>2. PICK e \in made : Parent(e) = n /\ e[2].pos = p /\ e[2] \in ops
      BY <1>6, <1>3, <2>2, <3>1 DEF Fed
    <3>3. CASE e[2] \notin gone
      BY <1>2, <1>10, <3>2, <3>3
    <3>4. CASE e[2] \in gone
      BY <1>8, <1>11, <3>2, <3>4
    <3> QED BY <3>3, <3>4
  <2> QED BY <1>2, <2>2, <2>3
<1> QED BY <1>12, <1>13, <1>15, <1>16 DEF ExactInv

-----------------------------------------------------------------------------
(* The theorem.                                                            *)
\* At first nothing has been propagated or pruned.
LEMMA InitExact == Init => ExactInv /\ OpPruned
<1> SUFFICES ASSUME Init PROVE ExactInv /\ OpPruned
  OBVIOUS
<1>1. /\ layer = 0 /\ pos = 1 /\ phase = "layer" /\ made = {} /\ known = ops /\ pruned = {}
      /\ pruning = "no"
  BY DEF Init
<1>2. sizes[0] \in [{0, 1} -> Nat \ {0}] /\ DOMAIN sizes[0] = {0, 1}
  <2>1. Shape
    BY InitShape
  <2>2. DOMAIN sizes[0] = {0, 1}
    BY DEF Init
  <2>3. Row(0)
    BY <1>1, <2>1 DEF Shape, Hierarchy
  <2> QED BY <2>2, <2>3 DEF Row
<1>3. Shape
  BY InitShape
<1>4. LayerDone
  <2>1. Row(0) /\ DOMAIN sizes[0] = 0..Last(0) /\ Last(0) \in Nat
    BY <1>1, <1>3, LastOfRow DEF Shape, Hierarchy
  <2>2. Last(0) = 1
    <3>1. 0..Last(0) = {0, 1}
      BY <1>2, <2>1, Zenon
    <3>2. 1 \in 0..Last(0)
      BY <3>1
    <3>3. Last(0) \in 0..Last(0)
      BY <2>1
    <3>4. Last(0) \in {0, 1}
      BY <3>1, <3>3
    <3> QED BY <2>1, <3>2, <3>4
  <2> QED BY <1>1, <2>2 DEF LayerDone
<1>5. FreshInv /\ OpPruned
  BY <1>1 DEF FreshInv, OpPruned
<1>6. Going = {} /\ Alive = ops
  BY <1>1, GoingIsNot DEF Alive
<1>7. OnlyImpossible
  BY <1>1, <1>6 DEF OnlyImpossible
<1>8. AllImpossible
  <2>1. ASSUME NEW n \in known PROVE Fed(n)
    <3>1. n.layer \in Nat
      BY <1>3, KnownPlaces
    <3>2. ~(n.layer < layer)
      BY <1>1, <3>1
    <3> QED BY <3>2 DEF Fed
  <2> QED BY <1>1, <1>6, <2>1 DEF AllImpossible
<1> QED BY <1>4, <1>5, <1>7, <1>8 DEF ExactInv

\* The argument of prune counts as pruned from its first step.
LEMMA NextOpPruned == OpPruned /\ [Next]_vars => OpPruned'
<1> SUFFICES ASSUME OpPruned, [Next]_vars PROVE OpPruned'
  OBVIOUS
<1>1. CASE StartPrune
  BY <1>1 DEF StartPrune, OpPruned
<1>2. CASE Return
  BY <1>2 DEF Return, OpPruned
<1>3. CASE CreateNextPosition \/ Encode \/ NextLayer
  BY <1>3 DEF CreateNextPosition, PruneLeft, PruneAbove, Propagate, Dominate, Encode, NextLayer,
              Quiet, worklists, OpPruned
<1>4. CASE PruneUp \/ RootsFound \/ PruneDown
  BY <1>4 DEF PruneUp, RootsFound, PruneDown, history, OpPruned
<1>5. CASE UNCHANGED vars
  BY <1>5 DEF vars, worklists, history, OpPruned
<1> QED BY <1>1, <1>2, <1>3, <1>4, <1>5 DEF Next, Step, Prune, Finished

\* One step per action.
LEMMA NextExact ==
  ASSUME Shape, Shape', Book, Book', Ancestry, Ancestry', UpInv, ExactInv, OpPruned, [Next]_vars
  PROVE  ExactInv' /\ OpPruned'
<1>1. OpPruned'
  BY NextOpPruned
<1>2. CASE PruneLeft \/ PruneAbove \/ Encode
  BY <1>1, <1>2, CallersExact
<1>3. CASE Propagate
  BY <1>1, <1>3, PropagateExact
<1>4. CASE Dominate
  BY <1>1, <1>4, DominateExact
<1>5. CASE NextLayer
  BY <1>1, <1>5, NextLayerExact
<1>6. CASE StartPrune
  BY <1>1, <1>6, StartPruneExact
<1>7. CASE PruneUp
  BY <1>1, <1>7, PruneUpExact
<1>8. CASE RootsFound
  BY <1>1, <1>8, RootsFoundExact
<1>9. CASE PruneDown
  BY <1>1, <1>9, PruneDownExact
<1>10. CASE Return
  BY <1>1, <1>10, ReturnExact
<1>11. CASE UNCHANGED vars
  BY <1>1, <1>11, StutterExact
<1> QED BY <1>2, <1>3, <1>4, <1>5, <1>6, <1>7, <1>8, <1>9, <1>10, <1>11
        DEF Next, Step, CreateNextPosition, Prune, Finished

\* Whatever the order of its worklists, prune leaves in the hierarchy exactly
\* the operations that can still be part of a decomposition, given what has
\* been propagated so far.
THEOREM PruningIsExact == Spec => []PruneExact
<1>1. Init => Ancestry /\ UpInv /\ ExactInv /\ OpPruned
  BY InitAncestry, InitUp, InitExact
<1>2. Shape /\ Shape' /\ Book /\ Book' /\ (Ancestry /\ UpInv /\ ExactInv /\ OpPruned) /\ [Next]_vars
        => (Ancestry /\ UpInv /\ ExactInv /\ OpPruned)'
  BY NextAncestry, NextUp, NextExact
<1>3. Shape /\ Book /\ Ancestry /\ ExactInv => PruneExact
  BY ExactFollows
<1> QED BY <1>1, <1>2, <1>3, BookHolds, PTL DEF Spec
=============================================================================
