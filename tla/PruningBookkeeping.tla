-------------------------- MODULE PruningBookkeeping --------------------------
(***************************************************************************)
(* Proofs about the two maps and the worklists of prune, for every domain  *)
(* and number of layers: the maps agree at rest, and the assertions of the *)
(* code hold while prune runs.  The second rests on the path from the      *)
(* argument of prune up to the first layer: on it, prune only removes      *)
(* operations whose children towards the argument are all taken, so that   *)
(* it never removes an operation the caller still holds.                   *)
(***************************************************************************)
EXTENDS RetroactivePruningProofs

-----------------------------------------------------------------------------
(* The invariant.                                                          *)

LinkInv ==
  /\ \A e \in exp : e[2] \in ops
  /\ pred \subseteq exp
  /\ \A e \in exp \ pred : Parent(e) \notin ops
  /\ ~beyond => \A e \in pred : Parent(e) \in ops \/ (pruning = "down" /\ e[2] \in remove)

\* The positions above an operation's, up to the first layer.
Paths(n) ==
  {f \in [0 .. n.layer -> Nat] :
     f[n.layer] = n.pos /\ \A l \in 0 .. n.layer-1 : f[l] = OldPos(l+1, f[l+1])}

OnPath(f, x) == x.layer <= op.layer /\ x.pos = f[x.layer]

\* x is the argument of prune, or all its children towards it are taken.
Covered(f, x) ==
  \/ x = op
  \/ x.layer < op.layer /\ \A y \in Children(x, {f[x.layer+1]}) : <<x, y>> \in taken

Cone ==
  \A f \in Paths(op) :
    /\ \A x \in open \cup remove \cup {t[2] : t \in taken} :
         OnPath(f, x) => Covered(f, x)
    /\ pruning = "up" => \A x \in open \cup remove : OnPath(f, x)

WorkInv ==
  /\ todo \subseteq ops
  /\ \A m, n \in todo : m.layer = n.layer /\ m.pos = n.pos
  /\ pruning # "no" =>
       /\ op \notin todo
       /\ \A n \in todo : n.layer = op.layer /\ n.pos = op.pos
       /\ Cone
  /\ ~beyond => open \subseteq ops
  /\ ~beyond => remove \subseteq ops

-----------------------------------------------------------------------------
(* Paths upwards.                                                          *)

\* From every operation there is a way up to the first layer.
LEMMA PathExists ==
  ASSUME Hierarchy, NEW n \in Nodes
  PROVE  \E f : f \in Paths(n)
<1> DEFINE Way(l, p) == \E f \in [0..l -> Nat] :
                           f[l] = p /\ \A k \in 0..l-1 : f[k] = OldPos(k+1, f[k+1])
           Bad == {l \in 0..layer : \E p \in Nat : ~Way(l, p)}
<1>1. layer \in Nat
  BY DomainFacts DEF Hierarchy
<1>2. \A l \in 0..layer-1 : \A p \in Nat : OldPos(l+1, p) \in Nat
  <2> SUFFICES ASSUME NEW l \in 0..layer-1, NEW p \in Nat PROVE OldPos(l+1, p) \in Nat
    OBVIOUS
  <2>1. l \in Nat /\ Row(l)
    BY <1>1 DEF Hierarchy
  <2>2. OldPos(l+1, p) \in DOMAIN sizes[l]
    BY <2>1, OldPosFacts
  <2> QED BY <2>1, <2>2, LastOfRow
<1>3. Bad = {}
  <2> SUFFICES ASSUME Bad # {} PROVE FALSE
    OBVIOUS
  <2>1. Bad \subseteq Nat
    BY <1>1
  <2> HIDE DEF Bad
  <2>2. PICK l \in Bad : \A k \in Bad : l <= k
    BY <2>1, LeastNumber
  <2> USE DEF Bad
  <2>3. PICK p \in Nat : ~Way(l, p)
    BY <2>2
  <2>4. l \in 0..layer
    BY <2>2
  <2> HIDE DEF Bad
  <2>5. l # 0
    <3> SUFFICES ASSUME l = 0 PROVE FALSE
      OBVIOUS
    <3> DEFINE f == [k \in 0..0 |-> p]
    <3>1. f \in [0..0 -> Nat] /\ f[0] = p /\ 0..0-1 = {}
      OBVIOUS
    <3> QED BY <2>3, <3>1
  <2>6. l-1 \in 0..layer-1 /\ l-1 \in 0..layer /\ l-1 \in Nat /\ (l-1)+1 = l /\ ~(l <= l-1)
    BY <1>1, <2>4, <2>5
  <2>7. l-1 \notin Bad
    BY <2>2, <2>6
  <2>8. OldPos(l, p) \in Nat
    <3>1. OldPos((l-1)+1, p) \in Nat
      BY <1>2, <2>6
    <3> QED BY <2>6, <3>1
  <2>9. Way(l-1, OldPos(l, p))
    BY <2>6, <2>7, <2>8 DEF Bad
  <2>10. PICK g \in [0..l-1 -> Nat] :
           g[l-1] = OldPos(l, p) /\ \A k \in 0..(l-1)-1 : g[k] = OldPos(k+1, g[k+1])
    BY <2>9
  <2> DEFINE f == [k \in 0..l |-> IF k = l THEN p ELSE g[k]]
  <2>11. \A k \in 0..l : k # l => k \in 0..l-1
    BY <2>4
  <2>12. f \in [0..l -> Nat] /\ f[l] = p
    BY <2>4, <2>10, <2>11
  <2>13. ASSUME NEW k \in 0..l-1 PROVE f[k] = OldPos(k+1, f[k+1])
    <3>1. k \in 0..l /\ k # l /\ k+1 \in 0..l /\ f[k] = g[k]
      BY <2>4
    <3>2. CASE k = l-1
      <4>1. k+1 = l
        BY <2>4, <3>2
      <4>2. g[k] = OldPos(l, p)
        BY <2>10, <3>2
      <4> QED BY <2>12, <3>1, <4>1, <4>2
    <3>3. CASE k # l-1
      <4>1. k \in 0..(l-1)-1 /\ k+1 # l
        BY <2>4, <3>3
      <4>2. f[k+1] = g[k+1]
        BY <3>1, <4>1
      <4> QED BY <2>10, <3>1, <4>1, <4>2
    <3> QED BY <3>2, <3>3
  <2> HIDE DEF f
  <2>14. Way(l, p)
    BY <2>12, <2>13
  <2> QED BY <2>3, <2>14
<1>4. n.layer \in 0..layer /\ n.pos \in Nat
  BY DEF Nodes
<1>5. Way(n.layer, n.pos)
  BY <1>3, <1>4
<1> QED BY <1>5, Zenon DEF Paths

\* While the sizes stay, so do the paths.
LEMMA SamePaths ==
  ASSUME sizes' = sizes, op' = op
  PROVE  Paths(op)' = Paths(op)
<1>1. \A l, p : OldPos(l, p)' = OldPos(l, p)
  BY SamePositions
<1> QED BY <1>1 DEF Paths

\* The downward loop finds the children of an operation below it.
LEMMA VisitedChild ==
  ASSUME Shape, NEW n \in known, NEW P \in Visited(n), NEW c \in Children(n, P)
  PROVE  /\ n.layer \in Nat /\ n.layer < layer
         /\ c.layer = n.layer + 1 /\ c.pos \in P
         /\ n.pos = OldPos(n.layer+1, c.pos)
         /\ <<n.op, c>> \in exp /\ Parent(<<n.op, c>>) = n
<1>1. n \in [layer : 0..layer, pos : Nat, op : Names] /\ n.pos \in DOMAIN sizes[n.layer]
  BY DEF Shape, Elements, Nodes
<1>2. layer \in Nat /\ n.layer \in 0..layer /\ n.layer \in Nat /\ Row(n.layer)
  BY <1>1, DomainFacts DEF Shape, Hierarchy
<1>3. c.layer = n.layer + 1 /\ c.pos \in P /\ \E e \in exp : e[1] = n.op /\ e[2] = c
  BY ChildrenAre
<1>4. <<n.op, c>> \in exp
  BY <1>3 DEF Shape, Elements, Links
<1>5. n.layer # layer
  BY <1>3 DEF Visited
<1>6. n.layer < layer
  BY <1>2, <1>5
<1>7. n.pos = OldPos(n.layer+1, c.pos)
  BY <1>1, <1>2, <1>3, <1>6, VisitedExact
<1>8. Parent(<<n.op, c>>) = Node(n.layer, n.pos, n.op)
  <2>1. c.layer - 1 = n.layer
    BY <1>2, <1>3
  <2> QED BY <1>3, <1>7, <2>1 DEF Parent
<1> QED BY <1>1, <1>2, <1>3, <1>4, <1>6, <1>7, <1>8 DEF Node

\* And all of them, but for the last position of a layer.
LEMMA ChildVisited ==
  ASSUME Shape, NEW n \in known, NEW P \in Visited(n),
         NEW e \in exp, Parent(e) = n, n.pos # Last(n.layer)
  PROVE  e[1] = n.op /\ e[2] \in Children(n, P)
<1>1. e[2] \in known /\ e[2].layer > 0
  BY DEF Shape, Elements, Links
<1>2. /\ e[2].layer \in 0..layer /\ e[2].pos \in Nat /\ e[2].pos \in DOMAIN sizes[e[2].layer]
      /\ layer \in Nat
  BY <1>1, DomainFacts DEF Shape, Elements, Nodes, Hierarchy
<1>3. n.layer = e[2].layer - 1 /\ n.pos = OldPos(e[2].layer, e[2].pos) /\ n.op = e[1]
  BY DEF Parent, Node
<1>4. n.layer \in 0..layer-1 /\ n.layer \in Nat /\ n.layer + 1 = e[2].layer /\ n.layer < layer
  BY <1>1, <1>2, <1>3
<1>5. Row(n.layer) /\ DOMAIN sizes[n.layer+1] = 0..SuccessorPos(n.layer, Last(n.layer))
  BY <1>2, <1>4 DEF Shape, Hierarchy
<1>6. n.pos \in DOMAIN sizes[n.layer]
  BY DEF Shape, Elements, Nodes
<1>7. /\ e[2].pos \in 0..SuccessorPos(n.layer, Last(n.layer))
      /\ OldPos(n.layer+1, e[2].pos) = n.pos
  BY <1>2, <1>3, <1>4, <1>5
<1>8. SuccessorPos(n.layer, Last(n.layer)) \in Nat
  <2>1. Last(n.layer) \in Nat
    BY <1>5, LastOfRow
  <2> QED BY <1>5, <2>1, SuccessorType
<1>9. e[2].pos <= SuccessorPos(n.layer, Last(n.layer))
  BY <1>2, <1>7, <1>8
<1>10. e[2].pos \in P
  BY <1>2, <1>4, <1>5, <1>6, <1>7, <1>9, VisitedExact
<1> QED BY <1>3, <1>4, <1>10, ChildrenAre

\* The links and the worklists.
Book == LinkInv /\ WorkInv

\* The links need no other argument while none of them changes.
LEMMA SameLinkInv ==
  ASSUME LinkInv, sizes' = sizes, ops' = ops, exp' = exp, pred' = pred, beyond' = beyond,
         pruning = "down" => remove = {}
  PROVE  LinkInv'
<1>1. \A e : Parent(e)' = Parent(e)
  BY SamePositions
<1> QED BY <1>1 DEF LinkInv

\* Between two calls of prune, the callers' list is all there is to it.
LEMMA QuietWork ==
  ASSUME Elements', pruning' = "no", todo' \subseteq ops',
         \A m, n \in todo' : m.layer = n.layer /\ m.pos = n.pos
  PROVE  WorkInv'
BY DEF WorkInv, Elements

\* There are no links at first, and nothing to prune.
LEMMA InitBook == Init => Book
<1> SUFFICES ASSUME Init PROVE Book
  OBVIOUS
<1>1. exp = {} /\ pred = {} /\ todo = {} /\ pruning = "no" /\ open = {} /\ remove = {}
  BY DEF Init
<1> QED BY <1>1 DEF Book, LinkInv, WorkInv

\* The operations to prune are there, all at the position on the left.
LEMMA PruneLeftBook == Shape' /\ Book /\ PruneLeft => Book'
<1> SUFFICES ASSUME Shape', Book, PruneLeft PROVE Book'
  OBVIOUS
<1>1. /\ pruning = "no"
      /\ UNCHANGED <<sizes, ops, exp, pred, beyond, pruning>>
  BY DEF PruneLeft, Quiet, structure, worklists, history
<1>2. todo' \subseteq At(layer, pos-1)
  BY DEF PruneLeft, Quiet
<1>3. LinkInv'
  BY <1>1, SameLinkInv DEF Book
<1>4. WorkInv'
  BY <1>1, <1>2, QuietWork DEF At, Shape
<1> QED BY <1>3, <1>4 DEF Book

\* The operations to prune are there, all at the position above.
LEMMA PruneAboveBook == Shape' /\ Book /\ PruneAbove => Book'
<1> SUFFICES ASSUME Shape', Book, PruneAbove PROVE Book'
  OBVIOUS
<1>1. /\ pruning = "no"
      /\ UNCHANGED <<sizes, ops, exp, pred, beyond, pruning>>
  BY DEF PruneAbove, Quiet, structure, worklists, history
<1>2. todo' \subseteq Above
  BY DEF PruneAbove
<1>3. LinkInv'
  BY <1>1, SameLinkInv DEF Book
<1>4. WorkInv'
  BY <1>1, <1>2, QuietWork DEF Above, At, Shape
<1> QED BY <1>3, <1>4 DEF Book

\* Encoding leaves links and worklists alone.
LEMMA EncodeBook == Shape' /\ Book /\ Encode => Book'
<1> SUFFICES ASSUME Shape', Book, Encode PROVE Book'
  OBVIOUS
<1>1. /\ pruning = "no" /\ todo = {}
      /\ UNCHANGED <<sizes, ops, exp, pred, beyond, pruning, todo>>
  BY DEF Encode, Quiet, structure, worklists, history
<1>2. LinkInv'
  BY <1>1, SameLinkInv DEF Book
<1>3. WorkInv'
  BY <1>1, QuietWork DEF Shape
<1> QED BY <1>2, <1>3 DEF Book

\* A new layer has no links yet, and the old ones keep their parents.
LEMMA NextLayerBook == Shape /\ Shape' /\ Book /\ NextLayer => Book'
<1> SUFFICES ASSUME Shape, Shape', Book, NextLayer PROVE Book'
  OBVIOUS
<1>1. /\ pruning = "no" /\ todo = {} /\ layer < LayerBound
      /\ UNCHANGED <<domain, ops, exp, pred, beyond, pruning, todo, known>>
  BY DEF NextLayer, Quiet, worklists, history
<1>2. layer \in Nat
  BY DomainFacts DEF Shape, Hierarchy
<1>3. \A e \in exp \cup pred : Parent(e)' = Parent(e)
  <2> SUFFICES ASSUME NEW e \in exp \cup pred PROVE Parent(e)' = Parent(e)
    OBVIOUS
  <2>1. /\ e \in Links /\ e[2].layer \in 0..layer /\ e[2].layer > 0
        /\ e[2] \in known /\ Parent(e) \in known
    BY DEF Links, Shape, Elements, Nodes
  <2>2. sizes' = [l \in 0 .. layer + 1 |->
                 IF l <= layer THEN sizes[l]
                 ELSE [p \in 0 .. NextLayerSize(layer) - 1 |-> 1]]
    BY DEF NextLayer
  <2>3. e[2].layer-1 \in 0..layer+1 /\ e[2].layer-1 <= layer
    BY <1>2, <2>1
  <2>4. sizes'[e[2].layer-1] = sizes[e[2].layer-1]
    BY <2>2, <2>3, Zenon
  <2> QED BY <1>1, <2>1, <2>4, LinkStays DEF Shape
<1>4. LinkInv'
  BY <1>1, <1>3 DEF Book, LinkInv
<1>5. WorkInv'
  BY <1>1, QuietWork DEF Shape
<1> QED BY <1>4, <1>5 DEF Book

\* The new links are the same in both maps and start above.
LEMMA PropagateBook == Shape /\ Shape' /\ Book /\ Propagate => Book'
<1> SUFFICES ASSUME Shape, Shape', Book, Propagate PROVE Book'
  OBVIOUS
<1> DEFINE names(A) == UNION {Kids(n, A) : n \in Above}
           links(A) == UNION {{n.op} \X Here(Kids(n, A)) : n \in Above}
<1>1. PICK A :
        /\ ops'   = ops \cup Here(names(A))
        /\ exp'   = exp \cup links(A)
        /\ pred'  = pred \cup links(A)
        /\ known' = known \cup Here(names(A))
        /\ sizes' = [sizes EXCEPT ![layer][pos] = ExpansionSize(names(A))]
        /\ todo'  = {n \in Above : Kids(n, A) = {}}
  BY Zenon DEF Propagate
<1> HIDE DEF names, links
<1>2. /\ phase = "reductions" /\ pruning = "no" /\ layer > 0 /\ layer \in Nat
      /\ UNCHANGED <<domain, layer, pos, pruning, beyond>>
  BY DomainFacts DEF Propagate, Quiet, worklists, Shape, Hierarchy
<1>3. \A l \in 0..layer-1 : sizes'[l] = sizes[l]
  BY <1>1, <1>2 DEF Shape, Hierarchy
<1>4. \A e \in Links : /\ e[2].layer - 1 \in 0..layer-1 /\ Parent(e)' = Parent(e)
                        /\ e[2] \in known
  <2> SUFFICES ASSUME NEW e \in Links
               PROVE  e[2].layer-1 \in 0..layer-1 /\ Parent(e)' = Parent(e) /\ e[2] \in known
    OBVIOUS
  <2>1. e[2].layer \in 0..layer /\ e[2].layer > 0 /\ e[2] \in known /\ Parent(e) \in known
    BY DEF Links, Shape, Elements, Nodes
  <2>2. e[2].layer-1 \in 0..layer-1
    BY <1>2, <2>1
  <2>3. sizes'[e[2].layer-1] = sizes[e[2].layer-1] /\ e[2] \in known' /\ Parent(e) \in known'
    BY <1>1, <1>3, <2>1, <2>2
  <2> QED BY <1>2, <2>1, <2>2, <2>3, LinkStays DEF Shape
<1>5. \A n \in Here(names(A)) : n.layer = layer
  BY DEF Here, Node
<1>6. \A e \in links(A) : /\ e[2] \in Here(names(A))
                          /\ e[2].layer = layer /\ e[2].pos = pos
                          /\ \E n \in Above : e[1] = n.op
  <2> SUFFICES ASSUME NEW e \in links(A)
               PROVE /\ e[2] \in Here(names(A))
                     /\ e[2].layer = layer /\ e[2].pos = pos
                     /\ \E n \in Above : e[1] = n.op
    OBVIOUS
  <2>1. PICK n \in Above : e[1] = n.op /\ e[2] \in Here(Kids(n, A))
    BY DEF links
  <2>2. e[2] \in Here(names(A))
    BY <2>1 DEF names, Here
  <2> QED BY <2>1, <2>2 DEF Here, Node
<1>7. OldPos(layer, pos)' = OldPos(layer, pos)
  <2>1. \A l \in Nat : sizes'[l] = sizes[l] => \A p : OldPos(l+1, p)' = OldPos(l+1, p)
    BY StablePositions
  <2>2. layer-1 \in 0..layer-1 /\ layer-1 \in Nat /\ (layer-1)+1 = layer
    BY <1>2
  <2>3. \A p : OldPos(layer, p)' = OldPos(layer, p)
    BY <1>2, <1>3, <2>1, <2>2
  <2> QED BY <1>2, <2>3
<1>8. ASSUME NEW e \in links(A) PROVE Parent(e)' \in ops
  <2>1. PICK n \in Above : e[1] = n.op
    BY <1>6
  <2>2. n \in ops /\ n = Node(layer-1, OldPos(layer, pos), n.op)
    BY <1>2, AboveFacts DEF Shape
  <2> QED BY <1>2, <1>6, <1>7, <2>1, <2>2 DEF Parent
<1>9. /\ \A e \in exp' : e[2] \in ops'
      /\ pred' \subseteq exp'
  BY <1>1, <1>6 DEF Book, LinkInv
<1>10. ASSUME NEW e \in exp' \ pred' PROVE Parent(e)' \notin ops'
  <2>1. e \in exp \ pred
    BY <1>1, <1>10
  <2>2. Parent(e) \notin ops /\ e \in Links
    BY <2>1 DEF Book, LinkInv, Shape, Elements
  <2>3. Parent(e).layer # layer
    <3>1. e[2].layer - 1 \in 0..layer-1
      BY <1>4, <2>2
    <3>2. Parent(e).layer = e[2].layer - 1
      BY DEF Parent, Node
    <3> QED BY <1>2, <3>1, <3>2
  <2> QED BY <1>1, <1>4, <1>5, <2>2, <2>3
<1>11. ASSUME ~beyond', NEW e \in pred' PROVE Parent(e)' \in ops'
  <2>1. CASE e \in pred
    BY <1>1, <1>2, <1>4, <1>11, <2>1 DEF Book, LinkInv, Shape, Elements
  <2>2. CASE e \in links(A)
    BY <1>1, <1>8, <2>2
  <2> QED BY <1>1, <2>1, <2>2
<1>12. LinkInv'
  BY <1>9, <1>10, <1>11 DEF LinkInv
<1>13. todo' \subseteq Above
  BY <1>1
<1>14. Above \subseteq ops /\ \A m, n \in Above : m.layer = n.layer /\ m.pos = n.pos
  BY DEF Above, At
<1>15. WorkInv'
  BY <1>1, <1>2, <1>13, <1>14, QuietWork DEF Shape
<1> QED BY <1>12, <1>15 DEF Book

\* The links of a replaced operation move to the one that replaces it, in
\* both maps, below the same parents.
LEMMA DominateBook == Shape /\ Shape' /\ Book /\ Dominate => Book'
<1> SUFFICES ASSUME Shape, Shape', Book, Dominate PROVE Book'
  OBVIOUS
<1>0. PICK gone \in SUBSET At(layer, pos) : \E By \in [gone -> At(layer, pos) \ gone] :
        /\ ops' = ops \ gone
        /\ known' = known \ gone
        /\ exp' = Staying(exp, gone) \cup Moving(pred, gone, By)
        /\ pred' = Staying(pred, gone) \cup Moving(pred, gone, By)
        /\ made' = Staying(made, gone) \cup Moving(made, gone, By)
  BY DominateFacts, Zenon DEF Shape
<1>1. PICK By \in [gone -> At(layer, pos) \ gone] :
        /\ ops' = ops \ gone
        /\ exp' = Staying(exp, gone) \cup Moving(pred, gone, By)
        /\ pred' = Staying(pred, gone) \cup Moving(pred, gone, By)
  BY <1>0
<1>2. /\ pruning = "no" /\ todo = {} /\ layer \in Nat
      /\ UNCHANGED <<sizes, pruning, todo, beyond>>
  BY DomainFacts DEF Dominate, Quiet, worklists, Shape, Hierarchy
<1>3. \A e : Parent(e)' = Parent(e)
  BY <1>2, SamePositions
<1>4. exp \subseteq Links /\ pred \subseteq Links /\ pred \subseteq exp
  BY DEF Shape, Elements, Book, LinkInv
<1>5. ASSUME NEW e \in Moving(pred, gone, By)
      PROVE  /\ e[2] \in ops' /\ e \in Links
             /\ \E x \in pred : Parent(x) = Parent(e)
  <2>1. /\ e[2] \in At(layer, pos) \ gone /\ e \in Links
        /\ \E x \in pred : Parent(x) = Parent(e)
    BY <1>4, MovedLink DEF Shape
  <2> QED BY <1>1, <2>1 DEF At
<1>6. ASSUME NEW e \in Links PROVE Parent(e) \notin gone
  <2>1. e[2].layer \in 0..layer
    BY DEF Links, Shape, Elements, Nodes
  <2>2. Parent(e).layer # layer
    BY <1>2, <2>1 DEF Parent, Node
  <2> QED BY <2>2 DEF At
<1>7. /\ \A e \in exp' : e[2] \in ops'
      /\ pred' \subseteq exp'
  BY <1>1, <1>4, <1>5 DEF Staying, Book, LinkInv
<1>8. ASSUME NEW e \in exp' \ pred' PROVE Parent(e)' \notin ops'
  <2>1. e \in exp \ pred
    BY <1>1, <1>8 DEF Staying
  <2> QED BY <1>1, <1>3, <2>1 DEF Book, LinkInv
<1>9. ASSUME ~beyond', NEW e \in pred' PROVE Parent(e)' \in ops'
  <2>1. \A x \in pred : Parent(x) \in ops /\ Parent(x) \notin gone
    BY <1>2, <1>4, <1>6, <1>9 DEF Book, LinkInv
  <2>2. \E x \in pred : Parent(x) = Parent(e)
    BY <1>1, <1>5 DEF Staying
  <2> QED BY <1>1, <1>3, <2>1, <2>2
<1>10. LinkInv'
  BY <1>7, <1>8, <1>9 DEF LinkInv
<1>11. WorkInv'
  BY <1>2, QuietWork DEF Shape
<1> QED BY <1>10, <1>11 DEF Book

\* At first, the argument of prune is all there is on its path.
LEMMA StartPruneBook == Shape /\ Shape' /\ Book /\ StartPrune => Book'
<1> SUFFICES ASSUME Shape, Shape', Book, StartPrune PROVE Book'
  OBVIOUS
<1>1. /\ pruning = "no" /\ pruning' = "up" /\ remove' = {} /\ taken' = {}
      /\ UNCHANGED <<sizes, ops, exp, pred, beyond>>
  BY DEF StartPrune, place, structure
<1>2. PICK n \in todo : todo' = todo \ {n} /\ op' = n /\ open' = {n}
  BY DEF StartPrune
<1>3. LinkInv'
  BY <1>1, SameLinkInv DEF Book
<1>4. todo \subseteq ops /\ \A k, m \in todo : k.layer = m.layer /\ k.pos = m.pos
  BY DEF Book, WorkInv
<1>5. n.layer <= n.layer
  BY <1>2, DomainFacts DEF Shape, Hierarchy, Elements, Nodes
<1>6. \A f \in Paths(op)' : f[n.layer] = n.pos
  BY <1>2 DEF Paths
<1>7. Cone'
  BY <1>1, <1>2, <1>5, <1>6 DEF Cone, OnPath, Covered
<1>8. WorkInv'
  BY <1>1, <1>2, <1>4, <1>7 DEF WorkInv
<1> QED BY <1>3, <1>8 DEF Book

\* Turning downwards changes no list.
LEMMA RootsFoundBook == Shape /\ Shape' /\ Book /\ RootsFound => Book'
<1> SUFFICES ASSUME Shape, Shape', Book, RootsFound PROVE Book'
  OBVIOUS
<1>1. /\ pruning = "up" /\ open = {} /\ pruning' = "down"
      /\ UNCHANGED <<sizes, ops, exp, pred, todo, open, remove, taken, op, beyond>>
  BY DEF RootsFound, place, structure, history
<1>2. LinkInv'
  BY <1>1, SameLinkInv DEF Book
<1>3. Paths(op)' = Paths(op)
  BY <1>1, SamePaths
<1>4. Cone'
  BY <1>1, <1>3 DEF Cone, OnPath, Covered, Children, Book, WorkInv
<1>5. WorkInv'
  BY <1>1, <1>4 DEF Book, WorkInv
<1> QED BY <1>2, <1>5 DEF Book

\* When prune returns, no link is left that its worklist excused.
LEMMA ReturnBook == Shape /\ Shape' /\ Book /\ Return => Book'
<1> SUFFICES ASSUME Shape, Shape', Book, Return PROVE Book'
  OBVIOUS
<1>1. /\ pruning = "down" /\ remove = {} /\ pruning' = "no"
      /\ UNCHANGED <<sizes, ops, exp, pred, beyond>>
  BY DEF Return, place, structure
<1>2. todo' \subseteq todo
  BY DEF Return
<1>3. LinkInv'
  BY <1>1, SameLinkInv DEF Book
<1>4. WorkInv'
  BY <1>1, <1>2, QuietWork DEF Book, WorkInv, Shape
<1> QED BY <1>3, <1>4 DEF Book

\* Nothing changes when nothing happens.
LEMMA StutterBook == Shape /\ Book /\ UNCHANGED vars => Book'
<1> SUFFICES ASSUME Shape, Book, UNCHANGED vars PROVE Book'
  OBVIOUS
<1>1. UNCHANGED <<sizes, ops, exp, pred, todo, pruning, open, remove, taken, op, beyond>>
  BY DEF vars, place, structure, worklists, history
<1>2. \A e : Parent(e)' = Parent(e)
  BY <1>1, SamePositions
<1>3. Paths(op)' = Paths(op)
  BY <1>1, SamePaths
<1>4. LinkInv'
  BY <1>1, <1>2 DEF Book, LinkInv
<1>5. pruning # "no" => Cone'
  BY <1>1, <1>3 DEF Cone, OnPath, Covered, Children, Book, WorkInv
<1>6. WorkInv'
  BY <1>1, <1>5 DEF Book, WorkInv
<1> QED BY <1>4, <1>6 DEF Book

\* The parents that prune takes up are those whose children on the path are
\* all taken.
LEMMA PruneUpBook == Shape /\ Shape' /\ Book /\ PruneUp => Book'
<1> SUFFICES ASSUME Shape, Shape', Book, PruneUp PROVE Book'
  OBVIOUS
<1>1. /\ pruning = "up" /\ pruning' = "up"
      /\ UNCHANGED <<layer, sizes, ops, exp, pred, todo, op, known, beyond>>
  BY DEF PruneUp, place, structure, history
<1>2. LinkInv'
  BY <1>1, SameLinkInv DEF Book
<1>3. Paths(op)' = Paths(op)
  BY <1>1, SamePaths
<1>4. PICK n \in open :
       IF n.layer = 0
       THEN /\ open' = Reopened(n, {})
            /\ remove' = remove \cup {n}
            /\ UNCHANGED taken
       ELSE LET empty == EmptiedParents(n, taken')
            IN /\ taken' = taken \cup {<<m, n>> : m \in Parents(n)}
               /\ open' = Reopened(n, empty)
               /\ remove' = IF empty = {} THEN remove \cup {n} ELSE remove
  BY Zenon DEF PruneUp
<1> DEFINE more == {m \in open' : m \notin open}
<1>5. /\ taken \subseteq taken' /\ remove' \subseteq remove \cup {n}
      /\ \A t \in taken' : t \in taken \/ t[2] = n
  BY <1>4
<1>6. ASSUME NEW m \in more
      PROVE  /\ n.layer # 0 /\ m \in Parents(n)
             /\ Siblings(m, n) = {x[2] : x \in {y \in taken' : y[1] = m}}
  BY <1>4 DEF Reopened, EmptiedParents
<1>7. /\ n \in known /\ n.layer \in Nat /\ op \in known /\ op.layer \in Nat
  BY <1>1, <1>4, DomainFacts DEF Shape, Hierarchy, Elements, Nodes
<1>8. ASSUME NEW f \in Paths(op), NEW x, OnPath(f, x), Covered(f, x)
      PROVE  OnPath(f, x)' /\ Covered(f, x)'
  BY <1>1, <1>5, <1>8 DEF OnPath, Covered, Children
<1>9. ASSUME NEW f \in Paths(op), NEW x \in open \cup remove \cup {t[2] : t \in taken}
      PROVE  /\ OnPath(f, x) => Covered(f, x)
             /\ x \in open \cup remove => OnPath(f, x)
  BY <1>1 DEF Book, WorkInv, Cone
<1>10. ASSUME NEW f \in Paths(op), NEW m \in more
       PROVE  OnPath(f, m)' /\ Covered(f, m)'
  <2>1. OnPath(f, n)
    BY <1>4, <1>9
  <2>2. n.layer <= op.layer /\ n.pos = f[n.layer]
    BY <2>1 DEF OnPath
  <2>3. m.layer = n.layer - 1 /\ m.pos = OldPos(n.layer, n.pos) /\ n.layer # 0
    BY <1>6, ParentsLayer
  <2>4. m.layer \in 0..op.layer-1 /\ m.layer + 1 = n.layer /\ m.layer < op.layer
    BY <1>7, <2>2, <2>3
  <2>5. f[m.layer] = OldPos(m.layer+1, f[m.layer+1])
    <3>1. \A l \in 0..op.layer-1 : f[l] = OldPos(l+1, f[l+1])
      BY DEF Paths
    <3> QED BY <2>4, <3>1, Zenon
  <2>6. m.pos = f[m.layer]
    BY <2>2, <2>3, <2>4, <2>5
  <2>7. ASSUME NEW y \in Children(m, {f[m.layer+1]}) PROVE <<m, y>> \in taken'
    <3>1. y \in Siblings(m, n)
      BY <2>2, <2>4, <2>7 DEF Siblings
    <3>2. PICK x \in taken' : x[1] = m /\ x[2] = y
      BY <1>6, <3>1
    <3>3. taken' \subseteq known' \X known'
      BY DEF Shape, Elements
    <3> QED BY <3>2, <3>3
  <2>8. m.layer <= op.layer
    BY <1>7, <2>4
  <2> QED BY <1>1, <2>4, <2>6, <2>7, <2>8 DEF OnPath, Covered, Children
<1>11. Cone'
  <2> SUFFICES ASSUME NEW f \in Paths(op),
                      NEW x \in open' \cup remove' \cup {t[2] : t \in taken'}
               PROVE  /\ OnPath(f, x)' => Covered(f, x)'
                      /\ x \in open' \cup remove' => OnPath(f, x)'
    BY <1>3 DEF Cone
  <2>1. x \in open \cup remove \cup {t[2] : t \in taken} \/ x \in more
    BY <1>4, <1>5
  <2>2. x \in open' \cup remove' => x \in open \cup remove \/ x \in more
    BY <1>4, <1>5
  <2>3. CASE x \in more
    BY <1>10, <2>3
  <2>4. CASE x \notin more
    <3>1. OnPath(f, x)' <=> OnPath(f, x)
      BY <1>1 DEF OnPath
    <3>2. OnPath(f, x) => Covered(f, x)
      BY <1>9, <2>1, <2>4
    <3>3. x \in open' \cup remove' => OnPath(f, x)
      BY <1>9, <2>1, <2>2, <2>4
    <3> QED BY <1>8, <3>1, <3>2, <3>3
  <2> QED BY <2>3, <2>4
<1>12. ~beyond => open' \subseteq ops /\ remove' \subseteq ops
  <2> SUFFICES ASSUME ~beyond PROVE open' \subseteq ops /\ remove' \subseteq ops
    OBVIOUS
  <2>1. open \subseteq ops /\ remove \subseteq ops
    BY DEF Book, WorkInv
  <2>2. Parents(n) \subseteq ops
    BY <1>1, ParentsAre DEF Book, LinkInv
  <2>3. open' \subseteq open \cup Parents(n)
    BY <1>6
  <2> QED BY <1>4, <1>5, <2>1, <2>2, <2>3
<1>13. WorkInv'
  <2>1. /\ todo \subseteq ops /\ op \notin todo
        /\ \A k, m \in todo : k.layer = m.layer /\ k.pos = m.pos
        /\ \A k \in todo : k.layer = op.layer /\ k.pos = op.pos
    BY <1>1 DEF Book, WorkInv
  <2> QED BY <1>1, <1>11, <1>12, <2>1 DEF WorkInv
<1> QED BY <1>2, <1>13 DEF Book

\* What is removed on the way down never is one of the operations the caller
\* goes on with, and no link is left dangling.
LEMMA PruneDownBook == Shape /\ Shape' /\ Book /\ PruneDown => Book'
<1> SUFFICES ASSUME Shape, Shape', Book, PruneDown PROVE Book'
  OBVIOUS
<1>1. /\ pruning = "down" /\ pruning' = "down"
      /\ UNCHANGED <<layer, sizes, todo, open, taken, op, known>>
  BY DEF PruneDown, place
<1>2. PICK n \in remove : \E P \in Visited(n) :
        /\ remove' = (remove \ {n}) \cup Doomed(n, P)
        /\ RemoveOccurrence(n, Children(n, P) \ Doomed(n, P))
        /\ beyond' = (beyond \/ (n.layer < layer /\ n.pos = Last(n.layer)))
  BY Zenon DEF PruneDown
<1>3. PICK P \in Visited(n) :
        /\ remove' = (remove \ {n}) \cup Doomed(n, P)
        /\ RemoveOccurrence(n, Children(n, P) \ Doomed(n, P))
        /\ beyond' = (beyond \/ (n.layer < layer /\ n.pos = Last(n.layer)))
  BY <1>2
<1> DEFINE stay == Children(n, P) \ Doomed(n, P)
<1>4. /\ ops' = ops \ {n}
      /\ exp' = {e \in exp : e[2] # n}
      /\ pred' = {e \in pred : e[2] # n /\ ~(e[1] = n.op /\ e[2] \in stay)}
  BY <1>3 DEF RemoveOccurrence
<1>5. Doomed(n, P) \subseteq Children(n, P)
  BY DEF Doomed
<1>6. /\ n \in known /\ n.layer \in Nat /\ n.layer \in 0..layer /\ layer \in Nat
      /\ op \in known /\ op.layer \in Nat /\ op \in Nodes
  BY <1>1, <1>2, DomainFacts DEF Shape, Hierarchy, Elements, Nodes
<1>7. ASSUME NEW c \in Children(n, P)
      PROVE  /\ n.layer < layer /\ c.layer = n.layer + 1 /\ c.pos \in P /\ c # n
             /\ n.pos = OldPos(n.layer+1, c.pos)
             /\ <<n.op, c>> \in exp /\ Parent(<<n.op, c>>) = n
  <2>1. /\ n.layer < layer /\ c.layer = n.layer + 1 /\ c.pos \in P
        /\ n.pos = OldPos(n.layer+1, c.pos)
        /\ <<n.op, c>> \in exp /\ Parent(<<n.op, c>>) = n
    BY <1>6, VisitedChild
  <2>2. c # n
    BY <1>6, <2>1
  <2> QED BY <2>1, <2>2
<1>8. \A e : Parent(e)' = Parent(e)
  BY <1>1, SamePositions
<1>9. Paths(op)' = Paths(op)
  BY <1>1, SamePaths
<1> HIDE DEF stay
<1>10. \A e \in exp' : e[2] \in ops'
  BY <1>4 DEF Book, LinkInv
<1>11. pred' \subseteq exp'
  BY <1>4 DEF Book, LinkInv
<1>12. ASSUME NEW e \in exp' \ pred' PROVE Parent(e) \notin ops'
  <2>1. CASE e \notin pred
    BY <1>4, <1>12, <2>1 DEF Book, LinkInv
  <2>2. CASE e \in pred
    <3>1. e[1] = n.op /\ e[2] \in stay /\ e = <<e[1], e[2]>>
      BY <1>4, <1>12, <2>2 DEF Shape, Elements, Links
    <3>2. Parent(e) = n
      BY <1>7, <3>1 DEF stay
    <3> QED BY <1>4, <3>2
  <2> QED BY <2>1, <2>2
<1>13. ASSUME ~beyond', NEW e \in pred' PROVE Parent(e) \in ops' \/ e[2] \in remove'
  <2>1. e \in pred /\ e \in exp /\ e[2] # n /\ ~beyond
    BY <1>3, <1>4, <1>13 DEF Book, LinkInv
  <2>2. Parent(e) \in ops \/ e[2] \in remove
    BY <2>1 DEF Book, LinkInv
  <2>3. CASE e[2] \in remove
    BY <1>3, <2>1, <2>3
  <2>4. CASE Parent(e) \in ops /\ Parent(e) # n
    BY <1>4, <2>4
  <2>5. CASE Parent(e) = n
    <3>1. e \in Links
      BY <2>1 DEF Shape, Elements
    <3>2. e[2].layer \in 0..layer /\ n.layer = e[2].layer - 1
      BY <2>5, <3>1 DEF Links, Shape, Elements, Nodes, Parent, Node
    <3>3. n.layer < layer
      BY <1>6, <3>2
    <3>4. n.pos # Last(n.layer)
      BY <1>3, <1>13, <3>3
    <3>5. e[1] = n.op /\ e[2] \in Children(n, P)
      BY <1>6, <2>1, <2>5, <3>4, ChildVisited
    <3>6. e[2] \notin stay
      BY <1>4, <1>13, <3>5
    <3> QED BY <1>3, <3>5, <3>6 DEF stay
  <2> QED BY <2>2, <2>3, <2>4, <2>5
<1>14. LinkInv'
  BY <1>1, <1>8, <1>10, <1>11, <1>12, <1>13 DEF LinkInv
<1>15. Cone
  BY <1>1 DEF Book, WorkInv
<1>16. ASSUME NEW f \in Paths(op), NEW x, Covered(f, x) PROVE Covered(f, x)'
  <2>1. exp' \subseteq exp
    BY <1>4
  <2> QED BY <1>1, <1>16, <2>1 DEF Covered, Children
<1>17. ASSUME NEW f \in Paths(op), NEW c \in Children(n, P), OnPath(f, c)
       PROVE  Covered(f, c)
  <2>1. /\ c.layer = n.layer + 1 /\ n.pos = OldPos(n.layer+1, c.pos)
        /\ <<n.op, c>> \in exp
    BY <1>7
  <2>2. c.layer <= op.layer /\ c.pos = f[c.layer]
    BY <1>17 DEF OnPath
  <2>3. n.layer \in 0..op.layer-1 /\ n.layer < op.layer /\ n.layer <= op.layer
    BY <1>6, <2>1, <2>2
  <2>4. f[n.layer] = OldPos(n.layer+1, f[n.layer+1])
    <3>1. \A l \in 0..op.layer-1 : f[l] = OldPos(l+1, f[l+1])
      BY DEF Paths
    <3> QED BY <2>3, <3>1, Zenon
  <2>5. n.pos = f[n.layer]
    BY <2>1, <2>2, <2>4
  <2>6. Covered(f, n)
    BY <1>2, <1>15, <2>3, <2>5 DEF Cone, OnPath
  <2>7. n # op
    BY <1>6, <2>3
  <2>8. c \in Children(n, {f[n.layer+1]})
    BY <2>1, <2>2, ChildrenAre
  <2>9. <<n, c>> \in taken
    BY <2>6, <2>7, <2>8 DEF Covered
  <2>10. c \in {t[2] : t \in taken}
    BY <2>9
  <2> QED BY <1>15, <1>17, <2>10 DEF Cone
<1>18. Cone'
  <2> SUFFICES ASSUME NEW f \in Paths(op),
                      NEW x \in open' \cup remove' \cup {t[2] : t \in taken'},
                      OnPath(f, x)'
               PROVE  Covered(f, x)'
    BY <1>1, <1>9 DEF Cone
  <2>1. OnPath(f, x)
    BY <1>1 DEF OnPath
  <2>2. x \in open \cup remove \cup {t[2] : t \in taken} \/ x \in Children(n, P)
    BY <1>1, <1>3, <1>5
  <2>3. Covered(f, x)
    BY <1>15, <1>17, <2>1, <2>2 DEF Cone
  <2> QED BY <1>16, <2>3
<1>19. n \notin todo
  <2> SUFFICES ASSUME n \in todo PROVE FALSE
    OBVIOUS
  <2>1. n.layer = op.layer /\ n.pos = op.pos /\ op \notin todo
    BY <1>1 DEF Book, WorkInv
  <2>2. PICK f : f \in Paths(op)
    BY <1>6, PathExists DEF Shape
  <2>3. f[op.layer] = op.pos
    BY <2>2 DEF Paths
  <2>4. OnPath(f, n)
    BY <1>6, <2>1, <2>3 DEF OnPath
  <2>5. Covered(f, n)
    BY <1>2, <1>15, <2>2, <2>4 DEF Cone
  <2> QED BY <1>6, <2>1, <2>5 DEF Covered
<1>20. ~beyond' => remove' \subseteq ops' /\ open' \subseteq ops'
  <2> SUFFICES ASSUME ~beyond' PROVE remove' \subseteq ops' /\ open' \subseteq ops'
    OBVIOUS
  <2>1. remove \subseteq ops /\ open = {}
    BY <1>1, <1>3 DEF Book, WorkInv, Shape, Elements
  <2>2. \A c \in Children(n, P) : c \in ops /\ c # n
    BY <1>7 DEF Book, LinkInv
  <2> QED BY <1>1, <1>3, <1>4, <1>5, <2>1, <2>2
<1>21. WorkInv'
  <2>1. /\ todo \subseteq ops /\ op \notin todo
        /\ \A k, m \in todo : k.layer = m.layer /\ k.pos = m.pos
        /\ \A k \in todo : k.layer = op.layer /\ k.pos = op.pos
    BY <1>1 DEF Book, WorkInv
  <2>2. todo' \subseteq ops'
    BY <1>1, <1>4, <1>19, <2>1
  <2> QED BY <1>1, <1>18, <1>20, <2>1, <2>2 DEF WorkInv
<1> QED BY <1>14, <1>21 DEF Book

\* The links and the worklists stay consistent.  One step per action.
LEMMA NextBook == Shape /\ Shape' /\ Book /\ [Next]_vars => Book'
<1> SUFFICES ASSUME Shape, Shape', Book, [Next]_vars PROVE Book'
  OBVIOUS
<1>1. CASE PruneLeft
  BY <1>1, PruneLeftBook
<1>2. CASE PruneAbove
  BY <1>2, PruneAboveBook
<1>3. CASE Propagate
  BY <1>3, PropagateBook
<1>4. CASE Dominate
  BY <1>4, DominateBook
<1>5. CASE Encode
  BY <1>5, EncodeBook
<1>6. CASE NextLayer
  BY <1>6, NextLayerBook
<1>7. CASE StartPrune
  BY <1>7, StartPruneBook
<1>8. CASE PruneUp
  BY <1>8, PruneUpBook
<1>9. CASE RootsFound
  BY <1>9, RootsFoundBook
<1>10. CASE PruneDown
  BY <1>10, PruneDownBook
<1>11. CASE Return
  BY <1>11, ReturnBook
<1>12. CASE UNCHANGED vars
  BY <1>12, StutterBook
<1> QED
  BY <1>1, <1>2, <1>3, <1>4, <1>5, <1>6, <1>7, <1>8, <1>9, <1>10, <1>11, <1>12
  DEF Next, Step, CreateNextPosition, Prune, Finished

\* In every reachable state the links and the worklists are consistent.
LEMMA BookHolds == Spec => [](Shape /\ Book)
<1>1. Init => Book
  BY InitBook
<1>2. Shape /\ Shape' /\ Book /\ [Next]_vars => Book'
  BY NextBook
<1> QED BY <1>1, <1>2, ShapeHolds, PTL DEF Spec

\* Between two calls of prune, _expansions and _predecessors describe the
\* same links, and only such between operations that are there, as long as
\* no successor position past the end of a layer was read.
THEOREM MapsStayInStep == Spec => []MapsAgree
<1>1. ASSUME Shape, Book PROVE MapsAgree
  <2> SUFFICES ASSUME Quiet, ~beyond
               PROVE  /\ \A e \in exp : e[2] \in ops
                      /\ \A e \in pred : e[2] \in ops /\ Parents(e[2]) \subseteq ops
                      /\ \A n \in ops : n.layer > 0 =>
                           Parents(n) = {m \in At(n.layer-1, OldPos(n.layer, n.pos)) :
                                           <<m.op, n>> \in exp}
    BY Zenon DEF MapsAgree
  <2>1. pruning = "no"
    BY DEF Quiet
  <2>2. /\ \A e \in exp : e[2] \in ops
        /\ pred \subseteq exp
        /\ \A e \in exp \ pred : Parent(e) \notin ops
        /\ \A e \in pred : Parent(e) \in ops
    BY <1>1, <2>1 DEF Book, LinkInv
  <2>3. \A n : Parents(n) \subseteq ops
    BY <2>2, ParentsAre
  <2>4. ASSUME NEW n \in ops, n.layer > 0
        PROVE  Parents(n) = {m \in At(n.layer-1, OldPos(n.layer, n.pos)) : <<m.op, n>> \in exp}
    <3>1. ASSUME NEW m \in Parents(n)
          PROVE  m \in At(n.layer-1, OldPos(n.layer, n.pos)) /\ <<m.op, n>> \in exp
      <4>1. PICK e \in pred : e[2] = n /\ m = Parent(e)
        BY ParentsAre
      <4>2. e \in exp /\ e = <<e[1], e[2]>>
        BY <1>1, <2>2 DEF Shape, Elements, Links
      <4>3. m.op = e[1]
        BY <4>1 DEF Parent, Node
      <4>4. m \in ops /\ m.layer = n.layer - 1 /\ m.pos = OldPos(n.layer, n.pos)
        BY <2>3, ParentsLayer
      <4> QED BY <4>1, <4>2, <4>3, <4>4 DEF At
    <3>2. ASSUME NEW m \in At(n.layer-1, OldPos(n.layer, n.pos)), <<m.op, n>> \in exp
          PROVE  m \in Parents(n)
      <4>1. m \in ops /\ m.layer = n.layer-1 /\ m.pos = OldPos(n.layer, n.pos)
        BY DEF At
      <4>2. m \in [layer : 0..layer, pos : Nat, op : Names]
        BY <1>1, <4>1 DEF Shape, Elements, Nodes
      <4>3. Parent(<<m.op, n>>) = m
        BY <4>1, <4>2 DEF Parent, Node
      <4>4. <<m.op, n>> \in pred
        BY <2>2, <3>2, <4>1, <4>3
      <4> QED BY <4>3, <4>4, ParentsAre
    <3> QED BY <3>1, <3>2
  <2> QED BY <2>2, <2>3, <2>4
<1> QED BY <1>1, BookHolds, PTL

\* The assertions of prune hold: what it takes up is there, its predecessors
\* have it as a child and its children have it as a predecessor, and the
\* operations its caller goes on with are still there.
THEOREM AssertionsHold == Spec => []PruneAssertions
<1>1. ASSUME Shape, Book PROVE PruneAssertions
  <2> SUFFICES ASSUME ~beyond
               PROVE  /\ todo \subseteq ops
                      /\ pruning = "up" =>
                           \A n \in open : n \in ops /\ \A m \in Parents(n) : n \in Siblings(m, n)
                      /\ pruning = "down" =>
                           \A n \in remove : /\ n \in ops
                                             /\ \A P \in Visited(n) : \A c \in Children(n, P) :
                                                  n \in Parents(c)
    BY Zenon DEF PruneAssertions
  <2>1. todo \subseteq ops /\ open \subseteq ops /\ remove \subseteq ops
    BY <1>1 DEF Book, WorkInv
  <2>2. ASSUME NEW n \in open, NEW m \in Parents(n) PROVE n \in Siblings(m, n)
    <3>1. PICK e \in pred : e[2] = n /\ m = Parent(e)
      BY ParentsAre
    <3>2. e \in exp
      BY <1>1, <3>1 DEF Book, LinkInv
    <3>3. m.op = e[1] /\ m.layer = n.layer - 1
      BY <3>1 DEF Parent, Node
    <3>4. n.layer \in Nat
      BY <1>1, DomainFacts DEF Shape, Hierarchy, Elements, Nodes
    <3>5. n.layer = m.layer + 1
      BY <3>3, <3>4
    <3> QED BY <3>1, <3>2, <3>3, <3>5, ChildrenAre DEF Siblings
  <2>3. ASSUME NEW n \in remove, NEW P \in Visited(n), NEW c \in Children(n, P)
        PROVE  n \in Parents(c)
    <3>1. n \in known /\ n \in ops
      BY <1>1, <2>1 DEF Shape, Elements
    <3>2. <<n.op, c>> \in exp /\ Parent(<<n.op, c>>) = n
      BY <1>1, <3>1, VisitedChild
    <3>3. <<n.op, c>> \in pred
      BY <1>1, <3>1, <3>2 DEF Book, LinkInv
    <3> QED BY <3>2, <3>3, ParentsAre
  <2> QED BY <2>1, <2>2, <2>3
<1> QED BY <1>1, BookHolds, PTL
===============================================================================
