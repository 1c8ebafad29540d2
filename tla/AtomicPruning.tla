--------------------------- MODULE AtomicPruning ---------------------------
(***************************************************************************)
(* What prune promises to its callers: the operations of all layers form a *)
(* graph from parents to children, and prune takes out one operation       *)
(* together with everything that has become impossible without it, in a    *)
(* single step.  Layers only ever grow otherwise.                          *)
(***************************************************************************)
VARIABLES agree, \* two parents have the same children at a position, or none in common
          void,  \* a position that does not exist was read: nothing is promised
          ops,   \* the operations
          links  \* pairs of a parent and a child

vars == <<agree, void, ops, links>>

Children(m, p) == {e[2] : e \in {x \in links : x[1] = m /\ x[2].pos = p}}
Parents(n)     == {e[1] : e \in {x \in links : x[2] = n}}

\* m has lost all its children for some position.
Emptied(m, D) == \E n \in D : m \in Parents(n) /\ Children(m, n.pos) \subseteq D

\* n has lost all its parents.
Orphaned(n, D) == Parents(n) # {} /\ Parents(n) \subseteq D

\* What is impossible if n is.
Impossible(n) ==
  LET Closure[D \in SUBSET ops] ==
        LET more == {m \in ops \ D : Emptied(m, D) \/ Orphaned(m, D)}
        IN IF more = {} THEN D ELSE Closure[D \cup more]
  IN Closure[{n}]

-----------------------------------------------------------------------------
Init == agree = TRUE /\ void = FALSE /\ links = {}

\* A position is filled: the new operations are children of old ones, which
\* keep the links they have.
Grow ==
  /\ ops \subseteq ops' /\ links \subseteq links'
  /\ \A e \in links' \ links : e[1] \in ops /\ e[2] \in ops' \ ops
  /\ \A n \in ops' \ ops : \E e \in links' : e[2] = n
  /\ void' = void

\* Operations without children are replaced by others, which inherit their
\* parents.
Replace ==
  /\ ops' \subseteq ops
  /\ \A e \in links : e[1] \in ops'
  /\ \E by \in [ops \ ops' -> ops'] :
       links' = {IF e[2] \in ops' THEN e ELSE <<e[1], by[e[2]]>> : e \in links}
  /\ void' = void

\* One operation and all that is impossible without it.  Where parents share
\* only some of their children, prune may stop short of that.
Prune ==
  /\ \E n \in ops : LET D == ops \ ops'
                    IN /\ D \subseteq Impossible(n)
                       /\ agree => D = Impossible(n)
  /\ ops' \subseteq ops
  /\ links' = {e \in links : e[1] \in ops' /\ e[2] \in ops'}
  /\ UNCHANGED <<agree, void>>

Void == void'

Next == Grow \/ Replace \/ Prune \/ Void

Spec == Init /\ [][Next]_vars
=============================================================================
