------------------------ MODULE MCPlanLengthCounter ------------------------
(***************************************************************************)
(* Layers of two positions of every sort, and of three positions whose     *)
(* counters need no helper variable.                                       *)
(***************************************************************************)
EXTENDS PlanLengthCounter

OpNames == {"e1", "e2", "a1", "a2"}

Spot(empty, actual) == [empty |-> empty, actual |-> actual]

\* The ways to encode a position: by the empty operations, by the actual
\* ones, or by both.
Direct ==
  {Spot({}, {"a1"}), Spot({"e1"}, {}), Spot({"e1"}, {"a1"}),
   Spot({"e1"}, {"a1", "a2"}), Spot({"e1", "e2"}, {"a1"})}

Helped == Spot({"e1", "e2"}, {"a1", "a2"})

SmallLayers ==
  [1..2 -> Direct \cup {Helped, Spot({}, {"a1", "a2"}), Spot({"e1", "e2"}, {})}]
    \cup [1..3 -> Direct]
    \cup {<<Helped, s, Helped>> : s \in Direct}
=============================================================================
