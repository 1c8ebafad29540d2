--------------------------- MODULE MCClauseBuilding ---------------------------
(***************************************************************************)
(* Instances for the modules ClauseBuilding and SubtaskOrdering, side by   *)
(* side: a behaviour works on one subject.                                 *)
(***************************************************************************)
EXTENDS ClauseBuilding, SubtaskOrdering

StructuresInit == Init /\ OrderingInit
StructuresNext ==
    \/ Next /\ UNCHANGED orderingVars
    \/ subject = "orderings" /\ OrderingNext /\ UNCHANGED vars
StructuresSpec == StructuresInit /\ [][StructuresNext]_<<vars, orderingVars>>

\* The search of module TaskNetwork, which Planning parses methods with,
\* yields the nodes in the order the steps of orderSubtasks do.
Network == INSTANCE TaskNetwork WITH htn <- <<>>
SortedAsInNetwork ==
    phase = "done" =>
      sortedNodes = Network!TopologicalOrder([n \in Keys |-> orderingNodelist[n]], <<>>,
                                             [n \in Nodes |-> 0], <<>>)

\* Conditions over the same q-constants in both orders, over one of them, over
\* one twice, and over different ones.
SomeQLists == {<<"q", "r">>, <<"r", "q">>, <<"q">>, <<"q", "q">>, <<"r", "s">>}
Bits == {0, 1}

\* Paths over <<q-constant, value>>, the q-constants in the order q, r, s.
SomePaths ==
    LET from(qs) == {[i \in DOMAIN qs |-> <<qs[i], t[i]>>] : t \in [DOMAIN qs -> Bits]}
    IN UNION {from(qs) : qs \in {<<"q">>, <<"r">>, <<"q", "r">>, <<"r", "s">>}}
       \cup {<<<<"q", 0>>, <<"r", 1>>, <<"s", 0>>>>, <<<<"s", 1>>>>, <<>>}
=============================================================================
