---------------------------- MODULE SubtaskOrdering ----------------------------
(***************************************************************************)
(* The subtasks of one method: createReduction collects its ordering       *)
(* constraints in a node list, one at a time, and orderSubtasks sorts the  *)
(* subtasks by depth-first searches over it, one step of the loop at a     *)
(* time. Subtasks are the numbers 1..NumSubtasks. Module TaskNetwork has   *)
(* the same search as an operator on a parsed method.                      *)
(***************************************************************************)
EXTENDS Integers, Sequences, FiniteSets, SequencesExt

CONSTANTS
    NumSubtasks,    \* subtasks of the method
    MaxOrderings    \* bound: its ordering constraints

ASSUME OrderingBounds == {NumSubtasks, MaxOrderings} \subseteq Nat

Nodes == 1..NumSubtasks

VARIABLES
    orderingNodelist,  \* the successors of every subtask, in the order they came
    phase,             \* "collect" the orderings, "sort" the nodes, "done"
    visitedStates,     \* 0 unvisited, 1 open, 2 closed
    nodeStack, sortedNodes,
    subtasks           \* _subtasks; 0 is whatever lies outside
orderingVars == <<orderingNodelist, phase, visitedStates, nodeStack, sortedNodes, subtasks>>

OrderingInit ==
    /\ orderingNodelist = [n \in Nodes |-> <<>>] /\ phase = "collect"
    /\ visitedStates = [n \in Nodes |-> 0] /\ nodeStack = <<>> /\ sortedNodes = <<>>
    /\ subtasks = [n \in Nodes |-> n]

Orderings == {o \in Nodes \X Nodes : o[2] \in ToSet(orderingNodelist[o[1]])}
\* Nodes of the map: those with a successor.
Keys == {n \in Nodes : orderingNodelist[n] # <<>>}

\* Following the orderings in order from i leads to j.
Follows(order, S) == \A o \in order : o[1] \in S => o[2] \in S
Leads(order, i, j) == \A S \in SUBSET Nodes : i \in S /\ Follows(order, S) => j \in S

-----------------------------------------------------------------------------
\* createReduction: a method's orderings are a partial order, so they have
\* no cycle.
AddOrdering(i, j) ==
    /\ phase = "collect" /\ MapThenSumSet(LAMBDA n : Len(orderingNodelist[n]), Nodes) < MaxOrderings
    /\ ~Leads(Orderings, j, i)
    /\ orderingNodelist' = [orderingNodelist EXCEPT ![i] = Append(@, j)]
    /\ UNCHANGED <<phase, visitedStates, nodeStack, sortedNodes, subtasks>>

\* Only a method with orderings is sorted.
OrderSubtasks ==
    /\ phase = "collect"
    /\ phase' = IF Keys = {} THEN "done" ELSE "sort"
    /\ UNCHANGED <<orderingNodelist, visitedStates, nodeStack, sortedNodes, subtasks>>

\* One search starts at the least unvisited node of the map.
Unvisited == {n \in Keys : visitedStates[n] = 0}
PickNode ==
    /\ phase = "sort" /\ nodeStack = <<>> /\ Unvisited # {}
    /\ nodeStack' = <<CHOOSE n \in Unvisited : \A k \in Unvisited : n <= k>>
    /\ UNCHANGED <<orderingNodelist, phase, visitedStates, sortedNodes, subtasks>>

Top == nodeStack[Len(nodeStack)]
Visit(state) == phase = "sort" /\ nodeStack # <<>> /\ visitedStates[Top] = state

\* A node pushed again after it was opened is dropped.
DropNode ==
    /\ Visit(2)
    /\ nodeStack' = SubSeq(nodeStack, 1, Len(nodeStack) - 1)
    /\ UNCHANGED <<orderingNodelist, phase, visitedStates, sortedNodes, subtasks>>

\* Variant of the next definition: nodes are appended when they are closed.
CloseNodeAppending ==
    /\ Visit(1)
    /\ nodeStack' = SubSeq(nodeStack, 1, Len(nodeStack) - 1)
    /\ visitedStates' = [visitedStates EXCEPT ![Top] = 2]
    /\ sortedNodes' = Append(sortedNodes, Top)
    /\ UNCHANGED <<orderingNodelist, phase, subtasks>>
CloseNode ==
    /\ Visit(1)
    /\ nodeStack' = SubSeq(nodeStack, 1, Len(nodeStack) - 1)
    /\ visitedStates' = [visitedStates EXCEPT ![Top] = 2]
    /\ sortedNodes' = <<Top>> \o sortedNodes
    /\ UNCHANGED <<orderingNodelist, phase, subtasks>>

\* Successors that are not closed go on the stack, one after the other.
PushOpen(stack, successors, states) ==
    LET pushed[k \in 0..Len(successors)] ==
          IF k = 0 THEN stack
          ELSE IF states[successors[k]] < 2 THEN Append(pushed[k - 1], successors[k])
          ELSE pushed[k - 1]
    IN pushed[Len(successors)]
OpenNode ==
    /\ Visit(0)
    /\ visitedStates' = [visitedStates EXCEPT ![Top] = 1]
    /\ nodeStack' = PushOpen(nodeStack, orderingNodelist[Top], visitedStates')
    /\ UNCHANGED <<orderingNodelist, phase, sortedNodes, subtasks>>

\* The code reads one sorted node per subtask, also when there are fewer.
ReorderSubtasks ==
    /\ phase = "sort" /\ nodeStack = <<>> /\ Unvisited = {}
    /\ subtasks' = [i \in Nodes |-> IF i <= Len(sortedNodes) THEN subtasks[sortedNodes[i]] ELSE 0]
    /\ phase' = "done"
    /\ UNCHANGED <<orderingNodelist, visitedStates, nodeStack, sortedNodes>>

OrderingNext ==
    \/ \E i, j \in Nodes : AddOrdering(i, j)
    \/ OrderSubtasks
    \/ PickNode \/ DropNode \/ CloseNode \/ OpenNode
    \/ ReorderSubtasks
OrderingSpec == OrderingInit /\ [][OrderingNext]_orderingVars

-----------------------------------------------------------------------------
(* Properties                                                              *)

\* orderSubtasks leaves every subtask once, in an order that keeps all the
\* method's ordering constraints, when these mention every subtask.
SubtasksOrdered ==
    phase = "done" /\ UNION {ToSet(o) : o \in Orderings} = Nodes =>
      /\ ToSet(subtasks) = Nodes
      /\ \A i, j \in Nodes : <<subtasks[i], subtasks[j]>> \in Orderings => i < j
=============================================================================
