-------------------------- MODULE SubtaskOrderingProofs --------------------------
(***************************************************************************)
(* orderSubtasks keeps the orderings: for every number of subtasks and     *)
(* every acyclic list of orderings that mentions them all.                 *)
(*                                                                         *)
(* The stack is what makes the search right. Above an open node it holds   *)
(* only nodes that the orderings lead to from there, and among them all    *)
(* of its successors that are not closed. When an open node is on top, it  *)
(* is therefore its last copy (a node that leads to itself would close a   *)
(* cycle) and all of its successors are closed, that is, already sorted:   *)
(* it may be written in front of them.                                     *)
(***************************************************************************)
EXTENDS SubtaskOrdering, FiniteLemmas, SequenceTheorems

-----------------------------------------------------------------------------
(* The invariant.                                                          *)

OrderingType ==
    /\ orderingNodelist \in [Nodes -> Seq(Nodes)]
    /\ phase \in {"collect", "sort", "done"}
    /\ visitedStates \in [Nodes -> 0..2]
    /\ nodeStack \in Seq(Nodes) /\ sortedNodes \in Seq(Nodes)

Acyclic == \A o \in Orderings : ~Leads(Orderings, o[2], o[1])

\* The sort starts from the subtasks as createReduction found them.
NotYetSorted ==
    /\ phase = "collect" => \A n \in Nodes : visitedStates[n] = 0
    /\ phase # "done" => subtasks = [n \in Nodes |-> n]

\* The sorted nodes are the closed ones, each once.
ClosedSorted ==
    /\ \A n \in Nodes : visitedStates[n] = 2 => \E i \in 1..Len(sortedNodes) : sortedNodes[i] = n
    /\ \A i \in 1..Len(sortedNodes) : visitedStates[sortedNodes[i]] = 2
    /\ \A i, j \in 1..Len(sortedNodes) : sortedNodes[i] = sortedNodes[j] => i = j

\* A closed node has its successors behind it.
SortedKeepOrderings ==
    /\ \A o \in Orderings : visitedStates[o[1]] = 2 => visitedStates[o[2]] = 2
    /\ \A i, j \in 1..Len(sortedNodes) : <<sortedNodes[i], sortedNodes[j]>> \in Orderings => i < j

\* Above an open node, the stack holds only what its orderings lead to, and
\* among it all of its successors that are not closed yet.
Below(order, n, x) == \E m \in Nodes : <<n, m>> \in order /\ Leads(order, m, x)
OpenAt(n, k) ==
    /\ nodeStack[k] = n
    /\ \A j \in (k + 1)..Len(nodeStack) : Below(Orderings, n, nodeStack[j])
    /\ \A m \in Nodes : <<n, m>> \in Orderings =>
         visitedStates[m] = 2 \/ \E j \in (k + 1)..Len(nodeStack) : nodeStack[j] = m
OpenOnStack == \A n \in Nodes : visitedStates[n] = 1 => \E k \in 1..Len(nodeStack) : OpenAt(n, k)

OrderingInv ==
    /\ OrderingType /\ Acyclic /\ NotYetSorted
    /\ ClosedSorted /\ SortedKeepOrderings /\ OpenOnStack
    /\ SubtasksOrdered

-----------------------------------------------------------------------------
(* Facts about orderings.                                                  *)

\* Every node leads to itself, but no node lies below itself.
LEMMA LeadsToItself == \A order, i : Leads(order, i, i)
BY DEF Leads

LEMMA NotBelowItself ==
  ASSUME Acyclic, NEW n \in Nodes
  PROVE  ~ Below(Orderings, n, n) /\ <<n, n>> \notin Orderings
<1>1. ~ Below(Orderings, n, n)
  BY DEF Acyclic, Below
<1>2. Leads(Orderings, n, n)
  BY LeadsToItself
<1> QED BY <1>1, <1>2 DEF Acyclic

\* An ordering that closes no cycle leaves the orderings without one.
LEMMA AcyclicGrows ==
  ASSUME NEW i \in Nodes, NEW j \in Nodes, Acyclic, ~ Leads(Orderings, j, i),
         Orderings' = Orderings \cup {<<i, j>>}
  PROVE  Acyclic'
<1>1. PICK S \in SUBSET Nodes : j \in S /\ Follows(Orderings, S) /\ i \notin S
  BY DEF Leads
<1>2. \A T \in SUBSET Nodes : Follows(Orderings, T) /\ (i \notin T \/ j \in T) => Follows(Orderings', T)
  BY DEF Follows
<1>3. SUFFICES ASSUME NEW o \in Orderings'
               PROVE  \E T \in SUBSET Nodes : o[2] \in T /\ Follows(Orderings', T) /\ o[1] \notin T
  BY DEF Acyclic, Leads
<1>4. CASE o = <<i, j>>
  BY <1>1, <1>2, <1>4
<1>5. CASE o \in Orderings
  <2>1. PICK T \in SUBSET Nodes : o[2] \in T /\ Follows(Orderings, T) /\ o[1] \notin T
    BY <1>5 DEF Acyclic, Leads
  <2>2. CASE i \notin T
    BY <1>2, <2>1, <2>2
  <2>3. CASE o[1] \notin S
    <3>1. S \cup T \in SUBSET Nodes /\ Follows(Orderings, S \cup T)
      BY <1>1, <2>1 DEF Follows
    <3> QED BY <1>1, <1>2, <2>1, <2>3, <3>1
  <2>4. CASE o[1] \in S
    <3>1. o[2] \in S
      BY <1>1, <1>5, <2>4 DEF Follows
    <3>2. S \cap T \in SUBSET Nodes /\ Follows(Orderings, S \cap T)
      BY <1>1, <2>1 DEF Follows
    <3> QED BY <1>1, <1>2, <2>1, <3>1, <3>2
  <2> QED BY <2>2, <2>3, <2>4
<1> QED BY <1>3, <1>4, <1>5

-----------------------------------------------------------------------------
(* The loop that pushes the successors.                                    *)

\* What PushOpen puts on the stack.
LEMMA PushOpenAppends ==
  ASSUME NEW stack \in Seq(Nodes), NEW ms \in Seq(Nodes), NEW st \in [Nodes -> 0..2]
  PROVE  LET p == PushOpen(stack, ms, st)
         IN /\ p \in Seq(Nodes) /\ Len(stack) <= Len(p)
            /\ \A i \in 1..Len(stack) : p[i] = stack[i]
            /\ \A j \in (Len(stack) + 1)..Len(p) : \E i \in 1..Len(ms) : p[j] = ms[i]
            /\ \A i \in 1..Len(ms) :
                 st[ms[i]] < 2 => \E j \in (Len(stack) + 1)..Len(p) : p[j] = ms[i]
<1> DEFINE S == Seq(Nodes)
           n == Len(ms)
           Body(g) == [k \in 0..n |-> IF k = 0 THEN stack
                                      ELSE IF st[ms[k]] < 2 THEN Append(g[k - 1], ms[k]) ELSE g[k - 1]]
           pushed == CHOOSE g : g = Body(g)
           step == [k \in 1..n |-> [s \in S |-> IF st[ms[k]] < 2 THEN Append(s, ms[k]) ELSE s]]
<1>1. n \in Nat /\ \A k \in 1..n : ms[k] \in Nodes
  BY LenProperties, ElementOfSeq
<1>2. PushOpen(stack, ms, st) = pushed[n]
  BY DEF PushOpen
<1>3. step \in [1..n -> [S -> S]]
  <2>1. \A k \in 1..n : \A s \in S : Append(s, ms[k]) \in S
    BY <1>1, AppendProperties
  <2> QED BY <2>1
<1>4. PICK f \in [0..n -> S] : f[0] = stack /\ \A k \in 1..n : f[k] = step[k][f[k - 1]]
  <2>1. stack \in S
    OBVIOUS
  <2>2. n \in Nat
    BY <1>1
  <2> HIDE DEF S, n, step
  <2>3. \E f \in [0..n -> S] : Iterates(f, n, stack, step)
    BY <1>3, <2>1, <2>2, BoundedRecursion, Zenon
  <2> QED BY <2>3 DEF Iterates
<1>5. \E g : g = Body(g)
  <2>1. ASSUME NEW k \in 0..n
        PROVE  f[k] = IF k = 0 THEN stack
                      ELSE IF st[ms[k]] < 2 THEN Append(f[k - 1], ms[k]) ELSE f[k - 1]
    <3>1. CASE k = 0
      BY <1>4, <3>1
    <3>2. CASE k # 0
      <4>1. k \in 1..n /\ k - 1 \in 0..n
        BY <1>1, <3>2
      <4>2. f[k] = step[k][f[k - 1]] /\ f[k - 1] \in S
        BY <1>4, <4>1
      <4>3. step[k][f[k - 1]] = IF st[ms[k]] < 2 THEN Append(f[k - 1], ms[k]) ELSE f[k - 1]
        BY <4>1, <4>2
      <4> QED BY <3>2, <4>2, <4>3, Zenon
    <3> QED BY <3>1, <3>2
  <2>2. f = [k \in 0..n |-> f[k]]
    BY <1>4
  <2>3. f = Body(f)
    BY <2>1, <2>2
  <2> QED BY <2>3
<1>6. pushed = Body(pushed)
  <2> HIDE DEF Body
  <2> QED BY <1>5, Zenon
<1> HIDE DEF pushed
<1>7. \A k \in 0..n : pushed[k] = IF k = 0 THEN stack
                      ELSE IF st[ms[k]] < 2 THEN Append(pushed[k - 1], ms[k]) ELSE pushed[k - 1]
  <2> DEFINE e(k) == IF k = 0 THEN stack
                      ELSE IF st[ms[k]] < 2 THEN Append(pushed[k - 1], ms[k]) ELSE pushed[k - 1]
  <2>1. pushed = [k \in 0..n |-> e(k)]
    BY <1>6, Zenon
  <2> HIDE DEF e
  <2>2. \A k \in 0..n : pushed[k] = e(k)
    BY <2>1
  <2> QED BY <2>2 DEF e
<1> HIDE DEF Body, step, n
<1> DEFINE Good(k) ==
      /\ pushed[k] \in Seq(Nodes) /\ Len(stack) <= Len(pushed[k])
      /\ \A i \in 1..Len(stack) : pushed[k][i] = stack[i]
      /\ \A j \in (Len(stack) + 1)..Len(pushed[k]) : \E i \in 1..k : pushed[k][j] = ms[i]
      /\ \A i \in 1..k :
           st[ms[i]] < 2 => \E j \in (Len(stack) + 1)..Len(pushed[k]) : pushed[k][j] = ms[i]
           B == {k \in Nat : k <= n /\ ~ Good(k)}
<1>8. ASSUME B # {} PROVE FALSE
  <2>1. PICK k \in B : \A y \in B : k <= y
    <3> HIDE DEF B
    <3>1. B \subseteq Nat
      BY DEF B
    <3> QED BY <1>8, <3>1, LeastNumber
  <2>2. k \in Nat /\ k <= n /\ ~ Good(k) /\ Len(stack) \in Nat
    BY LenProperties
  <2>3. CASE k = 0
    <3>1. pushed[k] = stack
      BY <1>1, <1>7, <2>3
    <3>2. 1..k = {} /\ (Len(stack) + 1)..Len(stack) = {}
      BY <2>2, <2>3
    <3> HIDE DEF pushed
    <3> QED BY <2>2, <3>1, <3>2
  <2>4. CASE k # 0
    <3>1. k - 1 \in Nat /\ k - 1 <= n /\ ~ (k <= k - 1) /\ k \in 1..n /\ k \in 0..n
      BY <1>1, <2>2, <2>4
    <3>2. Good(k - 1)
      <4> HIDE DEF Good
      <4> QED BY <2>1, <3>1
    <3> DEFINE s == pushed[k - 1]
    <3>3. /\ s \in Seq(Nodes) /\ Len(stack) <= Len(s) /\ Len(s) \in Nat
          /\ \A i \in 1..Len(stack) : s[i] = stack[i]
          /\ \A j \in (Len(stack) + 1)..Len(s) : \E i \in 1..(k - 1) : s[j] = ms[i]
          /\ \A i \in 1..(k - 1) :
               st[ms[i]] < 2 => \E j \in (Len(stack) + 1)..Len(s) : s[j] = ms[i]
      <4>1. s \in Seq(Nodes)
        BY <3>2
      <4>2. Len(s) \in Nat
        <5> HIDE DEF s
        <5> QED BY <4>1, LenProperties
      <4> QED BY <3>2, <4>2
    <3>4. ms[k] \in Nodes
      BY <1>1, <3>1
    <3>5. CASE ~ (st[ms[k]] < 2)
      <4>1. pushed[k] = s
        BY <1>7, <3>1, <3>5, <2>4
      <4> HIDE DEF s
      <4>2. \A j \in (Len(stack) + 1)..Len(s) : \E i \in 1..k : s[j] = ms[i]
        <5>1. \A i \in 1..(k - 1) : i \in 1..k
          BY <2>2
        <5> QED BY <3>3, <5>1
      <4>3. \A i \in 1..k : st[ms[i]] < 2 => \E j \in (Len(stack) + 1)..Len(s) : s[j] = ms[i]
        <5>1. \A i \in 1..k : i # k => i \in 1..(k - 1)
          BY <2>2
        <5> QED BY <3>3, <3>5, <5>1
      <4> QED BY <2>2, <3>3, <4>1, <4>2, <4>3
    <3>6. CASE st[ms[k]] < 2
      <4> DEFINE t == Append(s, ms[k])
      <4>1. pushed[k] = t
        BY <1>7, <3>1, <3>6, <2>4
      <4>2. t \in Seq(Nodes) /\ Len(t) = Len(s) + 1 /\ t[Len(s) + 1] = ms[k]
            /\ \A i \in 1..Len(s) : t[i] = s[i]
        <5> HIDE DEF s
        <5> QED BY <3>3, <3>4, AppendProperties
      <4> HIDE DEF t, s
      <4>3. \A i \in 1..Len(stack) : t[i] = stack[i]
        BY <2>2, <3>3, <4>2
      <4>4. ASSUME NEW j \in (Len(stack) + 1)..Len(t) PROVE \E i \in 1..k : t[j] = ms[i]
        <5>1. CASE j = Len(s) + 1
          BY <3>1, <4>2, <5>1
        <5>2. CASE j # Len(s) + 1
          <6>1. j \in (Len(stack) + 1)..Len(s) /\ j \in 1..Len(s)
            BY <2>2, <3>3, <4>2, <5>2
          <6>2. PICK i \in 1..(k - 1) : s[j] = ms[i]
            BY <3>3, <6>1
          <6>3. i \in 1..k /\ t[j] = s[j]
            BY <2>2, <4>2, <6>1
          <6> QED BY <6>2, <6>3
        <5> QED BY <5>1, <5>2
      <4>5. ASSUME NEW i \in 1..k, st[ms[i]] < 2
            PROVE  \E j \in (Len(stack) + 1)..Len(t) : t[j] = ms[i]
        <5>1. CASE i = k
          <6>1. Len(s) + 1 \in (Len(stack) + 1)..Len(t)
            BY <2>2, <3>3, <4>2
          <6> QED BY <4>2, <5>1, <6>1
        <5>2. CASE i # k
          <6>1. i \in 1..(k - 1)
            BY <2>2, <5>2
          <6>2. PICK j \in (Len(stack) + 1)..Len(s) : s[j] = ms[i]
            BY <3>3, <4>5, <6>1
          <6>3. j \in (Len(stack) + 1)..Len(t) /\ j \in 1..Len(s)
            BY <2>2, <3>3, <4>2
          <6> QED BY <4>2, <6>2, <6>3
        <5> QED BY <5>1, <5>2
      <4>6. Len(stack) <= Len(t)
        BY <2>2, <3>3, <4>2
      <4> QED BY <2>2, <4>1, <4>2, <4>3, <4>4, <4>5, <4>6
    <3> QED BY <3>5, <3>6
  <2> QED BY <2>3, <2>4
<1>9. n \notin B
  BY <1>8
<1>10. Good(n)
  <2> HIDE DEF Good
  <2> QED BY <1>1, <1>9
<1> QED BY <1>2, <1>10 DEF n

-----------------------------------------------------------------------------
(* The steps.                                                              *)

LEMMA OrderingInitInv == OrderingInit => OrderingInv
<1> SUFFICES ASSUME OrderingInit PROVE OrderingInv
  OBVIOUS
<1>1. \A S : <<>> \in Seq(S) /\ Len(<<>>) = 0
  BY EmptySeq
<1>2. OrderingType
  BY <1>1 DEF OrderingInit, OrderingType
<1>3. Orderings = {}
  BY <1>1 DEF OrderingInit, Orderings, ToSet
<1>4. Acyclic /\ SortedKeepOrderings /\ SubtasksOrdered
  BY <1>1, <1>3 DEF OrderingInit, Acyclic, SortedKeepOrderings, SubtasksOrdered
<1>5. NotYetSorted /\ ClosedSorted /\ OpenOnStack
  BY <1>1 DEF OrderingInit, NotYetSorted, ClosedSorted, OpenOnStack
<1> QED BY <1>2, <1>4, <1>5 DEF OrderingInv

\* What the orderings say of a state depends on the node list alone.
LEMMA SameOrderings ==
  ASSUME orderingNodelist' = orderingNodelist
  PROVE  /\ Orderings' = Orderings /\ Keys' = Keys
         /\ Acyclic' <=> Acyclic
 BY DEF Orderings, Keys, Acyclic

LEMMA AddOrderingInv ==
  ASSUME OrderingInv, NEW i \in Nodes, NEW j \in Nodes, AddOrdering(i, j)
  PROVE  OrderingInv'
<1> USE DEF OrderingInv
<1>1. /\ phase = "collect" /\ ~ Leads(Orderings, j, i)
      /\ orderingNodelist' = [orderingNodelist EXCEPT ![i] = Append(@, j)]
      /\ UNCHANGED <<phase, visitedStates, nodeStack, sortedNodes, subtasks>>
  BY DEF AddOrdering
<1>2. Append(orderingNodelist[i], j) \in Seq(Nodes)
      /\ ToSet(Append(orderingNodelist[i], j)) = ToSet(orderingNodelist[i]) \cup {j}
  <2>1. orderingNodelist[i] \in Seq(Nodes)
    BY DEF OrderingType
  <2> DEFINE s == orderingNodelist[i]
             t == Append(s, j)
  <2>2. Len(s) \in Nat /\ DOMAIN s = 1..Len(s)
    BY <2>1, LenProperties
  <2>3. t \in Seq(Nodes) /\ Len(t) = Len(s) + 1 /\ t[Len(s) + 1] = j
        /\ \A k \in 1..Len(s) : t[k] = s[k]
    BY <2>1, AppendProperties
  <2>4. DOMAIN t = 1..Len(t)
    BY <2>3, LenProperties
  <2> HIDE DEF s, t
  <2>5. ToSet(t) = ToSet(s) \cup {j}
    BY <2>2, <2>3, <2>4 DEF ToSet
  <2> QED BY <2>3, <2>5 DEF s, t
<1>3. OrderingType'
  BY <1>1, <1>2 DEF OrderingType
<1>4. Orderings' = Orderings \cup {<<i, j>>}
  <2>1. \A n \in Nodes : orderingNodelist'[n] = IF n = i THEN Append(orderingNodelist[i], j) ELSE orderingNodelist[n]
    BY <1>1 DEF OrderingType
  <2>2. \A n \in Nodes : ToSet(orderingNodelist'[n])
           = IF n = i THEN ToSet(orderingNodelist[i]) \cup {j} ELSE ToSet(orderingNodelist[n])
    BY <1>2, <2>1, Zenon
  <2> QED BY <2>2 DEF Orderings
<1>5. Acyclic'
  BY <1>1, <1>4, AcyclicGrows
<1>6. NotYetSorted' /\ ClosedSorted'
  BY <1>1 DEF NotYetSorted, ClosedSorted
<1>7. \A n \in Nodes : visitedStates'[n] = 0 /\ visitedStates[n] = 0
  BY <1>1 DEF NotYetSorted
<1>8. Len(sortedNodes) = 0
  <2>1. Len(sortedNodes) \in Nat
    BY LenProperties DEF OrderingType
  <2>2. \A k \in 1..Len(sortedNodes) : sortedNodes[k] \in Nodes
    BY ElementOfSeq DEF OrderingType
  <2>3. \A k \in 1..Len(sortedNodes) : FALSE
    BY <1>7, <2>2 DEF ClosedSorted
  <2> QED BY <2>1, <2>3
<1>9. SortedKeepOrderings'
  <2>1. \A o \in Orderings' : o[1] \in Nodes
    BY DEF Orderings
  <2> QED BY <1>1, <1>7, <1>8, <2>1 DEF SortedKeepOrderings
<1>10. OpenOnStack'
  BY <1>7 DEF OpenOnStack
<1>11. SubtasksOrdered'
  BY <1>1 DEF SubtasksOrdered
<1> QED BY <1>3, <1>5, <1>6, <1>9, <1>10, <1>11

LEMMA OrderSubtasksInv ==
  ASSUME OrderingInv, OrderSubtasks
  PROVE  OrderingInv'
<1> USE DEF OrderingInv
<1>1. /\ phase = "collect" /\ phase' = IF Keys = {} THEN "done" ELSE "sort"
      /\ UNCHANGED <<orderingNodelist, visitedStates, nodeStack, sortedNodes, subtasks>>
  BY DEF OrderSubtasks
<1>2. Orderings' = Orderings /\ Acyclic'
  BY <1>1, SameOrderings
<1>3. OrderingType' /\ ClosedSorted' /\ SortedKeepOrderings'
  BY <1>1, <1>2 DEF OrderingType, ClosedSorted, SortedKeepOrderings
<1>4. OpenOnStack' /\ NotYetSorted'
  BY <1>1, <1>2 DEF OpenOnStack, OpenAt, NotYetSorted
<1>5. SubtasksOrdered'
  <2> SUFFICES ASSUME phase' = "done", UNION {ToSet(o) : o \in Orderings'} = Nodes
               PROVE  ToSet(subtasks') = Nodes /\ Orderings' = {}
    BY DEF SubtasksOrdered
  <2>1. Keys = {}
    BY <1>1
  <2>2. \A n \in Nodes : ToSet(orderingNodelist[n]) = {}
    <3>1. \A n \in Nodes : orderingNodelist[n] = <<>>
      BY <2>1 DEF Keys
    <3>2. ToSet(<<>>) = {}
      BY DEF ToSet
    <3> QED BY <3>1, <3>2, Zenon
  <2>3. Orderings' = {}
    <3>1. ASSUME NEW o \in Orderings PROVE FALSE
      <4>1. o[1] \in Nodes /\ o[2] \in ToSet(orderingNodelist[o[1]])
        BY DEF Orderings
      <4> QED BY <2>2, <4>1
    <3> QED BY <1>2, <3>1
  <2>4. subtasks' = [n \in Nodes |-> n]
    BY <1>1 DEF NotYetSorted
  <2>5. ToSet(subtasks') = Nodes
    BY <2>4 DEF ToSet
  <2> QED BY <2>3, <2>5
<1> QED BY <1>2, <1>3, <1>4, <1>5

\* The stack without its top.
LEMMA PopStack ==
  ASSUME OrderingType, nodeStack # <<>>
  PROVE  LET s == SubSeq(nodeStack, 1, Len(nodeStack) - 1)
         IN /\ Len(nodeStack) \in Nat \ {0} /\ Top \in Nodes
            /\ s \in Seq(Nodes) /\ Len(s) = Len(nodeStack) - 1
            /\ \A i \in 1..Len(s) : s[i] = nodeStack[i]
<1>1. nodeStack \in Seq(Nodes) /\ Len(nodeStack) \in Nat \ {0}
  BY EmptySeq DEF OrderingType
<1>2. \A i \in 1..Len(nodeStack) : nodeStack[i] \in Nodes
  BY <1>1, ElementOfSeq
<1> DEFINE s == SubSeq(nodeStack, 1, Len(nodeStack) - 1)
<1>3. s \in Seq(Nodes) /\ Len(s) = Len(nodeStack) - 1 /\ \A i \in 1..(Len(nodeStack) - 1) : s[i] = nodeStack[i]
  <2> DEFINE n == Len(nodeStack) - 1
  <2>1. n \in Nat /\ \A i \in 1..n : nodeStack[i] \in Nodes
    BY <1>1, <1>2
  <2>2. /\ SubSeq(nodeStack, 1, n) \in Seq(Nodes)
        /\ Len(SubSeq(nodeStack, 1, n)) = IF 1 <= n THEN n - 1 + 1 ELSE 0
        /\ \A i \in 1..(n - 1 + 1) : SubSeq(nodeStack, 1, n)[i] = nodeStack[1 + i - 1]
    <3> HIDE DEF n
    <3> QED BY <2>1, SubSeqProperties
  <2>3. Len(s) = n
    <3>1. Len(s) = IF 1 <= n THEN n - 1 + 1 ELSE 0
      BY <2>2, Zenon
    <3> HIDE DEF s, n
    <3> QED BY <2>1, <3>1
  <2>4. \A i \in 1..n : i \in 1..(n - 1 + 1) /\ 1 + i - 1 = i
    BY <2>1
  <2> QED BY <2>2, <2>3, <2>4
<1>4. Top \in Nodes
  BY <1>1, <1>2 DEF Top
<1> QED BY <1>1, <1>3, <1>4

LEMMA PickNodeInv ==
  ASSUME OrderingInv, PickNode
  PROVE  OrderingInv'
<1> USE DEF OrderingInv
<1>1. /\ phase = "sort" /\ nodeStack = <<>> /\ Unvisited # {}
      /\ nodeStack' = <<CHOOSE n \in Unvisited : \A k \in Unvisited : n <= k>>
      /\ UNCHANGED <<orderingNodelist, phase, visitedStates, sortedNodes, subtasks>>
  BY DEF PickNode
<1>2. (CHOOSE n \in Unvisited : \A k \in Unvisited : n <= k) \in Nodes
  <2>1. Unvisited \subseteq Nat /\ Unvisited \subseteq Nodes
    BY DEF Unvisited, Keys, Nodes
  <2>2. \E n \in Unvisited : \A k \in Unvisited : n <= k
    BY <1>1, <2>1, LeastNumber
  <2> QED BY <2>1, <2>2
<1>3. nodeStack' \in Seq(Nodes)
  BY <1>1, <1>2
<1>4. Orderings' = Orderings /\ Acyclic'
  BY <1>1, SameOrderings
<1>5. OrderingType' /\ ClosedSorted' /\ SortedKeepOrderings' /\ NotYetSorted'
  BY <1>1, <1>3, <1>4 DEF OrderingType, ClosedSorted, SortedKeepOrderings, NotYetSorted
<1>6. OpenOnStack'
  <2>1. Len(nodeStack) = 0
    BY <1>1, EmptySeq
  <2>2. \A n \in Nodes : visitedStates[n] # 1
    BY <2>1 DEF OpenOnStack
  <2> QED BY <1>1, <2>2 DEF OpenOnStack
<1>7. SubtasksOrdered'
  BY <1>1 DEF SubtasksOrdered
<1> QED BY <1>4, <1>5, <1>6, <1>7

LEMMA DropNodeInv ==
  ASSUME OrderingInv, DropNode
  PROVE  OrderingInv'
<1> USE DEF OrderingInv
<1> DEFINE s == SubSeq(nodeStack, 1, Len(nodeStack) - 1)
           len == Len(nodeStack)
<1>1. /\ phase = "sort" /\ nodeStack # <<>> /\ visitedStates[Top] = 2
      /\ nodeStack' = s
      /\ UNCHANGED <<orderingNodelist, phase, visitedStates, sortedNodes, subtasks>>
  BY DEF DropNode, Visit
<1>2. /\ len \in Nat \ {0} /\ Top \in Nodes /\ Top = nodeStack[len]
      /\ s \in Seq(Nodes) /\ Len(s) = len - 1 /\ \A i \in 1..(len - 1) : s[i] = nodeStack[i]
  BY <1>1, PopStack DEF Top
<1>3. Orderings' = Orderings /\ Acyclic'
  BY <1>1, SameOrderings
<1>4. OrderingType' /\ ClosedSorted' /\ SortedKeepOrderings' /\ NotYetSorted'
  BY <1>1, <1>2, <1>3 DEF OrderingType, ClosedSorted, SortedKeepOrderings, NotYetSorted
<1>5. OpenOnStack'
  <2> SUFFICES ASSUME NEW n \in Nodes, visitedStates[n] = 1
               PROVE  \E k \in 1..Len(nodeStack') : OpenAt(n, k)'
    BY <1>1 DEF OpenOnStack
  <2>1. PICK k \in 1..len : OpenAt(n, k)
    BY DEF OpenOnStack
  <2> HIDE DEF s, len
  <2>2. Len(nodeStack') = len - 1 /\ \A i \in 1..(len - 1) : nodeStack'[i] = nodeStack[i]
    BY <1>1, <1>2
  <2>3. k \in 1..(len - 1)
    BY <1>1, <1>2, <2>1 DEF OpenAt
  <2>4. \A j \in (k + 1)..(len - 1) : j \in (k + 1)..len /\ j \in 1..(len - 1)
    BY <1>2, <2>3
  <2>5. nodeStack'[k] = n
    BY <2>1, <2>2, <2>3 DEF OpenAt
  <2>6. \A j \in (k + 1)..(len - 1) : Below(Orderings, n, nodeStack'[j])
    <3>1. \A j \in (k + 1)..(len - 1) : Below(Orderings, n, nodeStack[j])
      BY <2>1, <2>4 DEF OpenAt, len
    <3> QED BY <2>2, <2>4, <3>1
  <2>7. ASSUME NEW m \in Nodes, <<n, m>> \in Orderings, visitedStates[m] # 2
        PROVE  \E j \in (k + 1)..(len - 1) : nodeStack'[j] = m
    <3>1. PICK j \in (k + 1)..len : nodeStack[j] = m
      BY <2>1, <2>7 DEF OpenAt, len
    <3>2. j \in (k + 1)..(len - 1)
      BY <1>1, <1>2, <2>7, <3>1
    <3> QED BY <2>2, <2>4, <3>1, <3>2
  <2>8. OpenAt(n, k)'
    BY <1>1, <1>3, <2>2, <2>5, <2>6, <2>7 DEF OpenAt
  <2> QED BY <2>2, <2>3, <2>8
<1>6. SubtasksOrdered'
  BY <1>1 DEF SubtasksOrdered
<1> QED BY <1>3, <1>4, <1>5, <1>6

LEMMA CloseNodeInv ==
  ASSUME OrderingInv, CloseNode
  PROVE  OrderingInv'
<1> USE DEF OrderingInv
<1> DEFINE s == SubSeq(nodeStack, 1, Len(nodeStack) - 1)
           len == Len(nodeStack)
           new == <<Top>> \o sortedNodes
           l == Len(sortedNodes)
<1>1. /\ phase = "sort" /\ nodeStack # <<>> /\ visitedStates[Top] = 1
      /\ nodeStack' = s /\ sortedNodes' = new
      /\ visitedStates' = [visitedStates EXCEPT ![Top] = 2]
      /\ UNCHANGED <<orderingNodelist, phase, subtasks>>
  BY DEF CloseNode, Visit
<1>2. /\ len \in Nat \ {0} /\ Top \in Nodes /\ Top = nodeStack[len]
      /\ s \in Seq(Nodes) /\ Len(s) = len - 1 /\ \A i \in 1..(len - 1) : s[i] = nodeStack[i]
  BY <1>1, PopStack DEF Top
<1>3. /\ l \in Nat /\ new \in Seq(Nodes) /\ Len(new) = l + 1 /\ new[1] = Top
      /\ \A i \in 2..(l + 1) : new[i] = sortedNodes[i - 1] /\ i - 1 \in 1..l
      /\ \A i \in 1..l : sortedNodes[i] \in Nodes
  <2>1. sortedNodes \in Seq(Nodes) /\ l \in Nat /\ \A i \in 1..l : sortedNodes[i] \in Nodes
    BY LenProperties, ElementOfSeq DEF OrderingType
  <2>2. <<Top>> \in Seq(Nodes) /\ Len(<<Top>>) = 1 /\ <<Top>>[1] = Top
    BY <1>2
  <2>3. /\ new \in Seq(Nodes) /\ Len(new) = 1 + l
        /\ \A i \in 1..(1 + l) : new[i] = IF i <= 1 THEN <<Top>>[i] ELSE sortedNodes[i - 1]
    BY <2>1, <2>2, ConcatProperties
  <2> HIDE DEF new
  <2>4. new[1] = Top
    BY <2>1, <2>2, <2>3
  <2>5. \A i \in 2..(l + 1) : i - 1 \in 1..l /\ i \in 1..(1 + l) /\ ~ (i <= 1)
    BY <2>1
  <2> QED BY <2>1, <2>3, <2>4, <2>5
<1> HIDE DEF s, len, new, l
<1>4. \A n \in Nodes : visitedStates'[n] = (IF n = Top THEN 2 ELSE visitedStates[n])
      /\ visitedStates' \in [Nodes -> 0..2] /\ visitedStates \in [Nodes -> 0..2]
  BY <1>1, <1>2 DEF OrderingType
<1>5. Orderings' = Orderings /\ Acyclic'
  BY <1>1, SameOrderings
<1>6. OrderingType' /\ NotYetSorted' /\ SubtasksOrdered'
  BY <1>1, <1>2, <1>3, <1>4, <1>5 DEF OrderingType, NotYetSorted, SubtasksOrdered
\* The top lies below no open node but itself, so its successors are closed.
<1>7. \A m \in Nodes : <<Top, m>> \in Orderings => visitedStates[m] = 2
  <2>1. PICK k \in 1..len : OpenAt(Top, k)
    BY <1>1, <1>2 DEF OpenOnStack, len
  <2>2. CASE k = len
    BY <1>2, <2>1, <2>2 DEF OpenAt, len
  <2>3. CASE k # len
    <3>1. len \in (k + 1)..len
      BY <1>2, <2>1, <2>3
    <3>2. Below(Orderings, Top, Top)
      BY <1>2, <2>1, <3>1 DEF OpenAt, len
    <3> QED BY <1>2, <3>2, NotBelowItself
  <2> QED BY <2>2, <2>3
<1>8. ClosedSorted'
  <2>1. ASSUME NEW n \in Nodes, visitedStates'[n] = 2
        PROVE  \E i \in 1..(l + 1) : new[i] = n
    <3>1. CASE n = Top
      BY <1>3, <3>1
    <3>2. CASE n # Top
      <4>1. PICK i \in 1..l : sortedNodes[i] = n
        BY <1>4, <2>1, <3>2 DEF ClosedSorted, l
      <4>2. i + 1 \in 2..(l + 1) /\ i + 1 - 1 = i /\ i + 1 \in 1..(l + 1)
        BY <1>3
      <4>3. new[i + 1] = sortedNodes[i + 1 - 1]
        BY <1>3, <4>2
      <4> QED BY <4>1, <4>2, <4>3
    <3> QED BY <3>1, <3>2
  <2>2. \A i \in 1..l : visitedStates[sortedNodes[i]] = 2 /\ sortedNodes[i] # Top
    BY <1>1 DEF ClosedSorted, l
  <2>3. \A i \in 1..(l + 1) : i = 1 \/ i \in 2..(l + 1)
    BY <1>3
  <2>4. \A i \in 1..(l + 1) : visitedStates'[new[i]] = 2
    <3>1. \A i \in 2..(l + 1) : visitedStates'[new[i]] = 2
      BY <1>3, <1>4, <2>2
    <3>2. visitedStates'[new[1]] = 2
      BY <1>2, <1>3, <1>4
    <3> QED BY <2>3, <3>1, <3>2
  <2>5. ASSUME NEW i \in 1..(l + 1), NEW j \in 1..(l + 1), new[i] = new[j] PROVE i = j
    <3>1. \A k \in 2..(l + 1) : new[k] # new[1]
      BY <1>3, <2>2
    <3>2. CASE i = 1 \/ j = 1
      BY <2>3, <2>5, <3>1, <3>2
    <3>3. CASE i \in 2..(l + 1) /\ j \in 2..(l + 1)
      <4>1. i - 1 \in 1..l /\ j - 1 \in 1..l /\ sortedNodes[i - 1] = sortedNodes[j - 1]
        BY <1>3, <2>5, <3>3
      <4>2. i - 1 = j - 1
        BY <4>1 DEF ClosedSorted, l
      <4> QED BY <3>3, <4>2
    <3> QED BY <2>3, <3>2, <3>3
  <2> QED BY <1>1, <1>3, <2>1, <2>4, <2>5 DEF ClosedSorted
<1>9. SortedKeepOrderings'
  <2>1. ASSUME NEW o \in Orderings, visitedStates'[o[1]] = 2 PROVE visitedStates'[o[2]] = 2
    <3>1. o[1] \in Nodes /\ o[2] \in Nodes /\ o = <<o[1], o[2]>>
      BY DEF Orderings
    <3>2. visitedStates[o[2]] = 2
      <4>1. CASE o[1] = Top
        BY <1>7, <3>1, <4>1
      <4>2. CASE o[1] # Top
        BY <1>4, <2>1, <3>1, <4>2 DEF SortedKeepOrderings
      <4> QED BY <4>1, <4>2
    <3> QED BY <1>4, <3>1, <3>2
  <2>2. ASSUME NEW i \in 1..(l + 1), NEW j \in 1..(l + 1), <<new[i], new[j]>> \in Orderings PROVE i < j
    <3>0. i \in Nat /\ j \in Nat /\ i >= 1 /\ j >= 1
      OBVIOUS
    <3>1. CASE i = 1 /\ j = 1
      BY <1>2, <1>3, <2>2, <3>1, NotBelowItself
    <3>2. CASE i = 1 /\ j # 1
      BY <3>0, <3>2
    <3>3. CASE i # 1 /\ j = 1
      <4>1. i \in 2..(l + 1)
        BY <1>3, <3>0, <3>3
      <4>2. visitedStates[new[i]] = 2
        BY <1>3, <4>1 DEF ClosedSorted, l
      <4>3. visitedStates[Top] = 2
        <5>1. \A o \in Orderings : visitedStates[o[1]] = 2 => visitedStates[o[2]] = 2
          BY DEF SortedKeepOrderings
        <5>2. <<new[i], Top>> \in Orderings
          BY <1>3, <2>2, <3>3
        <5> QED BY <4>2, <5>1, <5>2
      <4> QED BY <1>1, <4>3
    <3>4. CASE i # 1 /\ j # 1
      <4>1. i \in 2..(l + 1) /\ j \in 2..(l + 1)
        BY <1>3, <3>0, <3>4
      <4>2. i - 1 \in 1..l /\ j - 1 \in 1..l /\ <<sortedNodes[i - 1], sortedNodes[j - 1]>> \in Orderings
        BY <1>3, <2>2, <4>1
      <4>3. i - 1 < j - 1
        BY <4>2 DEF SortedKeepOrderings, l
      <4> QED BY <3>0, <4>3
    <3> QED BY <3>1, <3>2, <3>3, <3>4
  <2> QED BY <1>1, <1>3, <1>5, <2>1, <2>2 DEF SortedKeepOrderings
<1>10. OpenOnStack'
  <2> SUFFICES ASSUME NEW n \in Nodes, visitedStates'[n] = 1
               PROVE  \E k \in 1..Len(nodeStack') : OpenAt(n, k)'
    BY DEF OpenOnStack
  <2>0. n # Top /\ visitedStates[n] = 1
    BY <1>2, <1>4
  <2>1. PICK k \in 1..len : OpenAt(n, k)
    BY <2>0 DEF OpenOnStack, len
  <2>2. Len(nodeStack') = len - 1 /\ \A i \in 1..(len - 1) : nodeStack'[i] = nodeStack[i]
    BY <1>1, <1>2
  <2>3. k \in 1..(len - 1)
    BY <1>2, <2>0, <2>1 DEF OpenAt
  <2>4. \A j \in (k + 1)..(len - 1) : j \in (k + 1)..len /\ j \in 1..(len - 1)
    BY <1>2, <2>3
  <2>5. nodeStack'[k] = n
    BY <2>1, <2>2, <2>3 DEF OpenAt
  <2>6. \A j \in (k + 1)..(len - 1) : Below(Orderings, n, nodeStack'[j])
    <3>1. \A j \in (k + 1)..(len - 1) : Below(Orderings, n, nodeStack[j])
      BY <2>1, <2>4 DEF OpenAt, len
    <3> QED BY <2>2, <2>4, <3>1
  <2>7. ASSUME NEW m \in Nodes, <<n, m>> \in Orderings, visitedStates'[m] # 2
        PROVE  \E j \in (k + 1)..(len - 1) : nodeStack'[j] = m
    <3>0. m # Top /\ visitedStates[m] # 2
      BY <1>2, <1>4, <2>7
    <3>1. PICK j \in (k + 1)..len : nodeStack[j] = m
      BY <2>1, <2>7, <3>0 DEF OpenAt, len
    <3>2. j \in (k + 1)..(len - 1)
      BY <1>2, <3>0, <3>1
    <3> QED BY <2>2, <2>4, <3>1, <3>2
  <2>8. OpenAt(n, k)'
    BY <1>5, <2>2, <2>5, <2>6, <2>7 DEF OpenAt
  <2> QED BY <2>2, <2>3, <2>8
<1> QED BY <1>5, <1>6, <1>8, <1>9, <1>10

LEMMA OpenNodeInv ==
  ASSUME OrderingInv, OpenNode
  PROVE  OrderingInv'
<1> USE DEF OrderingInv
<1> DEFINE ms == orderingNodelist[Top]
           states == [visitedStates EXCEPT ![Top] = 1]
           p == PushOpen(nodeStack, ms, states)
           len == Len(nodeStack)
<1>1. /\ phase = "sort" /\ nodeStack # <<>> /\ visitedStates[Top] = 0
      /\ visitedStates' = states /\ nodeStack' = p
      /\ UNCHANGED <<orderingNodelist, phase, sortedNodes, subtasks>>
  BY DEF OpenNode, Visit
<1>2. len \in Nat \ {0} /\ Top \in Nodes /\ Top = nodeStack[len]
  BY <1>1, PopStack DEF Top
<1>3. /\ states \in [Nodes -> 0..2] /\ visitedStates \in [Nodes -> 0..2]
      /\ \A n \in Nodes : states[n] = IF n = Top THEN 1 ELSE visitedStates[n]
  BY <1>2 DEF OrderingType
<1>4. ms \in Seq(Nodes) /\ nodeStack \in Seq(Nodes) /\ ToSet(ms) = {ms[i] : i \in 1..Len(ms)}
  BY <1>2, LenProperties DEF OrderingType, ToSet
<1> HIDE DEF ms, states
<1>5. /\ p \in Seq(Nodes) /\ len <= Len(p)
      /\ \A i \in 1..len : p[i] = nodeStack[i]
      /\ \A j \in (len + 1)..Len(p) : \E i \in 1..Len(ms) : p[j] = ms[i]
      /\ \A i \in 1..Len(ms) : states[ms[i]] < 2 => \E j \in (len + 1)..Len(p) : p[j] = ms[i]
  BY <1>3, <1>4, PushOpenAppends
<1>6. Len(p) \in Nat
  <2> HIDE DEF p
  <2> QED BY <1>5, LenProperties
<1> HIDE DEF len, p
<1>7. Orderings' = Orderings /\ Acyclic'
  BY <1>1, SameOrderings
<1>8. \A m \in Nodes : <<Top, m>> \in Orderings <=> \E i \in 1..Len(ms) : ms[i] = m
  <2>1. \A m \in Nodes : <<Top, m>> \in Orderings <=> m \in ToSet(ms)
    BY <1>2 DEF Orderings, ms
  <2> QED BY <1>4, <2>1
<1>9. OrderingType' /\ NotYetSorted' /\ SubtasksOrdered'
  BY <1>1, <1>3, <1>5, <1>7 DEF OrderingType, NotYetSorted, SubtasksOrdered
<1>10. \A n \in Nodes : visitedStates'[n] = 2 <=> visitedStates[n] = 2
  BY <1>1, <1>3
<1>11. \A i \in 1..Len(sortedNodes) : sortedNodes[i] \in Nodes
  BY ElementOfSeq DEF OrderingType
<1>12. \A o \in Orderings : o[1] \in Nodes /\ o[2] \in Nodes
  BY DEF Orderings
<1>13. ClosedSorted' /\ SortedKeepOrderings'
  <2>1. ClosedSorted'
    BY <1>1, <1>10, <1>11 DEF ClosedSorted
  <2>2. SortedKeepOrderings'
    BY <1>1, <1>7, <1>10, <1>12 DEF SortedKeepOrderings
  <2> QED BY <2>1, <2>2
\* What has been pushed are successors of the top.
<1>14. \A j \in (len + 1)..Len(p) : p[j] \in Nodes /\ <<Top, p[j]>> \in Orderings
  <2> SUFFICES ASSUME NEW j \in (len + 1)..Len(p) PROVE p[j] \in Nodes /\ <<Top, p[j]>> \in Orderings
    OBVIOUS
  <2>1. j \in 1..Len(p)
    BY <1>2, <1>6
  <2>2. p[j] \in Nodes
    BY <1>5, <2>1, ElementOfSeq
  <2>3. \E i \in 1..Len(ms) : ms[i] = p[j]
    BY <1>5
  <2> QED BY <1>8, <2>2, <2>3
<1>15. OpenOnStack'
  <2> SUFFICES ASSUME NEW n \in Nodes, visitedStates'[n] = 1
               PROVE  \E k \in 1..Len(p) : OpenAt(n, k)'
    BY <1>1 DEF OpenOnStack
  <2>1. CASE n = Top
    <3>0. PICK k \in Nat : k = len
      BY <1>2
    <3>1. k \in 1..Len(p) /\ p[k] = Top
      BY <3>0, <1>2, <1>5, <1>6
    <3>2. \A j \in (len + 1)..Len(p) : Below(Orderings, Top, p[j])
      BY <1>14, LeadsToItself DEF Below
    <3>3. ASSUME NEW m \in Nodes, <<Top, m>> \in Orderings, visitedStates'[m] # 2
          PROVE  \E j \in (len + 1)..Len(p) : p[j] = m
      <4>1. PICK i \in 1..Len(ms) : ms[i] = m
        BY <1>8, <3>3
      <4>2. states[ms[i]] < 2
        BY <1>1, <1>3, <3>3, <4>1
      <4> QED BY <1>5, <4>1, <4>2
    <3>4. OpenAt(n, k)'
      BY <3>0, <1>1, <1>7, <2>1, <3>1, <3>2, <3>3 DEF OpenAt
    <3> QED BY <3>1, <3>4
  <2>2. CASE n # Top
    <3>0. visitedStates[n] = 1
      BY <1>1, <1>3, <2>2
    <3>1. PICK k \in 1..len : OpenAt(n, k)
      BY <3>0 DEF OpenOnStack, len
    <3>2. k \in 1..(len - 1) /\ k \in 1..Len(p) /\ len \in (k + 1)..len
      BY <1>2, <1>5, <1>6, <2>2, <3>1 DEF OpenAt
    <3>3. p[k] = n
      BY <1>5, <3>1 DEF OpenAt
    <3>4. ASSUME NEW j \in (k + 1)..Len(p) PROVE Below(Orderings, n, p[j])
      <4>1. CASE j <= len
        <5>1. j \in (k + 1)..len /\ j \in 1..len
          BY <1>2, <3>2, <4>1
        <5> QED BY <1>5, <3>1, <5>1 DEF OpenAt, len
      <4>2. CASE ~ (j <= len)
        <5>1. j \in (len + 1)..Len(p)
          BY <1>2, <1>6, <3>2, <4>2
        <5>2. PICK m \in Nodes : <<n, m>> \in Orderings /\ Leads(Orderings, m, Top)
          BY <1>2, <3>1, <3>2 DEF OpenAt, len, Below
        <5>3. <<Top, p[j]>> \in Orderings /\ p[j] \in Nodes
          BY <1>14, <5>1
        <5>4. Leads(Orderings, m, p[j])
          BY <5>2, <5>3 DEF Leads, Follows
        <5> QED BY <5>2, <5>4 DEF Below
      <4> QED BY <4>1, <4>2
    <3>5. ASSUME NEW m \in Nodes, <<n, m>> \in Orderings, visitedStates'[m] # 2
          PROVE  \E j \in (k + 1)..Len(p) : p[j] = m
      <4>1. PICK j \in (k + 1)..len : nodeStack[j] = m
        BY <1>10, <3>1, <3>5 DEF OpenAt, len
      <4>2. j \in (k + 1)..Len(p) /\ j \in 1..len
        BY <1>2, <1>5, <1>6, <3>2
      <4> QED BY <1>5, <4>1, <4>2
    <3>6. OpenAt(n, k)'
      BY <1>1, <1>7, <3>3, <3>4, <3>5 DEF OpenAt
    <3> QED BY <3>2, <3>6
  <2> QED BY <2>1, <2>2
<1> QED BY <1>7, <1>9, <1>13, <1>15

\* When no node is left to start from, every subtask that an ordering mentions
\* is closed, so that the sorted nodes are all of them.
LEMMA ReorderSubtasksInv ==
  ASSUME OrderingInv, ReorderSubtasks
  PROVE  OrderingInv'
<1> USE DEF OrderingInv
<1> DEFINE l == Len(sortedNodes)
<1>1. /\ phase = "sort" /\ nodeStack = <<>> /\ Unvisited = {}
      /\ subtasks' = [i \in Nodes |-> IF i <= l THEN subtasks[sortedNodes[i]] ELSE 0]
      /\ phase' = "done"
      /\ UNCHANGED <<orderingNodelist, visitedStates, nodeStack, sortedNodes>>
  BY DEF ReorderSubtasks
<1>2. Orderings' = Orderings /\ Acyclic'
  BY <1>1, SameOrderings
<1>3. OrderingType' /\ NotYetSorted' /\ ClosedSorted' /\ SortedKeepOrderings'
  BY <1>1, <1>2 DEF OrderingType, NotYetSorted, ClosedSorted, SortedKeepOrderings
<1>4. OpenOnStack'
  BY <1>1, <1>2 DEF OpenOnStack, OpenAt
<1>5. SubtasksOrdered'
  <2> SUFFICES ASSUME UNION {ToSet(o) : o \in Orderings} = Nodes
               PROVE  /\ ToSet(subtasks') = Nodes
                      /\ \A i, j \in Nodes : <<subtasks'[i], subtasks'[j]>> \in Orderings => i < j
    BY <1>2 DEF SubtasksOrdered
  <2>1. \A o \in Orderings : o[1] \in Nodes /\ o[2] \in Nodes /\ o[1] \in Keys /\ ToSet(o) = {o[1], o[2]}
    <3> SUFFICES ASSUME NEW o \in Orderings
                 PROVE  o[1] \in Nodes /\ o[2] \in Nodes /\ o[1] \in Keys /\ ToSet(o) = {o[1], o[2]}
      OBVIOUS
    <3>1. o \in Nodes \X Nodes /\ o[2] \in ToSet(orderingNodelist[o[1]])
      BY DEF Orderings
    <3>2. orderingNodelist[o[1]] # <<>>
      <4>1. ToSet(<<>>) = {}
        BY DEF ToSet
      <4> QED BY <3>1, <4>1
    <3>3. PICK a \in Nodes, b \in Nodes : o = <<a, b>>
      BY <3>1
    <3>4. ToSet(o) = {o[1], o[2]}
      <4>1. DOMAIN o = {1, 2} /\ o[1] = a /\ o[2] = b
        BY <3>3
      <4> QED BY <4>1 DEF ToSet
    <3> QED BY <3>1, <3>2, <3>4 DEF Keys
  <2>2. \A n \in Nodes : visitedStates[n] # 1
    <3>1. Len(nodeStack) = 0
      BY <1>1, EmptySeq
    <3> QED BY <3>1 DEF OpenOnStack
  <2>3. \A n \in Keys : visitedStates[n] = 2
    <3>1. \A n \in Keys : n \in Nodes /\ visitedStates[n] # 0
      BY <1>1 DEF Unvisited, Keys
    <3>2. \A n \in Nodes : visitedStates[n] \in 0..2
      BY DEF OrderingType
    <3> QED BY <2>2, <3>1, <3>2
  <2>4. \A n \in Nodes : visitedStates[n] = 2
    <3> SUFFICES ASSUME NEW n \in Nodes PROVE visitedStates[n] = 2
      OBVIOUS
    <3>1. PICK o \in Orderings : n \in ToSet(o)
      OBVIOUS
    <3>2. visitedStates[o[1]] = 2
      BY <2>1, <2>3
    <3>3. visitedStates[o[2]] = 2
      BY <3>2 DEF SortedKeepOrderings
    <3> QED BY <2>1, <3>1, <3>2, <3>3
  <2>5. l \in Nat /\ \A i \in 1..l : sortedNodes[i] \in Nodes
    BY LenProperties, ElementOfSeq DEF OrderingType
  <2>6. l = NumSubtasks /\ Nodes = 1..l
    <3> DEFINE f == [i \in 1..l |-> sortedNodes[i]]
    <3>1. f \in Bijection(1..l, Nodes)
      <4>1. f \in [1..l -> Nodes]
        BY <2>5
      <4>2. \A i, j \in 1..l : f[i] = f[j] => i = j
        BY DEF ClosedSorted
      <4>3. \A n \in Nodes : \E i \in 1..l : f[i] = n
        BY <2>4 DEF ClosedSorted
      <4> HIDE DEF f, l
      <4> QED BY <4>1, <4>2, <4>3 DEF Bijection, Injection, Surjection, IsInjective
    <3>2. IsFiniteSet(1..l) /\ Cardinality(1..l) = l
      BY <2>5, FS_Interval
    <3>3. ExistsBijection(1..l, Nodes)
      BY <3>1 DEF ExistsBijection
    <3>4. Cardinality(Nodes) = Cardinality(1..l)
      <4> HIDE DEF l
      <4> QED BY <3>2, <3>3, FS_Bijection
    <3>5. Cardinality(Nodes) = NumSubtasks /\ NumSubtasks \in Nat
      BY OrderingBounds, FS_Interval DEF Nodes
    <3> QED BY <3>2, <3>4, <3>5 DEF Nodes
  <2>7. \A i \in Nodes : subtasks'[i] = sortedNodes[i]
    <3>1. \A i \in Nodes : i <= l /\ sortedNodes[i] \in Nodes
      BY <2>5, <2>6
    <3>2. subtasks = [n \in Nodes |-> n]
      BY <1>1 DEF NotYetSorted
    <3> HIDE DEF l
    <3> QED BY <1>1, <3>1, <3>2
  <2>8. ToSet(subtasks') = Nodes
    <3>1. DOMAIN subtasks' = Nodes
      BY <1>1
    <3>2. \A n \in Nodes : \E i \in Nodes : subtasks'[i] = n
      BY <2>4, <2>6, <2>7 DEF ClosedSorted
    <3>3. \A i \in Nodes : subtasks'[i] \in Nodes
      BY <2>5, <2>6, <2>7
    <3> QED BY <3>1, <3>2, <3>3 DEF ToSet
  <2>9. \A i, j \in Nodes : <<subtasks'[i], subtasks'[j]>> \in Orderings => i < j
    BY <2>6, <2>7 DEF SortedKeepOrderings
  <2> QED BY <2>8, <2>9
<1> QED BY <1>2, <1>3, <1>4, <1>5

LEMMA OrderingNextInv == OrderingInv /\ [OrderingNext]_orderingVars => OrderingInv'
<1> SUFFICES ASSUME OrderingInv, [OrderingNext]_orderingVars PROVE OrderingInv'
  OBVIOUS
<1>1. CASE UNCHANGED orderingVars
  <2>1. /\ UNCHANGED <<orderingNodelist, phase, visitedStates, nodeStack, sortedNodes, subtasks>>
        /\ Orderings' = Orderings /\ (Acyclic' <=> Acyclic)
    BY <1>1, SameOrderings DEF orderingVars
  <2>2. OrderingType' /\ NotYetSorted' /\ ClosedSorted' /\ SortedKeepOrderings' /\ SubtasksOrdered'
    BY <2>1 DEF OrderingInv, OrderingType, NotYetSorted, ClosedSorted, SortedKeepOrderings, SubtasksOrdered
  <2>3. OpenOnStack'
    BY <2>1 DEF OrderingInv, OpenOnStack, OpenAt
  <2> QED BY <2>1, <2>2, <2>3 DEF OrderingInv
<1>2. ASSUME NEW i \in Nodes, NEW j \in Nodes, AddOrdering(i, j) PROVE OrderingInv'
  BY <1>2, AddOrderingInv
<1>3. CASE OrderSubtasks
  BY <1>3, OrderSubtasksInv
<1>4. CASE PickNode
  BY <1>4, PickNodeInv
<1>5. CASE DropNode
  BY <1>5, DropNodeInv
<1>6. CASE CloseNode
  BY <1>6, CloseNodeInv
<1>7. CASE OpenNode
  BY <1>7, OpenNodeInv
<1>8. CASE ReorderSubtasks
  BY <1>8, ReorderSubtasksInv
<1> QED BY <1>1, <1>2, <1>3, <1>4, <1>5, <1>6, <1>7, <1>8 DEF OrderingNext

-----------------------------------------------------------------------------
(* The theorem.                                                            *)

\* For every number of subtasks and every acyclic list of orderings that
\* mentions all of them, orderSubtasks leaves each subtask once and keeps
\* every ordering (Reduction::orderSubtasks).
THEOREM OrderIsKept == OrderingSpec => []SubtasksOrdered
<1>1. OrderingInv => SubtasksOrdered
  BY DEF OrderingInv
<1> QED BY OrderingInitInv, OrderingNextInv, <1>1, PTL DEF OrderingSpec
=============================================================================
