------------------------------- MODULE Literals -------------------------------
(***************************************************************************)
(* The propositional helpers of the encoder: LiteralTree, the conversion   *)
(* of a DNF by the distributive law (Dnf2Cnf), the binary at-most-one      *)
(* constraint (BinaryAtMostOne) and SubstitutionConstraint.                *)
(*                                                                         *)
(* A tree is the set of its nodes, each named by the path that leads to    *)
(* it, and the set of those marked validLeaf.  Encodings are sets of       *)
(* clauses over <<positive, element>>.                                     *)
(***************************************************************************)
EXTENDS Integers, Sequences, FiniteSets, SequencesExt, FiniteSetsExt

-----------------------------------------------------------------------------
(* LiteralTree                                                             *)

EmptyTree == [nodes |-> {<<>>}, leaves |-> {}]
Insert(tree, path) ==
    [nodes |-> tree.nodes \cup {SubSeq(path, 1, i) : i \in 0..Len(path)},
     leaves |-> tree.leaves \cup {path}]
InsertAll(tree, paths) == FoldSet(LAMBDA p, t : Insert(t, p), tree, paths)

\* Merging hangs the other tree's missing subtrees into this one; intersecting
\* removes the children the other tree lacks and keeps inner nodes that lose
\* all their leaves.
Merge(tree, other) == [nodes |-> tree.nodes \cup other.nodes, leaves |-> tree.leaves \cup other.leaves]
Intersect(tree, other) ==
    [nodes |-> tree.nodes \cap other.nodes, leaves |-> tree.leaves \cap other.leaves]

TreeContains(tree, path) == path \in tree.leaves
ContainsEmpty(tree) == <<>> \in tree.leaves
Children(tree, node) == {n[Len(n)] : n \in {m \in tree.nodes : m # <<>> /\ Front(m) = node}}

\* Variants, marked as such here and below, are plausible slips the runs are
\* shown to detect; no other definition uses them. Here: elements between those
\* of lits are not skipped.
SubsumesAdjacent(tree, lits) ==
    LET sub[at \in tree.nodes \X (1..(Len(lits) + 1))] ==
          LET node == at[1]  i == at[2]
          IN \/ i > Len(lits) /\ node \in tree.leaves
             \/ i <= Len(lits) /\ Append(node, lits[i]) \in tree.nodes /\ sub[<<Append(node, lits[i]), i + 1>>]
             \/ i \in {1, Len(lits) + 1} /\ \E l \in Children(tree, node) : sub[<<Append(node, l), i>>]
    IN sub[<<<<>>, 1>>]

\* Does the tree have a path of which lits is a sub-path?
Subsumes(tree, lits) ==
    LET sub[at \in tree.nodes \X (1..(Len(lits) + 1))] ==
          LET node == at[1]  i == at[2]
          IN \/ i > Len(lits) /\ node \in tree.leaves
             \/ i <= Len(lits) /\ Append(node, lits[i]) \in tree.nodes /\ sub[<<Append(node, lits[i]), i + 1>>]
             \/ \E l \in Children(tree, node) : sub[<<Append(node, l), i>>]
    IN sub[<<<<>>, 1>>]

\* Does the tree have a path that is a sub-path of lits?  A later element is
\* tried while one is left, so a path is found only when it ends with the last
\* element of lits.
HasPathSubsumedBy(tree, lits) ==
    LET has[at \in tree.nodes \X (1..(Len(lits) + 1))] ==
          LET node == at[1]  i == at[2]
          IN IF i > Len(lits) THEN node \in tree.leaves
             ELSE \/ Append(node, lits[i]) \in tree.nodes /\ has[<<Append(node, lits[i]), i + 1>>]
                  \/ \E k \in (i + 1)..Len(lits) : has[<<node, k>>]
    IN has[<<<<>>, 1>>]

\* The encodings stop at the first leaf of a path.
LeafAbove(tree, node) == \E i \in 0..(Len(node) - 1) : SubSeq(node, 1, i) \in tree.leaves
\* Variant: every node with children.
InnerNodes(tree) == {n \in tree.nodes : Children(tree, n) # {}}
OpenNodes(tree) == {n \in tree.nodes : n \notin tree.leaves /\ ~LeafAbove(tree, n)}
FirstLeaves(tree) == {n \in tree.leaves : n # <<>> /\ ~LeafAbove(tree, n)}
Negated(seq) == {<<FALSE, seq[i]>> : i \in DOMAIN seq}

\* If head and the path to a node hold, one of the node's children holds.
EncodeTree(tree, head) ==
    {Negated(head) \cup Negated(n) \cup {<<TRUE, l>> : l \in Children(tree, n)} : n \in OpenNodes(tree)}
\* Under head, no path to a leaf holds completely.
EncodeTreeNegation(tree, head) == {Negated(head) \cup Negated(n) : n \in FirstLeaves(tree)}

SizeOfEncoding(tree) ==
    MapThenSumSet(LAMBDA n : Len(n) + Cardinality(Children(tree, n)), OpenNodes(tree))
SizeOfNegationEncoding(tree) == MapThenSumSet(Len, FirstLeaves(tree))

-----------------------------------------------------------------------------
(* Dnf2Cnf: dnf is a sequence of conjunctions, each a sequence of literals; *)
(* a clause takes one literal of each.                                     *)

\* Variant: the last conjunction's counter stays at its first literal.
CombineAllButLast(dnf) ==
    {f \in [DOMAIN dnf -> UNION {DOMAIN dnf[i] : i \in DOMAIN dnf}] :
       f[Len(dnf)] = 1 /\ \A i \in DOMAIN dnf : f[i] \in DOMAIN dnf[i]}
CombineAll(dnf) == {f \in [DOMAIN dnf -> UNION {DOMAIN dnf[i] : i \in DOMAIN dnf}] :
                       \A i \in DOMAIN dnf : f[i] \in DOMAIN dnf[i]}
GetCnf(dnf) ==
    IF dnf = <<>> THEN {} ELSE {{dnf[i][f[i]] : i \in DOMAIN dnf} : f \in CombineAll(dnf)}

-----------------------------------------------------------------------------
(* BinaryAtMostOne over the variables states; numStates counts the state   *)
(* "none of them" too when it is one more.  The digits are the variables   *)
(* first, first + 1, ...                                                   *)

\* The least number of digits that can count numStates.
NumDigits(numStates) == CHOOSE d \in 0..numStates : 2^d >= numStates /\ \A k \in 0..(d - 1) : 2^k < numStates
Bit(n, i) == (n \div 2^i) % 2
\* The literals that are all false when the digits spell state.
DigitClause(state, digits, first) ==
    [i \in 1..digits |-> IF Bit(state, i - 1) = 1 THEN -(first + i - 1) ELSE first + i - 1]

\* Variant: a block that would fill the gap exactly is left out.
ForbiddenBlocksStrict(digits, numStates) ==
    LET size(k) == digits + 1 - k
        from[k \in 0..(digits + 1)] ==
          IF k = 0 THEN 2^digits
          ELSE IF from[k - 1] - numStates > 2^size(k) THEN from[k - 1] - 2^size(k) ELSE from[k - 1]
    IN {<<from[k], size(k)>> : k \in {j \in 1..(digits + 1) : from[j] # from[j - 1]}}

\* Blocks of codes no state has, largest first from the top: a block leaves
\* its lower digits open. The blocks of the k largest sizes begin at from[k].
ForbiddenBlocks(digits, numStates) ==
    LET size(k) == digits + 1 - k
        from[k \in 0..(digits + 1)] ==
          IF k = 0 THEN 2^digits
          ELSE IF from[k - 1] - numStates >= 2^size(k) THEN from[k - 1] - 2^size(k) ELSE from[k - 1]
    IN {<<from[k], size(k)>> : k \in {j \in 1..(digits + 1) : from[j] # from[j - 1]}}

BinaryAtMostOne(states, numStates, first) ==
    LET digits == NumDigits(numStates)
        code(s) == DigitClause(s, digits, first)
        stateToDigits == UNION {{{-states[s], -code(s - 1)[i]} : i \in 1..digits} : s \in DOMAIN states}
        digitsToState == {ToSet(code(s - 1)) \cup {states[s]} : s \in DOMAIN states}
        forbidden == {{code(b[1])[i] : i \in (b[2] + 1)..digits} : b \in ForbiddenBlocks(digits, numStates)}
    IN IF numStates <= 1 THEN {} ELSE stateToDigits \cup digitsToState \cup forbidden
PairwiseAtMostOne(states) ==
    UNION {{{-states[i], -states[j]} : j \in (i + 1)..Len(states)} : i \in DOMAIN states}

-----------------------------------------------------------------------------
(* SubstitutionConstraint: which values the q-constants of one condition   *)
(* may take together, kept as the valid or as the invalid paths.           *)

Constraint(qconstants) ==
    [qs |-> qconstants, polarity |-> "undecided", valid |-> EmptyTree, invalid |-> EmptyTree]

\* Variant: the other side is not cleared.
FixPolarityOnly(c, polarity) ==
    IF \/ polarity = "any_valid"
       \/ polarity = "undecided" /\ SizeOfNegationEncoding(c.invalid) > SizeOfEncoding(c.valid)
    THEN [c EXCEPT !.polarity = "any_valid"] ELSE [c EXCEPT !.polarity = "no_invalid"]

\* Keep the side with the smaller encoding; polarity may be given.
FixPolarity(c, polarity) ==
    IF \/ polarity = "any_valid"
       \/ polarity = "undecided" /\ SizeOfNegationEncoding(c.invalid) > SizeOfEncoding(c.valid)
    THEN [c EXCEPT !.polarity = "any_valid", !.invalid = EmptyTree]
    ELSE [c EXCEPT !.polarity = "no_invalid", !.valid = EmptyTree]

IsValidPath(c, path, sameReference) ==
    IF c.polarity = "any_valid"
    THEN IF sameReference THEN TreeContains(c.valid, path) ELSE Subsumes(c.valid, path)
    ELSE IF sameReference THEN ~TreeContains(c.invalid, path) ELSE ~HasPathSubsumedBy(c.invalid, path)

\* Every queried q-constant is found when both lists are walked in order; an
\* element of the constraint's list may serve twice.
InvolvesSupersetOf(c, qconstants) ==
    LET from[i \in 0..Len(qconstants)] ==
          IF i = 0 THEN 1
          ELSE LET later == {j \in from[i - 1]..Len(c.qs) : c.qs[j] = qconstants[i]}
               IN IF later = {} THEN Len(c.qs) + 1 ELSE Min(later)
    IN \A i \in 1..Len(qconstants) : from[i] <= Len(c.qs)

\* Variant: constraints over fewer q-constants than the effect's count too.
PassesAll(c, involved, path) == IsValidPath(c, path, c.qs = involved)

\* addEffect: whether a constraint lets a decoding pass, given as the path of
\* the involved q-constants' values. The same q-constants are compared exactly.
Passes(c, involved, path) ==
    IF c.qs = involved THEN IsValidPath(c, path, TRUE)
    ELSE c.polarity = "no_invalid" \/ InvolvesSupersetOf(c, involved) => IsValidPath(c, path, FALSE)

CanMerge(c, d) == c.polarity = d.polarity /\ c.polarity # "undecided" /\ c.qs = d.qs
\* Variant: both polarities unite their paths.
UniteConstraints(c, d) ==
    [c EXCEPT !.valid = Merge(@, d.valid), !.invalid = Merge(@, d.invalid)]
MergeConstraints(c, d) ==
    IF c.polarity = "any_valid" THEN [c EXCEPT !.valid = Intersect(@, d.valid)]
    ELSE [c EXCEPT !.invalid = Merge(@, d.invalid)]
ConstraintEncoding(c) ==
    IF c.polarity = "any_valid" THEN EncodeTree(c.valid, <<>>) ELSE EncodeTreeNegation(c.invalid, <<>>)

\* addPreconditionsAndConstraints' loop: each constraint absorbs the later
\* ones it can merge with. (The code fills the gap with the last one: CanMerge
\* is an equivalence and merging commutes, so only the order differs.)
MergeOnto(acc, d) ==
    LET fit == {i \in DOMAIN acc : CanMerge(acc[i], d)}
    IN IF fit = {} THEN Append(acc, d) ELSE [acc EXCEPT ![Min(fit)] = MergeConstraints(@, d)]
MergeAll(constraints) == FoldLeft(MergeOnto, <<>>, constraints)
=============================================================================
