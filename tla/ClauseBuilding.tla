---------------------------- MODULE ClauseBuilding ----------------------------
(***************************************************************************)
(* How the planner and the encoder feed the structures of module Literals, *)
(* one call at a time.  A behaviour works on one of these subjects:        *)
(*   "conditions"  the substitution constraints of one operation           *)
(*   "paths"       the tree of one action's substitutions for one effect   *)
(*   "unifiers"    the DNF of substitutions that undo a negative effect    *)
(*   "elements"    the variables of an at-most-one constraint              *)
(*   "orderings"   none of these: a method's subtasks, see SubtaskOrdering *)
(* The properties compare what comes out with what was put in.             *)
(***************************************************************************)
EXTENDS Literals

CONSTANTS
    QLists,         \* the lists of q-constants a condition may have
    Values,         \* the constants in the domain of every q-constant
    MaxConditions,  \* bound: conditions of the operation
    Paths,          \* the paths a tree may get
    MaxPaths,       \* bound: paths of the tree
    MaxVariable,    \* bound: substitution variables 1..MaxVariable
    MaxUnifiers,    \* bound: conjunctions of the DNF
    MaxElements     \* bound: variables under an at-most-one constraint

ASSUME BoundsAssumption ==
    {MaxConditions, MaxPaths, MaxVariable, MaxUnifiers, MaxElements} \subseteq Nat

\* addPrecondition makes no constraint for a condition without q-constants; the
\* domain of a q-constant is a finite set of constants.
ASSUME InputAssumption ==
    /\ \A qs \in QLists : qs \in Seq(ToSet(qs)) /\ qs # <<>>
    /\ \A path \in Paths : path \in Seq(ToSet(path))
    /\ IsFiniteSet(Values)

VARIABLES
    subject,
    conditions,   \* the conditions so far: q-constants and the tuples that are reachable
    constraints,  \* the operation's substitution constraints
    paths, tree,  \* the paths inserted and the tree they made
    unifiers,     \* the DNF
    elements      \* number of variables
vars == <<subject, conditions, constraints, paths, tree, unifiers, elements>>

Init ==
    /\ subject \in {"conditions", "paths", "unifiers", "elements", "orderings"}
    /\ conditions = {} /\ constraints = <<>>
    /\ paths = {} /\ tree = EmptyTree
    /\ unifiers = <<>> /\ elements = 0

-----------------------------------------------------------------------------
Tuples(qs) == [DOMAIN qs -> Values]
PathOf(qs, tuple) == [i \in DOMAIN qs |-> <<qs[i], tuple[i]>>]
PathsOf(qs, tuples) == {PathOf(qs, t) : t \in tuples}

\* addPrecondition: the reachable decodings are the valid paths, the others
\* the invalid ones. A sample of a large set of decodings gives the polarity.
AddCondition(qs, reachable, polarity) ==
    /\ subject = "conditions" /\ Cardinality(conditions) < MaxConditions
    /\ [qs |-> qs, reachable |-> reachable] \notin conditions
    /\ conditions' = conditions \cup {[qs |-> qs, reachable |-> reachable]}
    /\ constraints' = Append(constraints,
            FixPolarity([Constraint(qs) EXCEPT !.valid = InsertAll(@, PathsOf(qs, reachable)),
                                               !.invalid = InsertAll(@, PathsOf(qs, Tuples(qs) \ reachable))],
                        polarity))
    /\ UNCHANGED <<subject, paths, tree, unifiers, elements>>
MergeConditions ==
    /\ subject = "conditions" /\ constraints # MergeAll(constraints)
    /\ constraints' = MergeAll(constraints)
    /\ UNCHANGED <<subject, conditions, paths, tree, unifiers, elements>>

\* addIndirectFactSupport: the effects of one action that may be the fact.
AddPath(path) ==
    /\ subject = "paths" /\ Cardinality(paths) < MaxPaths
    /\ paths' = paths \cup {path} /\ tree' = Insert(tree, path)
    /\ UNCHANGED <<subject, conditions, constraints, unifiers, elements>>

\* encodeActionEffects without tree conversion.
AddUnifier(conjunction) ==
    /\ subject = "unifiers" /\ Len(unifiers) < MaxUnifiers
    /\ unifiers' = Append(unifiers, conjunction)
    /\ UNCHANGED <<subject, conditions, constraints, paths, tree, elements>>

AddElement ==
    /\ subject = "elements" /\ elements < MaxElements
    /\ elements' = elements + 1
    /\ UNCHANGED <<subject, conditions, constraints, paths, tree, unifiers>>

Next ==
    \/ \E qs \in QLists, polarity \in {"undecided", "any_valid", "no_invalid"} :
         \E reachable \in SUBSET Tuples(qs) : AddCondition(qs, reachable, polarity)
    \/ MergeConditions
    \/ \E path \in Paths : AddPath(path)
    \/ \E vs \in SUBSET (1..MaxVariable) : vs # {} /\ AddUnifier(SetToSortSeq(vs, <))
    \/ AddElement
Spec == Init /\ [][Next]_vars

-----------------------------------------------------------------------------
(* Properties                                                              *)

\* Trees are closed under prefixes and mark only nodes of their own; a
\* constraint with a polarity keeps one of its two trees.
IsTree(t) == /\ <<>> \in t.nodes /\ t.leaves \subseteq t.nodes
             /\ \A n \in t.nodes \ {<<>>} : Front(n) \in t.nodes
TypeOK ==
    /\ IsTree(tree) /\ elements \in 0..MaxElements
    /\ \A i \in DOMAIN constraints :
          LET c == constraints[i]
          IN /\ c.qs \in QLists /\ IsTree(c.valid) /\ IsTree(c.invalid)
             /\ \/ c.polarity = "any_valid" /\ c.invalid = EmptyTree
                \/ c.polarity = "no_invalid" /\ c.valid = EmptyTree

\* A set of true elements satisfies clauses over <<positive, element>>.
Satisfies(true, clauses) == \A c \in clauses : \E lit \in c : lit[1] <=> lit[2] \in true
Holds(path, true) == ToSet(path) \subseteq true

QConstants == UNION {ToSet(qs) : qs \in QLists}
Meets(sub, c) == [i \in DOMAIN c.qs |-> sub[c.qs[i]]] \in c.reachable
Allowed == {sub \in [QConstants -> Values] : \A c \in conditions : Meets(sub, c)}

\* The clauses of an operation's constraints, of either polarity and merged
\* or not, admit exactly the substitutions that make every condition
\* reachable (FixPolarity, merge and getEncoding, and the order of the calls).
ConstraintsExact ==
    subject = "conditions" =>
      \A sub \in [QConstants -> Values] :
        sub \in Allowed <=>
          \A i \in DOMAIN constraints :
            Satisfies({<<q, sub[q]>> : q \in QConstants}, ConstraintEncoding(constraints[i]))

\* addEffect discards a decoding only when no substitution the conditions
\* allow makes the effect that fact: no effect an action can have is dropped.
\* (An effect that names a q-constant twice is excepted, see
\* RepeatedProblems in MCPlanning.)
QueriesSound ==
    subject = "conditions" =>
      \A involved \in {qs \in QLists : IsInjective(qs)} : \A sub \in Allowed :
        LET path == PathOf(involved, [i \in DOMAIN involved |-> sub[involved[i]]])
        IN \A k \in DOMAIN constraints : Passes(constraints[k], involved, path)

\* encodeIndirectFrameAxioms and encodeActionEffects rely on a tree's clauses
\* to say that one of its paths holds: they imply it, and follow from it while
\* the children of a node exclude each other (see LostToTree.cfg for the
\* rest). The negated encoding says that none of its paths holds.
Elements == UNION {ToSet(p) : p \in Paths}
Exclusive(true) ==
    \A n \in tree.nodes : Cardinality(Children(tree, n) \cap true) <= 1
TreeEncodingsExact ==
    subject = "paths" /\ paths # {} =>
      \A true \in SUBSET Elements :
        LET some == \E p \in paths : Holds(p, true)
        IN /\ Satisfies(true, EncodeTree(tree, <<>>)) => some
           /\ some /\ Exclusive(true) => Satisfies(true, EncodeTree(tree, <<>>))
           /\ <<>> \notin paths => (Satisfies(true, EncodeTreeNegation(tree, <<>>)) <=> ~some)

\* subsumes finds a path that contains the query whenever there is one;
\* hasPathSubsumedBy finds only paths the query contains.
IsSubPath(p, q) ==
    \E f \in [DOMAIN p -> DOMAIN q] :
      /\ \A i \in DOMAIN p : p[i] = q[f[i]]
      /\ \A i, j \in DOMAIN p : i < j => f[i] < f[j]
TreeQueriesExact ==
    subject = "paths" =>
      \A query \in Paths \cup (Elements \X Elements) :
        /\ TreeContains(tree, query) <=> query \in paths
        /\ Subsumes(tree, query) <=> \E p \in paths : IsSubPath(query, p)
        /\ HasPathSubsumedBy(tree, query) => \E p \in paths : IsSubPath(p, query)

\* Dnf2Cnf: the clauses hold exactly when a conjunction does.
CnfEquivalent ==
    unifiers # <<>> =>
      \A true \in SUBSET (1..MaxVariable) :
        (\A clause \in GetCnf(unifiers) : clause \cap true # {}) <=>
          \E i \in DOMAIN unifiers : Holds(unifiers[i], true)

\* The binary encoding and the pairwise one allow at most one element, and
\* the binary one exactly one when there is no code for "none", whatever the
\* number of elements: some digits go with every allowed choice, none with
\* another.
DigitsFit(true, states, numStates) ==
    \E ds \in SUBSET ((elements + 1)..(elements + NumDigits(numStates))) :
      \A clause \in BinaryAtMostOne(states, numStates, elements + 1) :
        \E lit \in clause : IF lit > 0 THEN lit \in true \cup ds ELSE -lit \notin true \cup ds
AtMostOneExact ==
    LET states == [i \in 1..elements |-> i]
    IN \A true \in SUBSET (1..elements) :
         /\ DigitsFit(true, states, elements + 1) <=> Cardinality(true) <= 1
         /\ elements > 1 => (DigitsFit(true, states, elements) <=> Cardinality(true) = 1)
         /\ (\A c \in PairwiseAtMostOne(states) : \E lit \in c : -lit \notin true)
               <=> Cardinality(true) <= 1
=============================================================================
