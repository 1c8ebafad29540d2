------------------------- MODULE ClauseBuildingProofs -------------------------
(***************************************************************************)
(* Proofs about ClauseBuilding, for every set of q-constants, domains,     *)
(* paths, literals and number of variables.                                *)
(***************************************************************************)
EXTENDS ClauseBuilding, FiniteLemmas, SequenceTheorems

-----------------------------------------------------------------------------
(* The distributive law.                                                   *)

\* A clause for every choice of one literal of each conjunction: if no
\* conjunction holds, the choice of a false literal of each is a false clause.
LEMMA DistributiveLaw ==
  ASSUME NEW dnf, dnf # <<>>, NEW true
  PROVE  (\A clause \in GetCnf(dnf) : clause \cap true # {}) <=>
           \E i \in DOMAIN dnf : Holds(dnf[i], true)
<1>1. ASSUME NEW i \in DOMAIN dnf, Holds(dnf[i], true), NEW clause \in GetCnf(dnf)
      PROVE  clause \cap true # {}
  <2>1. PICK f \in CombineAll(dnf) : clause = {dnf[j][f[j]] : j \in DOMAIN dnf}
    BY DEF GetCnf
  <2>2. f[i] \in DOMAIN dnf[i] /\ dnf[i][f[i]] \in clause
    BY <2>1 DEF CombineAll
  <2>3. dnf[i][f[i]] \in true
    BY <1>1, <2>2 DEF Holds, ToSet
  <2> QED BY <2>2, <2>3
<1>2. ASSUME \A i \in DOMAIN dnf : ~ Holds(dnf[i], true)
      PROVE  \E clause \in GetCnf(dnf) : clause \cap true = {}
  <2> DEFINE wrong(i) == CHOOSE k \in DOMAIN dnf[i] : dnf[i][k] \notin true
             f == [i \in DOMAIN dnf |-> wrong(i)]
  <2>1. ASSUME NEW i \in DOMAIN dnf
        PROVE  wrong(i) \in DOMAIN dnf[i] /\ dnf[i][wrong(i)] \notin true
    <3>1. \E k \in DOMAIN dnf[i] : dnf[i][k] \notin true
      BY <1>2 DEF Holds, ToSet
    <3> QED BY <3>1
  <2> HIDE DEF wrong
  <2>2. f \in CombineAll(dnf)
    BY <2>1 DEF CombineAll
  <2>3. {dnf[i][f[i]] : i \in DOMAIN dnf} \in GetCnf(dnf)
    BY <2>2 DEF GetCnf
  <2>4. {dnf[i][f[i]] : i \in DOMAIN dnf} \cap true = {}
    BY <2>1
  <2> QED BY <2>3, <2>4
<1> QED BY <1>1, <1>2

\* The clauses made of the substitutions that undo a negative effect hold
\* exactly when one of the substitutions does (Dnf2Cnf::getCnf).
THEOREM CnfIsEquivalent == Spec => []CnfEquivalent
<1>1. CnfEquivalent
  BY DistributiveLaw DEF CnfEquivalent
<1> QED BY <1>1, PTL

-----------------------------------------------------------------------------
(* Prefixes.                                                               *)

\* The first i elements of a path.
LEMMA Prefix ==
  ASSUME NEW S, NEW p \in Seq(S), NEW i \in 0..Len(p)
  PROVE  /\ SubSeq(p, 1, i) \in Seq(S) /\ Len(SubSeq(p, 1, i)) = i
         /\ \A j \in 1..i : SubSeq(p, 1, i)[j] = p[j]
<1>1. Len(p) \in Nat /\ \A j \in 1..Len(p) : p[j] \in S
  OBVIOUS
<1>2. 1 \in Int /\ i \in Int /\ \A j \in 1..i : p[j] \in S
  BY <1>1
<1>3. /\ SubSeq(p, 1, i) \in Seq(S)
      /\ Len(SubSeq(p, 1, i)) = IF 1 <= i THEN i - 1 + 1 ELSE 0
      /\ \A j \in 1..(i - 1 + 1) : SubSeq(p, 1, i)[j] = p[1 + j - 1]
  BY <1>2, SubSeqProperties
<1>4. (IF 1 <= i THEN i - 1 + 1 ELSE 0) = i /\ i - 1 + 1 = i
  BY <1>1
<1>5. \A j \in 1..i : 1 + j - 1 = j
  OBVIOUS
<1> QED BY <1>3, <1>4, <1>5

\* A prefix of a prefix, and a prefix without its last element.
LEMMA PrefixOfPrefix ==
  ASSUME NEW S, NEW p \in Seq(S), NEW i \in 0..Len(p), NEW j \in 0..i
  PROVE  SubSeq(SubSeq(p, 1, i), 1, j) = SubSeq(p, 1, j)
<1> DEFINE q == SubSeq(p, 1, i)
           a == SubSeq(q, 1, j)
           b == SubSeq(p, 1, j)
<1>1. q \in Seq(S) /\ Len(q) = i /\ \A k \in 1..i : q[k] = p[k]
  BY Prefix
<1>2. j \in 0..Len(p) /\ j \in 0..Len(q)
  BY <1>1
<1> HIDE DEF q
<1>3. a \in Seq(S) /\ Len(a) = j /\ \A k \in 1..j : a[k] = q[k]
  BY <1>1, <1>2, Prefix
<1>4. b \in Seq(S) /\ Len(b) = j /\ \A k \in 1..j : b[k] = p[k]
  BY <1>2, Prefix
<1> HIDE DEF a, b
<1>5. \A k \in 1..Len(a) : a[k] = b[k]
  BY <1>1, <1>3, <1>4
<1>6. a = b
  BY <1>3, <1>4, <1>5, SeqEqual
<1> QED BY <1>6 DEF a, b, q

LEMMA FrontOfPrefix ==
  ASSUME NEW S, NEW p \in Seq(S), NEW i \in 1..Len(p)
  PROVE  Front(SubSeq(p, 1, i)) = SubSeq(p, 1, i - 1)
<1>1. i \in 0..Len(p) /\ i - 1 \in 0..i
  OBVIOUS
<1>2. Len(SubSeq(p, 1, i)) = i
  BY <1>1, Prefix
<1>3. SubSeq(SubSeq(p, 1, i), 1, i - 1) = SubSeq(p, 1, i - 1)
  BY <1>1, PrefixOfPrefix
<1> QED BY <1>2, <1>3 DEF Front

\* The whole path and the empty one.
LEMMA FullPrefix ==
  ASSUME NEW S, NEW p \in Seq(S)
  PROVE  SubSeq(p, 1, Len(p)) = p /\ SubSeq(p, 1, 0) = <<>>
<1>1. Len(p) \in 0..Len(p) /\ 0 \in 0..Len(p)
  OBVIOUS
<1>2. SubSeq(p, 1, Len(p)) \in Seq(S) /\ Len(SubSeq(p, 1, Len(p))) = Len(p)
      /\ \A j \in 1..Len(p) : SubSeq(p, 1, Len(p))[j] = p[j]
  BY <1>1, Prefix
<1>3. SubSeq(p, 1, 0) \in Seq(S) /\ Len(SubSeq(p, 1, 0)) = 0
  BY <1>1, Prefix
<1>4. SubSeq(p, 1, Len(p)) = p
  BY <1>2, SeqEqual
<1>5. SubSeq(p, 1, 0) = <<>>
  BY <1>3, EmptySeq
<1> QED BY <1>4, <1>5

\* A path is its front and its last element.
LEMMA FrontOfAppend ==
  ASSUME NEW S, NEW n \in Seq(S), NEW l \in S
  PROVE  /\ Append(n, l) \in Seq(S) /\ Append(n, l) # <<>>
         /\ Len(Append(n, l)) = Len(n) + 1
         /\ \A j \in 1..Len(n) : Append(n, l)[j] = n[j]
         /\ Append(n, l)[Len(n) + 1] = l
         /\ Front(Append(n, l)) = n
<1> DEFINE m == Append(n, l)
<1>1. /\ m \in Seq(S) /\ Len(m) = Len(n) + 1
      /\ \A j \in 1..Len(n) : m[j] = n[j]
      /\ m[Len(n) + 1] = l
  BY AppendProperties
<1>2. Len(n) \in Nat /\ Len(n) \in 0..Len(m) /\ Len(m) - 1 = Len(n)
  BY <1>1
<1> HIDE DEF m
<1>3. SubSeq(m, 1, Len(n)) \in Seq(S) /\ Len(SubSeq(m, 1, Len(n))) = Len(n)
      /\ \A j \in 1..Len(n) : SubSeq(m, 1, Len(n))[j] = m[j]
  BY <1>1, <1>2, Prefix
<1>4. SubSeq(m, 1, Len(n)) = n
  BY <1>1, <1>3, SeqEqual
<1>5. Front(m) = n
  BY <1>2, <1>4 DEF Front
<1>6. m # <<>>
  BY <1>1, <1>2
<1> QED BY <1>1, <1>5, <1>6 DEF m

LEMMA AppendToFront ==
  ASSUME NEW S, NEW m \in Seq(S), m # <<>>
  PROVE  /\ Front(m) \in Seq(S) /\ Len(Front(m)) = Len(m) - 1
         /\ Len(m) \in 1..Len(m) /\ m[Len(m)] \in S
         /\ m = Append(Front(m), m[Len(m)])
<1> DEFINE f == Front(m)
           a == Append(f, m[Len(m)])
<1>1. Len(m) \in Nat /\ Len(m) # 0
  BY EmptySeq
<1>2. Len(m) \in 1..Len(m) /\ m[Len(m)] \in S /\ Len(m) - 1 \in 0..Len(m)
  BY <1>1
<1>3. f \in Seq(S) /\ Len(f) = Len(m) - 1 /\ \A j \in 1..(Len(m) - 1) : f[j] = m[j]
  BY <1>2, Prefix DEF Front
<1> HIDE DEF f
<1>4. /\ a \in Seq(S) /\ Len(a) = Len(m) /\ a[Len(m)] = m[Len(m)]
      /\ \A j \in 1..(Len(m) - 1) : a[j] = f[j]
  BY <1>1, <1>2, <1>3, FrontOfAppend
<1> HIDE DEF a
<1>5. \A j \in 1..Len(m) : a[j] = m[j]
  <2>1. ASSUME NEW j \in 1..(Len(m) - 1) PROVE a[j] = m[j]
    BY <1>3, <1>4, <2>1, Zenon
  <2>2. \A j \in 1..Len(m) : j = Len(m) \/ j \in 1..(Len(m) - 1)
    BY <1>1
  <2>3. a[Len(m)] = m[Len(m)]
    BY <1>4
  <2> QED BY <2>1, <2>2, <2>3, Zenon
<1>6. a = m
  BY <1>4, <1>5, SeqEqual
<1> QED BY <1>2, <1>3, <1>6 DEF a, f

-----------------------------------------------------------------------------
(* Trees.                                                                  *)

\* A finite tree of paths over S.
GoodTree(t, S) == /\ t.nodes \subseteq Seq(S) /\ IsFiniteSet(t.nodes) /\ IsTree(t)

\* The children of a node are the elements that lead to other nodes.
LEMMA ChildrenAreAppended ==
  ASSUME NEW S, NEW t, GoodTree(t, S), NEW n \in Seq(S), NEW l
  PROVE  l \in Children(t, n) <=> l \in S /\ Append(n, l) \in t.nodes
<1>1. ASSUME l \in Children(t, n) PROVE l \in S /\ Append(n, l) \in t.nodes
  <2>1. PICK m \in t.nodes : m # <<>> /\ Front(m) = n /\ l = m[Len(m)]
    BY <1>1, Zenon DEF Children
  <2>2. m \in Seq(S)
    BY <2>1 DEF GoodTree
  <2>3. m[Len(m)] \in S /\ m = Append(Front(m), m[Len(m)])
    BY <2>1, <2>2, AppendToFront
  <2> QED BY <2>1, <2>3, Zenon
<1>2. ASSUME l \in S, Append(n, l) \in t.nodes PROVE l \in Children(t, n)
  <2>1. /\ Append(n, l) # <<>> /\ Front(Append(n, l)) = n
        /\ Len(Append(n, l)) = Len(n) + 1 /\ Append(n, l)[Len(n) + 1] = l
    BY <1>2, FrontOfAppend
  <2>2. l = Append(n, l)[Len(Append(n, l))]
    BY <2>1, Zenon
  <2> QED BY <1>2, <2>1, <2>2, Zenon DEF Children
<1> QED BY <1>1, <1>2

\* The prefixes of a node are nodes.
LEMMA PrefixesAreNodes ==
  ASSUME NEW S, NEW t, GoodTree(t, S), NEW n \in t.nodes, NEW i \in 0..Len(n)
  PROVE  SubSeq(n, 1, i) \in t.nodes
<1>1. n \in Seq(S) /\ Len(n) \in Nat
  BY DEF GoodTree
<1> DEFINE B == {d \in 0..Len(n) : SubSeq(n, 1, Len(n) - d) \notin t.nodes}
<1>2. ASSUME B # {} PROVE FALSE
  <2>1. B \subseteq Nat
    BY <1>1
  <2> HIDE DEF B
  <2>2. PICK d \in B : \A e \in B : d <= e
    BY <1>2, <2>1, LeastNumber
  <2>3. d \in 0..Len(n) /\ SubSeq(n, 1, Len(n) - d) \notin t.nodes
    BY DEF B
  <2>4. d # 0
    <3>1. SubSeq(n, 1, Len(n)) = n /\ Len(n) - 0 = Len(n)
      BY <1>1, FullPrefix
    <3> QED BY <2>3, <3>1
  <2> DEFINE k == Len(n) - d
  <2>5. k \in Nat /\ k + 1 \in 1..Len(n) /\ d - 1 \in 0..Len(n) /\ Len(n) - (d - 1) = k + 1
        /\ k + 1 - 1 = k /\ ~ (d <= d - 1) /\ k + 1 \in 0..Len(n)
    BY <1>1, <2>3, <2>4
  <2> HIDE DEF k
  <2>6. d - 1 \notin B
    BY <2>2, <2>5
  <2>7. SubSeq(n, 1, k + 1) \in t.nodes
    BY <2>5, <2>6 DEF B
  <2>8. Len(SubSeq(n, 1, k + 1)) = k + 1
    BY <1>1, <2>5, Prefix
  <2>9. SubSeq(n, 1, k + 1) # <<>>
    BY <2>5, <2>8
  <2>10. Front(SubSeq(n, 1, k + 1)) = SubSeq(n, 1, k)
    BY <1>1, <2>5, FrontOfPrefix
  <2>11. SubSeq(n, 1, k) \in t.nodes
    BY <2>7, <2>9, <2>10 DEF GoodTree, IsTree
  <2> QED BY <2>3, <2>11 DEF k
<1>3. Len(n) - i \in 0..Len(n) /\ Len(n) - (Len(n) - i) = i
  BY <1>1
<1> QED BY <1>2, <1>3

\* What the clauses of a tree say, and those of its negation.
LEMMA EncodingSays ==
  ASSUME NEW t, NEW true
  PROVE  Satisfies(true, EncodeTree(t, <<>>)) <=>
           \A n \in OpenNodes(t) : Holds(n, true) => \E l \in Children(t, n) : l \in true
<1> DEFINE clause(n) == Negated(<<>>) \cup Negated(n) \cup {<<TRUE, l>> : l \in Children(t, n)}
<1>1. ASSUME NEW n
      PROVE  (\E lit \in clause(n) : lit[1] <=> lit[2] \in true) <=>
               (Holds(n, true) => \E l \in Children(t, n) : l \in true)
  <2>0. Negated(<<>>) = {}
    BY DEF Negated
  <2>1. \A lit : lit \in clause(n) <=>
          \/ \E i \in DOMAIN n : lit = <<FALSE, n[i]>>
          \/ \E l \in Children(t, n) : lit = <<TRUE, l>>
    <3>1. \A lit : lit \in Negated(n) <=> \E i \in DOMAIN n : lit = <<FALSE, n[i]>>
      BY Zenon DEF Negated
    <3> QED BY <2>0, <3>1, Zenon
  <2>2. \A i \in DOMAIN n : (<<FALSE, n[i]>>[1] <=> <<FALSE, n[i]>>[2] \in true) <=> n[i] \notin true
    OBVIOUS
  <2>3. \A l : (<<TRUE, l>>[1] <=> <<TRUE, l>>[2] \in true) <=> l \in true
    OBVIOUS
  <2> HIDE DEF clause
  <2>4. Holds(n, true) <=> \A i \in DOMAIN n : n[i] \in true
    BY DEF Holds, ToSet
  <2>5. ASSUME NEW lit \in clause(n), lit[1] <=> lit[2] \in true, Holds(n, true)
        PROVE  \E l \in Children(t, n) : l \in true
    <3>1. CASE \E i \in DOMAIN n : lit = <<FALSE, n[i]>>
      BY <2>2, <2>4, <2>5, <3>1, Zenon
    <3>2. CASE \E l \in Children(t, n) : lit = <<TRUE, l>>
      BY <2>3, <2>5, <3>2, Zenon
    <3> QED BY <2>1, <3>1, <3>2, Zenon
  <2>6. ASSUME ~ Holds(n, true) PROVE \E lit \in clause(n) : lit[1] <=> lit[2] \in true
    BY <2>1, <2>2, <2>4, <2>6, Zenon
  <2>7. ASSUME NEW l \in Children(t, n), l \in true
        PROVE  \E lit \in clause(n) : lit[1] <=> lit[2] \in true
    <3>1. <<TRUE, l>> \in clause(n)
      BY <2>1
    <3>2. <<TRUE, l>>[1] <=> <<TRUE, l>>[2] \in true
      BY <2>3, <2>7
    <3> QED BY <3>1, <3>2, Zenon
  <2> QED BY <2>5, <2>6, <2>7, Zenon
<1>2. EncodeTree(t, <<>>) = {clause(n) : n \in OpenNodes(t)}
  BY DEF EncodeTree
<1> HIDE DEF clause
<1>3. Satisfies(true, EncodeTree(t, <<>>)) <=>
        \A n \in OpenNodes(t) : \E lit \in clause(n) : lit[1] <=> lit[2] \in true
  BY <1>2, Zenon DEF Satisfies
<1> QED BY <1>1, <1>3, Zenon

LEMMA NegationSays ==
  ASSUME NEW t, NEW true
  PROVE  Satisfies(true, EncodeTreeNegation(t, <<>>)) <=>
           \A n \in FirstLeaves(t) : ~ Holds(n, true)
<1> DEFINE clause(n) == Negated(<<>>) \cup Negated(n)
<1>1. ASSUME NEW n
      PROVE  (\E lit \in clause(n) : lit[1] <=> lit[2] \in true) <=> ~ Holds(n, true)
  <2>1. \A lit : lit \in clause(n) <=> \E i \in DOMAIN n : lit = <<FALSE, n[i]>>
    BY DEF Negated
  <2>2. \A i \in DOMAIN n : (<<FALSE, n[i]>>[1] <=> <<FALSE, n[i]>>[2] \in true) <=> n[i] \notin true
    OBVIOUS
  <2> HIDE DEF clause
  <2>3. Holds(n, true) <=> \A i \in DOMAIN n : n[i] \in true
    BY DEF Holds, ToSet
  <2> QED BY <2>1, <2>2, <2>3, Zenon
<1>2. EncodeTreeNegation(t, <<>>) = {clause(n) : n \in FirstLeaves(t)}
  BY DEF EncodeTreeNegation
<1> HIDE DEF clause
<1>3. Satisfies(true, EncodeTreeNegation(t, <<>>)) <=>
        \A n \in FirstLeaves(t) : \E lit \in clause(n) : lit[1] <=> lit[2] \in true
  BY <1>2, Zenon DEF Satisfies
<1> QED BY <1>1, <1>3, Zenon

\* One element more.
LEMMA NextPrefix ==
  ASSUME NEW S, NEW p \in Seq(S), NEW i \in 0..(Len(p) - 1)
  PROVE  SubSeq(p, 1, i + 1) = Append(SubSeq(p, 1, i), p[i + 1])
<1> DEFINE m == SubSeq(p, 1, i + 1)
<1>1. i + 1 \in 1..Len(p) /\ i + 1 \in 0..Len(p) /\ i + 1 - 1 = i /\ i + 1 \in 1..(i + 1)
  OBVIOUS
<1>2. m \in Seq(S) /\ Len(m) = i + 1 /\ m[i + 1] = p[i + 1]
  BY <1>1, Prefix
<1>3. Front(m) = SubSeq(p, 1, i)
  BY <1>1, FrontOfPrefix
<1> HIDE DEF m
<1>4. m # <<>>
  BY <1>2
<1>5. m = Append(Front(m), m[Len(m)])
  BY <1>2, <1>4, AppendToFront
<1>6. m = Append(SubSeq(p, 1, i), p[i + 1])
  BY <1>2, <1>3, <1>5, Zenon
<1> QED BY <1>6 DEF m

\* If all elements of a path hold, those of its prefixes do.
LEMMA PrefixHolds ==
  ASSUME NEW S, NEW p \in Seq(S), NEW i \in 0..Len(p), NEW true, Holds(p, true)
  PROVE  Holds(SubSeq(p, 1, i), true)
<1> DEFINE q == SubSeq(p, 1, i)
<1>1. q \in Seq(S) /\ Len(q) = i /\ \A j \in 1..i : q[j] = p[j]
  BY Prefix
<1> HIDE DEF q
<1>2. \A j \in 1..Len(p) : p[j] \in true
  BY DEF Holds, ToSet
<1>3. \A j \in 1..i : j \in 1..Len(p)
  OBVIOUS
<1>4. \A j \in DOMAIN q : q[j] \in true
  BY <1>1, <1>2, <1>3
<1> QED BY <1>4 DEF Holds, ToSet, q

\* The nodes of a finite tree have bounded lengths.
LEMMA BoundedLengths ==
  ASSUME NEW S, NEW t, GoodTree(t, S)
  PROVE  \E b \in Nat : \A n \in t.nodes : Len(n) <= b
<1> DEFINE N == t.nodes
           f == [n \in N |-> Len(n)]
<1>1. IsFiniteSet(N) /\ \A n \in N : Len(n) \in Nat
  BY DEF GoodTree
<1> HIDE DEF N
<1>2. f \in [N -> Nat] /\ \A n \in N : f[n] = Len(n)
  BY <1>1
<1> HIDE DEF f
<1>3. PICK b \in Nat : \A n \in N : f[n] <= b
  BY <1>1, <1>2, BoundedValues
<1>4. \A n \in N : Len(n) <= b
  BY <1>2, <1>3
<1> QED BY <1>4 DEF N

\* Follow nodes that hold, from the root, as far as the encoding demands a
\* child: this ends at a leaf.
LEMMA TreeImpliesPath ==
  ASSUME NEW S, NEW t, GoodTree(t, S), NEW true, Satisfies(true, EncodeTree(t, <<>>))
  PROVE  \E p \in t.leaves : Holds(p, true)
<1> SUFFICES ASSUME \A p \in t.leaves : ~ Holds(p, true) PROVE FALSE
  OBVIOUS
<1> DEFINE H == {n \in OpenNodes(t) : Holds(n, true)}
           T == {Len(n) : n \in H}
<1>0. /\ <<>> \in t.nodes /\ \A n \in t.nodes : n \in Seq(S) /\ Len(n) \in Nat
      /\ \A n \in H : n \in t.nodes
  BY DEF GoodTree, IsTree, OpenNodes
<1>1. <<>> \in H
  <2>1. Holds(<<>>, true)
    <3>1. <<>> \in Seq(S) /\ Len(<<>>) = 0
      BY EmptySeq
    <3>2. \A i \in 1..Len(<<>>) : <<>>[i] \in true
      BY <3>1
    <3>3. DOMAIN <<>> = 1..Len(<<>>)
      BY <3>1, LenProperties
    <3> QED BY <3>2, <3>3, Zenon DEF Holds, ToSet
  <2>2. ASSUME NEW i \in 0..(Len(<<>>) - 1) PROVE FALSE
    <3>1. Len(<<>>) = 0
      OBVIOUS
    <3>2. i \in Int /\ 0 <= i /\ i <= Len(<<>>) - 1
      OBVIOUS
    <3> QED BY <3>1, <3>2
  <2>3. ~ LeafAbove(t, <<>>)
    BY <2>2 DEF LeafAbove
  <2> QED BY <1>0, <2>1, <2>3 DEF OpenNodes
<1>2. PICK b \in Nat : \A n \in t.nodes : Len(n) <= b
  BY BoundedLengths
<1>3. T \subseteq Nat /\ T # {} /\ \A x \in T : x <= b
  BY <1>0, <1>1, <1>2
<1>4. PICK n \in H : \A m \in H : Len(m) <= Len(n)
  <2>1. Max(T) \in T /\ \A y \in T : y <= Max(T)
    <3> HIDE DEF T
    <3> QED BY <1>3, GreatestNumber
  <2>2. PICK n \in H : Len(n) = Max(T)
    BY <2>1
  <2>3. \A m \in H : Len(m) \in T
    OBVIOUS
  <2> HIDE DEF T, H
  <2> QED BY <2>1, <2>2, <2>3
<1>5. n \in t.nodes /\ n \in Seq(S) /\ Len(n) \in Nat /\ Holds(n, true)
      /\ n \notin t.leaves /\ ~ LeafAbove(t, n)
  BY <1>0, <1>4 DEF OpenNodes
<1>6. PICK l \in Children(t, n) : l \in true
  BY <1>4, EncodingSays
<1> DEFINE m == Append(n, l)
<1>7. l \in S /\ m \in t.nodes
  BY <1>5, <1>6, ChildrenAreAppended
<1>8. /\ m \in Seq(S) /\ m # <<>> /\ Len(m) = Len(n) + 1 /\ Front(m) = n
      /\ \A j \in 1..Len(n) : m[j] = n[j]
      /\ m[Len(n) + 1] = l
  <2>1. \A q \in Seq(S), k \in S :
          /\ Append(q, k) \in Seq(S) /\ Append(q, k) # <<>>
          /\ Len(Append(q, k)) = Len(q) + 1
          /\ \A j \in 1..Len(q) : Append(q, k)[j] = q[j]
          /\ Append(q, k)[Len(q) + 1] = k
          /\ Front(Append(q, k)) = q
    BY FrontOfAppend
  <2> QED BY <1>5, <1>7, <2>1, Zenon
<1> HIDE DEF m, H
<1>9. Holds(m, true)
  <2>1. \A j \in 1..Len(n) : n[j] \in true
    BY <1>5 DEF Holds, ToSet
  <2>2. \A j \in 1..Len(m) : j = Len(n) + 1 \/ j \in 1..Len(n)
    BY <1>5, <1>8
  <2>3. \A j \in DOMAIN m : m[j] \in true
    BY <1>6, <1>8, <2>1, <2>2
  <2> QED BY <2>3 DEF Holds, ToSet
<1>10. m \notin H
  BY <1>4, <1>5, <1>8
<1>11. LeafAbove(t, m)
  BY <1>7, <1>9, <1>10 DEF H, OpenNodes
<1>12. PICK i \in 0..(Len(m) - 1) : SubSeq(m, 1, i) \in t.leaves
  BY <1>11 DEF LeafAbove
<1>13. i \in 0..Len(n) /\ Len(n) \in 0..Len(m) /\ Len(m) - 1 = Len(n)
  BY <1>5, <1>8
<1>14. SubSeq(m, 1, Len(n)) = n
  BY <1>8, <1>13 DEF Front
<1>15. SubSeq(SubSeq(m, 1, Len(n)), 1, i) = SubSeq(m, 1, i)
  BY <1>8, <1>13, PrefixOfPrefix
<1>16. SubSeq(n, 1, i) \in t.leaves
  BY <1>12, <1>14, <1>15, Zenon
<1>17. CASE i = Len(n)
  BY <1>5, <1>16, <1>17, FullPrefix
<1>18. CASE i # Len(n)
  <2>1. i \in 0..(Len(n) - 1)
    BY <1>5, <1>13, <1>18
  <2> QED BY <1>5, <1>16, <2>1 DEF LeafAbove
<1> QED BY <1>17, <1>18

\* A path that holds, where at most one child of each node holds, is the way
\* every node that holds lies on.
LEMMA PathImpliesTree ==
  ASSUME NEW S, NEW t, GoodTree(t, S), NEW true,
         \A n \in t.nodes : \A k, l \in Children(t, n) \cap true : k = l,
         NEW p \in t.leaves, Holds(p, true)
  PROVE  Satisfies(true, EncodeTree(t, <<>>))
<1>1. p \in t.nodes /\ p \in Seq(S) /\ Len(p) \in Nat
  BY DEF GoodTree, IsTree
<1>2. ASSUME NEW n \in OpenNodes(t), Holds(n, true)
      PROVE  \E l \in Children(t, n) : l \in true
  <2>1. n \in t.nodes /\ n \in Seq(S) /\ Len(n) \in Nat /\ n \notin t.leaves /\ ~ LeafAbove(t, n)
    BY DEF OpenNodes, GoodTree
  <2>2. \A j \in 1..Len(n) : n[j] \in true
    BY <1>2, <2>1 DEF Holds, ToSet
  <2>3. \A j \in 1..Len(p) : p[j] \in true
    BY <1>1 DEF Holds, ToSet
  <2> DEFINE Common(i) == i <= Len(p) /\ SubSeq(n, 1, i) = SubSeq(p, 1, i)
             B == {i \in 0..Len(n) : ~ Common(i)}
  \* The next element of a path that holds is a child that holds.
  <2>4. ASSUME NEW q \in t.nodes, q \in Seq(S), NEW i \in 0..(Len(q) - 1), Holds(q, true)
        PROVE  q[i + 1] \in Children(t, SubSeq(q, 1, i)) \cap true
    <3>1. i + 1 \in 1..Len(q) /\ i \in 0..Len(q) /\ i + 1 \in 0..Len(q)
      BY <2>4
    <3>2. q[i + 1] \in true /\ q[i + 1] \in S
      BY <2>4, <3>1 DEF Holds, ToSet
    <3>3. Append(SubSeq(q, 1, i), q[i + 1]) \in t.nodes
      <4>1. SubSeq(q, 1, i + 1) \in t.nodes
        BY <3>1, PrefixesAreNodes
      <4>2. SubSeq(q, 1, i + 1) = Append(SubSeq(q, 1, i), q[i + 1])
        BY <2>4, NextPrefix
      <4> QED BY <4>1, <4>2, Zenon
    <3>4. SubSeq(q, 1, i) \in Seq(S)
      BY <2>4, <3>1, Prefix
    <3>5. q[i + 1] \in Children(t, SubSeq(q, 1, i))
      <4>1. \A m \in Seq(S) : \A l : l \in Children(t, m) <=> l \in S /\ Append(m, l) \in t.nodes
        BY ChildrenAreAppended
      <4> QED BY <3>2, <3>3, <3>4, <4>1, Zenon
    <3> QED BY <3>2, <3>5
  <2>5. ASSUME NEW i \in 0..(Len(n) - 1), Common(i) PROVE Common(i + 1)
    <3>1. i \in Nat /\ i \in 0..Len(n) /\ i <= Len(p) /\ SubSeq(n, 1, i) = SubSeq(p, 1, i)
      BY <2>1, <2>5
    <3>2. i # Len(p)
      <4>1. SubSeq(p, 1, Len(p)) \in t.leaves
        BY <1>1, FullPrefix
      <4>2. ASSUME i = Len(p) PROVE SubSeq(n, 1, i) \in t.leaves
        BY <3>1, <4>1, <4>2, Zenon
      <4> QED BY <2>1, <4>2 DEF LeafAbove
    <3>3. i \in 0..(Len(p) - 1) /\ i + 1 <= Len(p)
      BY <1>1, <3>1, <3>2
    <3>4. n[i + 1] \in Children(t, SubSeq(n, 1, i)) \cap true
      BY <1>2, <2>1, <2>4
    <3>5. p[i + 1] \in Children(t, SubSeq(p, 1, i)) \cap true
      BY <1>1, <2>4, <3>3
    <3>6. SubSeq(n, 1, i) \in t.nodes
      BY <2>1, <3>1, PrefixesAreNodes
    <3>7. n[i + 1] = p[i + 1]
      BY <3>1, <3>4, <3>5, <3>6, Zenon
    <3>8. SubSeq(n, 1, i + 1) = Append(SubSeq(n, 1, i), n[i + 1])
      BY <2>1, NextPrefix
    <3>9. SubSeq(p, 1, i + 1) = Append(SubSeq(p, 1, i), p[i + 1])
      BY <1>1, <3>3, NextPrefix
    <3>10. SubSeq(n, 1, i + 1) = SubSeq(p, 1, i + 1)
      BY <3>1, <3>7, <3>8, <3>9, Zenon
    <3> QED BY <3>3, <3>10
  <2>6. Common(0)
    <3>1. SubSeq(n, 1, 0) = <<>> /\ SubSeq(p, 1, 0) = <<>>
      BY <1>1, <2>1, FullPrefix
    <3> QED BY <1>1, <3>1
  <2> HIDE DEF Common
  <2>7. ASSUME B # {} PROVE FALSE
    <3>1. B \subseteq Nat
      BY <2>1
    <3> HIDE DEF B
    <3>2. PICK i \in B : \A j \in B : i <= j
      BY <2>7, <3>1, LeastNumber
    <3>3. i \in 0..Len(n) /\ ~ Common(i)
      BY DEF B
    <3>4. i # 0
      BY <2>6, <3>3
    <3>5. i - 1 \in 0..(Len(n) - 1) /\ i - 1 \in 0..Len(n) /\ ~ (i <= i - 1) /\ i - 1 + 1 = i
      BY <2>1, <3>3, <3>4
    <3>6. Common(i - 1)
      BY <3>2, <3>5 DEF B
    <3> QED BY <2>5, <3>3, <3>5, <3>6
  <2>8. Common(Len(n))
    BY <2>1, <2>7
  <2>9. Len(n) <= Len(p) /\ SubSeq(p, 1, Len(n)) = n
    BY <2>1, <2>8, FullPrefix DEF Common
  <2>10. Len(n) # Len(p)
    <3>1. SubSeq(p, 1, Len(p)) = p
      BY <1>1, FullPrefix
    <3> QED BY <2>1, <2>9, <3>1
  <2>11. Len(n) \in 0..(Len(p) - 1)
    BY <1>1, <2>1, <2>9, <2>10
  <2>12. p[Len(n) + 1] \in Children(t, SubSeq(p, 1, Len(n))) \cap true
    BY <1>1, <2>4, <2>11
  <2> QED BY <2>9, <2>12
<1> QED BY <1>2, EncodingSays

\* The first leaf on a path that holds, holds too.
LEMMA NegationForbidsPaths ==
  ASSUME NEW S, NEW t, GoodTree(t, S), NEW true, <<>> \notin t.leaves
  PROVE  Satisfies(true, EncodeTreeNegation(t, <<>>)) <=> ~ \E p \in t.leaves : Holds(p, true)
<1>1. ASSUME NEW p \in t.leaves, Holds(p, true)
      PROVE  \E n \in FirstLeaves(t) : Holds(n, true)
  <2>1. p \in Seq(S) /\ Len(p) \in Nat
    BY DEF GoodTree, IsTree
  <2> DEFINE T == {i \in 0..Len(p) : SubSeq(p, 1, i) \in t.leaves}
  <2>2. T \subseteq Nat /\ Len(p) \in T
    <3>1. SubSeq(p, 1, Len(p)) \in t.leaves
      BY <2>1, FullPrefix, Zenon
    <3> QED BY <2>1, <3>1
  <2>3. PICK i \in T : \A j \in T : i <= j
    <3> HIDE DEF T
    <3> QED BY <2>2, LeastNumber
  <2> DEFINE q == SubSeq(p, 1, i)
  <2>4. i \in 0..Len(p) /\ q \in t.leaves
    BY <2>3
  <2>5. Holds(q, true) /\ Len(q) = i
    BY <1>1, <2>1, <2>4, Prefix, PrefixHolds
  <2>6. ASSUME LeafAbove(t, q) PROVE FALSE
    <3>1. PICK j \in 0..(i - 1) : SubSeq(q, 1, j) \in t.leaves
      <4> HIDE DEF q
      <4> QED BY <2>5, <2>6, Zenon DEF LeafAbove
    <3>2. j \in 0..i /\ j \in 0..Len(p) /\ ~ (i <= j)
      BY <2>1, <2>4
    <3>3. SubSeq(q, 1, j) = SubSeq(p, 1, j)
      BY <2>1, <2>4, <3>2, PrefixOfPrefix
    <3>4. j \in T
      BY <3>1, <3>2, <3>3
    <3> QED BY <2>3, <3>2, <3>4
  <2> HIDE DEF q
  <2> QED BY <2>4, <2>5, <2>6 DEF FirstLeaves
<1>2. \A n \in FirstLeaves(t) : n \in t.leaves
  BY DEF FirstLeaves
<1> QED BY <1>1, <1>2, NegationSays, Zenon

\* Inserting a path keeps a tree, and adds its leaf.
LEMMA InsertKeepsTree ==
  ASSUME NEW S, NEW t, GoodTree(t, S), NEW p \in Seq(S)
  PROVE  GoodTree(Insert(t, p), S) /\ Insert(t, p).leaves = t.leaves \cup {p}
<1> DEFINE I == 0..Len(p)
           q(i) == SubSeq(p, 1, i)
           P == {q(i) : i \in I}
           u == Insert(t, p)
<1>1. u.nodes = t.nodes \cup P /\ u.leaves = t.leaves \cup {p}
  BY DEF Insert
<1>2. \A i \in I : i \in Nat /\ q(i) \in Seq(S) /\ Len(q(i)) = i
  BY Prefix
<1>3. IsFiniteSet(P)
  <2> DEFINE f == [i \in I |-> q(i)]
  <2> HIDE DEF q
  <2>1. f \in Surjection(I, P)
    BY DEF Surjection
  <2>2. IsFiniteSet(I)
    BY FS_Interval
  <2> HIDE DEF f, I, P
  <2> QED BY <2>1, <2>2, FS_Surjection
<1>4. p \in P
  <2>1. Len(p) \in I /\ q(Len(p)) = p
    BY FullPrefix
  <2> QED BY <2>1
<1>5. ASSUME NEW n \in P, n # <<>> PROVE Front(n) \in P
  <2>1. PICK i \in I : n = q(i)
    OBVIOUS
  <2>2. i # 0
    BY <1>5, <2>1, FullPrefix
  <2>3. i \in 1..Len(p) /\ i - 1 \in I
    BY <2>2
  <2>4. Front(q(i)) = q(i - 1)
    BY <2>3, FrontOfPrefix
  <2> QED BY <2>1, <2>3, <2>4
<1>6. /\ t.nodes \subseteq Seq(S) /\ IsFiniteSet(t.nodes)
      /\ <<>> \in t.nodes /\ t.leaves \subseteq t.nodes
      /\ \A n \in t.nodes \ {<<>>} : Front(n) \in t.nodes
  BY DEF GoodTree, IsTree
<1>7. P \subseteq Seq(S)
  BY <1>2
<1> HIDE DEF P, u
<1>8. IsFiniteSet(t.nodes \cup P)
  BY <1>3, <1>6, FS_Union
<1>9. u.nodes \subseteq Seq(S) /\ IsFiniteSet(u.nodes)
  BY <1>1, <1>6, <1>7, <1>8
<1>10. IsTree(u)
  BY <1>1, <1>4, <1>5, <1>6 DEF IsTree
<1> QED BY <1>1, <1>9, <1>10 DEF GoodTree, u

LEMMA EmptyTreeIsGood == \A S : GoodTree(EmptyTree, S)
<1>1. \A S : <<>> \in Seq(S)
  BY EmptySeq
<1>2. IsFiniteSet({<<>>})
  BY FS_Singleton
<1> QED BY <1>1, <1>2 DEF GoodTree, IsTree, EmptyTree

\* A finite set with two elements has not at most one.
LEMMA AtMostOneElement ==
  ASSUME NEW S, IsFiniteSet(S), Cardinality(S) <= 1, NEW k \in S, NEW l \in S
  PROVE  k = l
<1> SUFFICES ASSUME k # l PROVE FALSE
  OBVIOUS
<1>1. IsFiniteSet({k}) /\ Cardinality({k}) = 1
  BY FS_Singleton
<1>2. l \notin {k} /\ {k} \cup {l} \in SUBSET S
  OBVIOUS
<1>3. Cardinality({k} \cup {l}) = Cardinality({k}) + 1
  BY <1>1, <1>2, FS_AddElement
<1>4. Cardinality({k} \cup {l}) <= Cardinality(S)
  BY <1>2, FS_Subset
<1>5. Cardinality(S) \in Nat
  BY FS_CardinalityType
<1> QED BY <1>1, <1>3, <1>4, <1>5

\* A node has finitely many children.
LEMMA ChildrenAreFinite ==
  ASSUME NEW S, NEW t, GoodTree(t, S), NEW n
  PROVE  IsFiniteSet(Children(t, n))
<1> DEFINE M == {m \in t.nodes : m # <<>> /\ Front(m) = n}
           f == [m \in M |-> m[Len(m)]]
<1>1. IsFiniteSet(M)
  BY FS_Subset DEF GoodTree
<1>2. Children(t, n) = {m[Len(m)] : m \in M}
  BY DEF Children
<1> HIDE DEF M
<1>3. f \in Surjection(M, Children(t, n))
  BY <1>2 DEF Surjection
<1> HIDE DEF f
<1> QED BY <1>1, <1>3, FS_Surjection

-----------------------------------------------------------------------------
(* The tree of one action's substitutions.                                 *)

PathsInv == GoodTree(tree, Elements) /\ tree.leaves = paths /\ paths \subseteq Paths

LEMMA PathsAreSequences == \A p \in Paths : p \in Seq(Elements)
<1> SUFFICES ASSUME NEW p \in Paths PROVE p \in Seq(Elements)
  OBVIOUS
<1>1. p \in Seq(ToSet(p))
  BY InputAssumption
<1>2. ToSet(p) \subseteq Elements
  BY DEF Elements
<1> QED BY <1>1, <1>2, SeqMonotonic

LEMMA PathsInvariant == Spec => []PathsInv
<1>1. Init => PathsInv
  <2> SUFFICES ASSUME Init PROVE PathsInv
    OBVIOUS
  <2>1. tree = EmptyTree /\ paths = {}
    BY DEF Init
  <2>2. GoodTree(EmptyTree, Elements) /\ EmptyTree.leaves = {}
    BY EmptyTreeIsGood DEF EmptyTree
  <2> QED BY <2>1, <2>2 DEF PathsInv
<1>2. PathsInv /\ [Next]_vars => PathsInv'
  <2> SUFFICES ASSUME PathsInv, [Next]_vars PROVE PathsInv'
    OBVIOUS
  <2>1. ASSUME NEW path \in Paths, AddPath(path) PROVE PathsInv'
    <3>1. tree' = Insert(tree, path) /\ paths' = paths \cup {path}
      BY <2>1 DEF AddPath
    <3>2. path \in Seq(Elements)
      BY PathsAreSequences
    <3>3. GoodTree(tree, Elements) /\ tree.leaves = paths /\ paths \subseteq Paths
      BY DEF PathsInv
    <3>4. GoodTree(Insert(tree, path), Elements) /\ Insert(tree, path).leaves = tree.leaves \cup {path}
      BY <3>2, <3>3, InsertKeepsTree
    <3>5. Elements' = Elements
      BY DEF Elements
    <3>6. GoodTree(tree', Elements) /\ tree'.leaves = paths' /\ paths' \subseteq Paths
      BY <3>1, <3>3, <3>4, Zenon
    <3> QED BY <3>5, <3>6, Zenon DEF PathsInv, GoodTree, IsTree
  <2>2. ASSUME UNCHANGED <<tree, paths>> PROVE PathsInv'
    BY <2>2 DEF PathsInv, GoodTree, IsTree, Elements
  <2>3. CASE \E qs \in QLists, polarity \in {"undecided", "any_valid", "no_invalid"} :
               \E reachable \in SUBSET Tuples(qs) : AddCondition(qs, reachable, polarity)
    BY <2>2, <2>3 DEF AddCondition
  <2>4. CASE MergeConditions
    BY <2>2, <2>4 DEF MergeConditions
  <2>5. CASE \E vs \in SUBSET (1..MaxVariable) : vs # {} /\ AddUnifier(SetToSortSeq(vs, <))
    BY <2>2, <2>5 DEF AddUnifier
  <2>6. CASE AddElement
    BY <2>2, <2>6 DEF AddElement
  <2>7. CASE UNCHANGED vars
    BY <2>2, <2>7 DEF vars
  <2> QED BY <2>1, <2>3, <2>4, <2>5, <2>6, <2>7 DEF Next
<1> QED BY <1>1, <1>2, PTL DEF Spec

\* Whatever paths are inserted: under every assignment the tree's clauses
\* imply that one of the paths holds and follow from it while at most one
\* child of each node holds, and the negated clauses say that none holds
\* (LiteralTree::encode and encodeNegation).
THEOREM TreesAreExact == Spec => []TreeEncodingsExact
<1>1. PathsInv => TreeEncodingsExact
  <2> SUFFICES ASSUME PathsInv, NEW true \in SUBSET Elements
               PROVE  LET some == \E p \in paths : Holds(p, true)
                      IN /\ Satisfies(true, EncodeTree(tree, <<>>)) => some
                         /\ some /\ Exclusive(true) => Satisfies(true, EncodeTree(tree, <<>>))
                         /\ <<>> \notin paths => (Satisfies(true, EncodeTreeNegation(tree, <<>>)) <=> ~some)
    BY DEF TreeEncodingsExact
  <2>1. GoodTree(tree, Elements) /\ tree.leaves = paths
    BY DEF PathsInv
  <2>2. ASSUME Satisfies(true, EncodeTree(tree, <<>>)) PROVE \E p \in paths : Holds(p, true)
    BY <2>1, <2>2, TreeImpliesPath
  <2>3. ASSUME NEW p \in paths, Holds(p, true), Exclusive(true)
        PROVE  Satisfies(true, EncodeTree(tree, <<>>))
    <3>1. ASSUME NEW n \in tree.nodes, NEW k \in Children(tree, n) \cap true,
                 NEW l \in Children(tree, n) \cap true
          PROVE  k = l
      <4>1. IsFiniteSet(Children(tree, n) \cap true)
        BY <2>1, ChildrenAreFinite, FS_Intersection
      <4>2. Cardinality(Children(tree, n) \cap true) <= 1
        BY <2>3 DEF Exclusive
      <4> QED BY <4>1, <4>2, AtMostOneElement
    <3> QED BY <2>1, <2>3, <3>1, PathImpliesTree
  <2>4. ASSUME <<>> \notin paths
        PROVE  Satisfies(true, EncodeTreeNegation(tree, <<>>)) <=> ~ \E p \in paths : Holds(p, true)
    BY <2>1, <2>4, NegationForbidsPaths
  <2> QED BY <2>2, <2>3, <2>4
<1> QED BY <1>1, PathsInvariant, PTL

-----------------------------------------------------------------------------
(* The substitution constraints of one operation.                          *)

Letters == QConstants \X Values
Substitutions == [QConstants -> Values]
Chosen(sub) == {<<q, sub[q]>> : q \in QConstants}
Full(qs, sub) == PathOf(qs, [i \in DOMAIN qs |-> sub[qs[i]]])

\* A tree over the values of the q-constants qs, in their order.
ConstraintTree(t, qs) ==
  /\ GoodTree(t, Letters)
  /\ \A n \in t.nodes : Len(n) <= Len(qs) /\ \A i \in 1..Len(n) : n[i][1] = qs[i]
  /\ \A p \in t.leaves : Len(p) = Len(qs)
Trees == [nodes : SUBSET Seq(Letters), leaves : SUBSET Seq(Letters)]

LEMMA QListsAreSequences ==
  ASSUME NEW qs \in QLists
  PROVE  qs \in Seq(QConstants) /\ Len(qs) \in Nat \ {0} /\ DOMAIN qs = 1..Len(qs)
<1>1. qs \in Seq(ToSet(qs)) /\ qs # <<>>
  BY InputAssumption
<1>2. ToSet(qs) \subseteq QConstants
  BY DEF QConstants
<1>3. qs \in Seq(QConstants)
  BY <1>1, <1>2, SeqMonotonic
<1>4. Len(qs) \in Nat \ {0}
  BY <1>1, EmptySeq
<1>5. DOMAIN qs = 1..Len(qs)
  BY <1>3, LenProperties
<1> QED BY <1>3, <1>4, <1>5

\* The path of a tuple of values.
LEMMA PathOfTuple ==
  ASSUME NEW qs \in QLists, NEW u \in Tuples(qs)
  PROVE  /\ PathOf(qs, u) \in Seq(Letters) /\ Len(PathOf(qs, u)) = Len(qs)
         /\ \A i \in 1..Len(qs) : PathOf(qs, u)[i] = <<qs[i], u[i]>>
<1> DEFINE p == PathOf(qs, u)
<1>1. qs \in Seq(QConstants) /\ Len(qs) \in Nat /\ DOMAIN qs = 1..Len(qs)
  BY QListsAreSequences
<1>2. \A i \in 1..Len(qs) : qs[i] \in QConstants
  BY <1>1
<1>3. \A i \in 1..Len(qs) : u[i] \in Values
  BY <1>1 DEF Tuples
<1>4. p = [i \in 1..Len(qs) |-> <<qs[i], u[i]>>]
  BY <1>1 DEF PathOf
<1> HIDE DEF p
<1>5. p \in [1..Len(qs) -> Letters]
  BY <1>2, <1>3, <1>4 DEF Letters
<1>6. p \in Seq(Letters)
  BY <1>1, <1>5, IsASeq
<1>7. DOMAIN p = 1..Len(p) /\ DOMAIN p = 1..Len(qs) /\ Len(p) \in Nat
  BY <1>4, <1>6, LenProperties
<1>8. Len(p) = Len(qs)
  BY <1>1, <1>6, <1>5
<1>9. \A i \in 1..Len(qs) : p[i] = <<qs[i], u[i]>>
  BY <1>4
<1> QED BY <1>6, <1>8, <1>9 DEF p

\* Different tuples have different paths.
LEMMA PathsDiffer ==
  ASSUME NEW qs \in QLists, NEW T \in SUBSET Tuples(qs), NEW u \in Tuples(qs)
  PROVE  PathOf(qs, u) \in PathsOf(qs, T) <=> u \in T
<1>1. ASSUME NEW v \in T, PathOf(qs, u) = PathOf(qs, v) PROVE u = v
  <2>1. v \in Tuples(qs)
    OBVIOUS
  <2>2. \A i \in 1..Len(qs) : PathOf(qs, u)[i] = <<qs[i], u[i]>>
    BY PathOfTuple
  <2>3. \A i \in 1..Len(qs) : PathOf(qs, v)[i] = <<qs[i], v[i]>>
    BY <2>1, PathOfTuple
  <2>4. ASSUME NEW i \in 1..Len(qs) PROVE u[i] = v[i]
    <3>1. <<qs[i], u[i]>> = <<qs[i], v[i]>>
      BY <1>1, <2>2, <2>3, Zenon
    <3> QED BY <3>1
  <2>5. DOMAIN qs = 1..Len(qs)
    BY QListsAreSequences
  <2> QED BY <2>1, <2>4, <2>5 DEF Tuples
<1> QED BY <1>1 DEF PathsOf

LEMMA FullIsTuple ==
  ASSUME NEW qs \in QLists, NEW sub \in Substitutions
  PROVE  [i \in DOMAIN qs |-> sub[qs[i]]] \in Tuples(qs)
<1>1. qs \in Seq(QConstants) /\ DOMAIN qs = 1..Len(qs)
  BY QListsAreSequences
<1>2. \A i \in 1..Len(qs) : qs[i] \in QConstants
  BY <1>1
<1>3. \A i \in DOMAIN qs : sub[qs[i]] \in Values
  BY <1>1, <1>2 DEF Substitutions
<1> QED BY <1>3 DEF Tuples

\* The path that holds under a substitution is the one of its values.
LEMMA HeldPathIsFull ==
  ASSUME NEW qs \in QLists, NEW sub \in Substitutions,
         NEW t, ConstraintTree(t, qs), NEW p \in t.leaves
  PROVE  Holds(p, Chosen(sub)) <=> p = Full(qs, sub)
<1> DEFINE u == [i \in DOMAIN qs |-> sub[qs[i]]]
           f == Full(qs, sub)
<1>1. qs \in Seq(QConstants) /\ Len(qs) \in Nat /\ DOMAIN qs = 1..Len(qs)
  BY QListsAreSequences
<1>2. u \in Tuples(qs) /\ \A i \in 1..Len(qs) : u[i] = sub[qs[i]]
  BY <1>1, FullIsTuple
<1>3. f = PathOf(qs, u)
  BY DEF Full
<1> HIDE DEF u, f
<1>4. f \in Seq(Letters) /\ Len(f) = Len(qs) /\ \A i \in 1..Len(qs) : f[i] = <<qs[i], sub[qs[i]]>>
  BY <1>2, <1>3, PathOfTuple
<1>5. /\ p \in Seq(Letters) /\ Len(p) = Len(qs)
      /\ \A i \in 1..Len(qs) : p[i][1] = qs[i]
  BY <1>1 DEF ConstraintTree, GoodTree, IsTree
<1>6. \A i \in 1..Len(qs) : p[i] = <<p[i][1], p[i][2]>> /\ p[i][1] \in QConstants
  BY <1>5 DEF Letters
<1>7. \A i \in 1..Len(qs) : p[i] \in Chosen(sub) <=> p[i] = f[i]
  <2> SUFFICES ASSUME NEW i \in 1..Len(qs) PROVE p[i] \in Chosen(sub) <=> p[i] = f[i]
    OBVIOUS
  <2>1. f[i] = <<qs[i], sub[qs[i]]>> /\ p[i][1] = qs[i] /\ qs[i] \in QConstants
    BY <1>4, <1>5, <1>6
  <2>2. f[i] \in Chosen(sub)
    BY <2>1 DEF Chosen
  <2>3. ASSUME p[i] \in Chosen(sub) PROVE p[i] = f[i]
    <3>1. PICK q \in QConstants : p[i] = <<q, sub[q]>>
      BY <2>3 DEF Chosen
    <3>2. q = qs[i]
      BY <2>1, <3>1
    <3> QED BY <2>1, <3>1, <3>2
  <2> QED BY <2>2, <2>3
<1>8. Holds(p, Chosen(sub)) <=> \A i \in 1..Len(qs) : p[i] \in Chosen(sub)
  BY <1>5 DEF Holds, ToSet
<1>9. ASSUME \A i \in 1..Len(qs) : p[i] = f[i] PROVE p = f
  BY <1>4, <1>5, <1>9, SeqEqual
<1>10. Holds(p, Chosen(sub)) <=> p = f
  BY <1>7, <1>8, <1>9, Zenon
<1> QED BY <1>10 DEF f

\* Children of one node are values of one q-constant.
LEMMA ChildrenExclude ==
  ASSUME NEW qs \in QLists, NEW sub \in Substitutions, NEW t, ConstraintTree(t, qs),
         NEW n \in t.nodes, NEW k \in Children(t, n) \cap Chosen(sub),
         NEW l \in Children(t, n) \cap Chosen(sub)
  PROVE  k = l
<1>1. GoodTree(t, Letters) /\ n \in Seq(Letters) /\ Len(n) \in Nat
  BY DEF ConstraintTree, GoodTree
<1>2. ASSUME NEW m \in Children(t, n), m \in Chosen(sub)
      PROVE  m = <<qs[Len(n) + 1], sub[qs[Len(n) + 1]]>>
  <2>1. m \in Letters /\ Append(n, m) \in t.nodes
    BY <1>1, ChildrenAreAppended
  <2>2. Len(Append(n, m)) = Len(n) + 1 /\ Append(n, m)[Len(n) + 1] = m
    BY <1>1, <2>1, FrontOfAppend
  <2>3. Len(n) + 1 \in 1..Len(Append(n, m))
    BY <1>1, <2>2
  <2>4. Append(n, m)[Len(n) + 1][1] = qs[Len(n) + 1]
    BY <2>1, <2>3 DEF ConstraintTree
  <2>5. PICK q \in QConstants : m = <<q, sub[q]>>
    BY <1>2 DEF Chosen
  <2>6. m[1] = qs[Len(n) + 1]
    BY <2>2, <2>4, Zenon
  <2>7. q = qs[Len(n) + 1]
    BY <2>5, <2>6
  <2> QED BY <2>5, <2>7, Zenon
<1> QED BY <1>2, Zenon

-----------------------------------------------------------------------------
(* What a constraint says.                                                 *)

Polarities == {"any_valid", "no_invalid"}
GoodConstraints ==
  {c \in [qs : QLists, polarity : Polarities, valid : Trees, invalid : Trees] :
     /\ ConstraintTree(c.valid, c.qs) /\ ConstraintTree(c.invalid, c.qs)
     /\ c.polarity = "any_valid" => c.invalid = EmptyTree
     /\ c.polarity = "no_invalid" => c.valid = EmptyTree}
Admits(c, sub) ==
  IF c.polarity = "any_valid" THEN Full(c.qs, sub) \in c.valid.leaves
                              ELSE Full(c.qs, sub) \notin c.invalid.leaves

\* The clauses of a constraint admit the substitutions whose path is valid,
\* or is not invalid.
LEMMA ConstraintSays ==
  ASSUME NEW c \in GoodConstraints, NEW sub \in Substitutions
  PROVE  Satisfies(Chosen(sub), ConstraintEncoding(c)) <=> Admits(c, sub)
<1>1. /\ c.qs \in QLists /\ c.polarity \in Polarities
      /\ ConstraintTree(c.valid, c.qs) /\ ConstraintTree(c.invalid, c.qs)
  BY DEF GoodConstraints
<1>2. GoodTree(c.valid, Letters) /\ GoodTree(c.invalid, Letters)
  BY <1>1 DEF ConstraintTree
<1>3. \A p \in c.valid.leaves : Holds(p, Chosen(sub)) <=> p = Full(c.qs, sub)
  BY <1>1, HeldPathIsFull
<1>4. \A p \in c.invalid.leaves : Holds(p, Chosen(sub)) <=> p = Full(c.qs, sub)
  BY <1>1, HeldPathIsFull
<1>5. CASE c.polarity = "any_valid"
  <2>1. ConstraintEncoding(c) = EncodeTree(c.valid, <<>>)
    BY <1>5 DEF ConstraintEncoding
  <2>2. ASSUME Satisfies(Chosen(sub), EncodeTree(c.valid, <<>>)) PROVE Full(c.qs, sub) \in c.valid.leaves
    <3>1. \E p \in c.valid.leaves : Holds(p, Chosen(sub))
      BY <1>2, <2>2, TreeImpliesPath
    <3> QED BY <1>3, <3>1, Zenon
  <2>3. ASSUME Full(c.qs, sub) \in c.valid.leaves PROVE Satisfies(Chosen(sub), EncodeTree(c.valid, <<>>))
    <3>1. Holds(Full(c.qs, sub), Chosen(sub))
      BY <1>3, <2>3, Zenon
    <3>2. \A n \in c.valid.nodes : \A k, l \in Children(c.valid, n) \cap Chosen(sub) : k = l
      BY <1>1, ChildrenExclude
    <3> QED BY <1>2, <2>3, <3>1, <3>2, PathImpliesTree
  <2> QED BY <1>5, <2>1, <2>2, <2>3, Zenon DEF Admits
<1>6. CASE c.polarity # "any_valid"
  <2>1. ConstraintEncoding(c) = EncodeTreeNegation(c.invalid, <<>>)
    BY <1>6 DEF ConstraintEncoding
  <2>2. <<>> \notin c.invalid.leaves
    <3>1. Len(<<>>) = 0
      BY EmptySeq
    <3>2. Len(c.qs) # 0
      BY <1>1, QListsAreSequences
    <3>3. \A p \in c.invalid.leaves : Len(p) = Len(c.qs)
      BY <1>1 DEF ConstraintTree
    <3> QED BY <3>1, <3>2, <3>3, Zenon
  <2>3. Satisfies(Chosen(sub), EncodeTreeNegation(c.invalid, <<>>)) <=>
          ~ \E p \in c.invalid.leaves : Holds(p, Chosen(sub))
    BY <1>2, <2>2, NegationForbidsPaths
  <2> QED BY <1>4, <1>6, <2>1, <2>3, Zenon DEF Admits
<1> QED BY <1>5, <1>6

-----------------------------------------------------------------------------
(* Adding a condition.                                                     *)

\* There are finitely many tuples over a finite domain.
LEMMA FiniteTuples ==
  ASSUME NEW V, IsFiniteSet(V), NEW n \in Nat
  PROVE  IsFiniteSet([1..n -> V])
<1> DEFINE B == {k \in Nat : ~ IsFiniteSet([1..k -> V])}
<1>1. ASSUME B # {} PROVE FALSE
  <2>1. PICK k \in B : \A j \in B : k <= j
    <3>1. B \subseteq Nat
      OBVIOUS
    <3> HIDE DEF B
    <3> QED BY <1>1, <3>1, LeastNumber
  <2>2. k # 0
    <3>1. ASSUME NEW u \in [1..0 -> V], NEW v \in [1..0 -> V] PROVE u = v
      OBVIOUS
    <3>2. ASSUME [1..0 -> V] = {} PROVE IsFiniteSet([1..0 -> V])
      BY <3>2, FS_EmptySet, Zenon
    <3>3. ASSUME NEW u \in [1..0 -> V] PROVE IsFiniteSet([1..0 -> V])
      <4>1. [1..0 -> V] = {u}
        BY <3>1
      <4> QED BY <4>1, FS_Singleton, Zenon
    <3>4. IsFiniteSet([1..0 -> V])
      BY <3>2, <3>3, Zenon
    <3> QED BY <3>4
  <2>3. k - 1 \in Nat /\ ~ (k <= k - 1) /\ k - 1 + 1 = k /\ k \in Nat
    BY <2>2
  <2> DEFINE j == k - 1
             A == [1..j -> V]
             C == [1..k -> V]
             f == [a \in A \X V |-> [i \in 1..k |-> IF i = k THEN a[2] ELSE a[1][i]]]
  <2>4. IsFiniteSet(A)
    BY <2>1, <2>3
  <2>5. IsFiniteSet(A \X V)
    BY <2>4, FS_Product
  <2>6. \A i \in 1..k : i = k \/ i \in 1..j
    BY <2>3
  <2>7. ASSUME NEW a \in A \X V PROVE f[a] \in C
    <3>1. a[1] \in A /\ a[2] \in V
      OBVIOUS
    <3>2. \A i \in 1..k : (IF i = k THEN a[2] ELSE a[1][i]) \in V
      BY <2>6, <3>1
    <3> QED BY <3>2
  <2>8. ASSUME NEW c \in C PROVE \E a \in A \X V : f[a] = c
    <3> DEFINE b == [i \in 1..j |-> c[i]]
    <3>1. \A i \in 1..j : i \in 1..k
      BY <2>3
    <3>2. k \in 1..k
      BY <2>2, <2>3
    <3>3. b \in A /\ c[k] \in V
      BY <3>1, <3>2
    <3>4. \A i \in 1..k : (IF i = k THEN c[k] ELSE b[i]) = c[i]
      BY <2>6
    <3>5. c = [i \in 1..k |-> c[i]]
      OBVIOUS
    <3>6. [i \in 1..k |-> IF i = k THEN c[k] ELSE b[i]] = c
      BY <3>4, <3>5
    <3> HIDE DEF b
    <3>7. <<b, c[k]>> \in A \X V
      BY <3>3
    <3>8. f[<<b, c[k]>>] = [i \in 1..k |-> IF i = k THEN c[k] ELSE b[i]]
      BY <3>7
    <3> QED BY <3>6, <3>7, <3>8
  <2>9. f \in Surjection(A \X V, C)
    <3>1. f \in [A \X V -> C]
      BY <2>7
    <3> HIDE DEF f, A, C
    <3> QED BY <2>8, <3>1 DEF Surjection
  <2>10. IsFiniteSet(C)
    <3> HIDE DEF f, A, C
    <3> QED BY <2>5, <2>9, FS_Surjection
  <2> QED BY <2>1, <2>10
<1> QED BY <1>1

\* Inserting a path over the q-constants keeps their tree.
LEMMA InsertKeepsConstraintTree ==
  ASSUME NEW qs \in QLists, NEW t, ConstraintTree(t, qs), NEW u \in Tuples(qs)
  PROVE  /\ ConstraintTree(Insert(t, PathOf(qs, u)), qs) /\ Insert(t, PathOf(qs, u)) \in Trees
         /\ Insert(t, PathOf(qs, u)).leaves = t.leaves \cup {PathOf(qs, u)}
<1> DEFINE p == PathOf(qs, u)
           w == Insert(t, p)
<1>1. p \in Seq(Letters) /\ Len(p) = Len(qs) /\ Len(qs) \in Nat
      /\ \A i \in 1..Len(qs) : p[i] = <<qs[i], u[i]>>
  BY PathOfTuple, QListsAreSequences
<1> HIDE DEF p
<1>2. /\ GoodTree(t, Letters) /\ \A q \in t.leaves : Len(q) = Len(qs)
      /\ \A n \in t.nodes : Len(n) <= Len(qs) /\ \A i \in 1..Len(n) : n[i][1] = qs[i]
  BY DEF ConstraintTree
<1>3. GoodTree(w, Letters) /\ w.leaves = t.leaves \cup {p}
  BY <1>1, <1>2, InsertKeepsTree
<1>4. ASSUME NEW n \in w.nodes PROVE Len(n) <= Len(qs) /\ \A i \in 1..Len(n) : n[i][1] = qs[i]
  <2>1. CASE n \in t.nodes
    BY <1>2, <2>1
  <2>2. CASE n \notin t.nodes
    <3>1. PICK k \in 0..Len(p) : n = SubSeq(p, 1, k)
      BY <2>2 DEF Insert
    <3>2. Len(n) = k /\ \A i \in 1..k : n[i] = p[i]
      BY <1>1, <3>1, Prefix
    <3>3. \A i \in 1..k : i \in 1..Len(qs)
      BY <1>1
    <3>4. \A i \in 1..k : n[i] = <<qs[i], u[i]>>
      BY <1>1, <3>2, <3>3, Zenon
    <3> QED BY <1>1, <3>2, <3>4
  <2> QED BY <2>1, <2>2
<1>5. \A q \in w.leaves : Len(q) = Len(qs)
  BY <1>1, <1>2, <1>3
<1>6. w.nodes \subseteq Seq(Letters) /\ w.leaves \subseteq Seq(Letters)
  BY <1>3 DEF GoodTree, IsTree
<1>7. w \in Trees
  <2>1. w = [nodes |-> w.nodes, leaves |-> w.leaves]
    BY DEF Insert
  <2> QED BY <1>6, <2>1 DEF Trees
<1> QED BY <1>3, <1>4, <1>5, <1>7 DEF ConstraintTree, p

LEMMA EmptyConstraintTree ==
  ASSUME NEW qs \in QLists
  PROVE  ConstraintTree(EmptyTree, qs) /\ EmptyTree \in Trees /\ EmptyTree.leaves = {}
<1>1. Len(<<>>) = 0 /\ <<>> \in Seq(Letters)
  BY EmptySeq
<1>2. Len(qs) \in Nat
  BY QListsAreSequences
<1>3. EmptyTree.nodes = {<<>>} /\ EmptyTree.leaves = {}
  BY DEF EmptyTree
<1>4. GoodTree(EmptyTree, Letters)
  BY EmptyTreeIsGood
<1>5. EmptyTree \in Trees
  BY <1>1 DEF Trees, EmptyTree
<1>6. ASSUME NEW n \in EmptyTree.nodes
      PROVE  Len(n) <= Len(qs) /\ \A i \in 1..Len(n) : n[i][1] = qs[i]
  <2>1. Len(n) = 0
    BY <1>1, <1>3, Zenon
  <2> QED BY <1>2, <2>1
<1> QED BY <1>3, <1>4, <1>5, <1>6 DEF ConstraintTree

\* InsertAll inserts all paths, in whatever order. (iter is the function that
\* FoldSet defines.)
LEMMA InsertAllIsExact ==
  ASSUME NEW qs \in QLists, NEW T \in SUBSET Tuples(qs)
  PROVE  LET t == InsertAll(EmptyTree, PathsOf(qs, T))
         IN  ConstraintTree(t, qs) /\ t \in Trees /\ t.leaves = PathsOf(qs, T)
<1> DEFINE P == PathsOf(qs, T)
           c(s) == CHOOSE x \in s : TRUE
           Body(g) == [s \in SUBSET P |-> IF s = {} THEN EmptyTree ELSE Insert(g[s \ {c(s)}], c(s))]
           iter == CHOOSE g : g = Body(g)
           prefixes(p) == {SubSeq(p, 1, i) : i \in 0..Len(p)}
           closed == [s \in SUBSET P |-> [nodes |-> {<<>>} \cup UNION {prefixes(p) : p \in s}, leaves |-> s]]
<1>1. InsertAll(EmptyTree, P) = iter[P]
  BY DEF InsertAll, FoldSet, MapThenFoldSet
<1>2. IsFiniteSet(P)
  <2> DEFINE f == [u \in T |-> PathOf(qs, u)]
  <2>1. Tuples(qs) = [1..Len(qs) -> Values] /\ Len(qs) \in Nat
    BY QListsAreSequences DEF Tuples
  <2>2. IsFiniteSet(Tuples(qs))
    BY <2>1, FiniteTuples, InputAssumption
  <2>3. IsFiniteSet(T)
    BY <2>2, FS_Subset
  <2>4. f \in Surjection(T, P)
    BY DEF Surjection, PathsOf
  <2> HIDE DEF f, P
  <2> QED BY <2>3, <2>4, FS_Surjection
<1>3. \A p \in P : \E u \in Tuples(qs) : p = PathOf(qs, u)
  BY DEF PathsOf
<1> HIDE DEF P
<1>4. \A s \in SUBSET P : s # {} => c(s) \in s /\ s \ {c(s)} \in SUBSET P /\ s = (s \ {c(s)}) \cup {c(s)}
  <2> SUFFICES ASSUME NEW s \in SUBSET P, s # {} PROVE c(s) \in s
    OBVIOUS
  <2> QED OBVIOUS
<1> HIDE DEF c
<1>5. closed = Body(closed)
  <2>1. ASSUME NEW s \in SUBSET P
        PROVE  closed[s] = IF s = {} THEN EmptyTree ELSE Insert(closed[s \ {c(s)}], c(s))
    <3>1. CASE s = {}
      BY <3>1 DEF EmptyTree
    <3>2. CASE s # {}
      <4> DEFINE r == s \ {c(s)}
      <4>1. r \in SUBSET P /\ s = r \cup {c(s)}
        BY <1>4, <3>2
      <4> HIDE DEF r, prefixes
      <4>2. closed[r].nodes = {<<>>} \cup UNION {prefixes(p) : p \in r} /\ closed[r].leaves = r
        BY <4>1
      <4>3. Insert(closed[r], c(s)) =
              [nodes |-> closed[r].nodes \cup prefixes(c(s)), leaves |-> closed[r].leaves \cup {c(s)}]
        BY Zenon DEF Insert, prefixes
      <4>4. UNION {prefixes(p) : p \in s} = (UNION {prefixes(p) : p \in r}) \cup prefixes(c(s))
        BY <4>1
      <4>5. closed[s].nodes = {<<>>} \cup UNION {prefixes(p) : p \in s} /\ closed[s].leaves = s
            /\ closed[s] = [nodes |-> closed[s].nodes, leaves |-> closed[s].leaves]
        OBVIOUS
      <4> HIDE DEF closed
      <4>6. closed[s].nodes = closed[r].nodes \cup prefixes(c(s))
        BY <4>2, <4>4, <4>5
      <4>7. closed[s].leaves = closed[r].leaves \cup {c(s)}
        BY <4>1, <4>2, <4>5
      <4>8. closed[s] = Insert(closed[r], c(s))
        BY <4>3, <4>5, <4>6, <4>7, Zenon
      <4> QED BY <3>2, <4>8 DEF r
    <3> QED BY <3>1, <3>2
  <2>2. closed = [s \in SUBSET P |-> closed[s]]
    OBVIOUS
  <2> HIDE DEF closed
  <2> QED BY <2>1, <2>2
<1> HIDE DEF closed
<1>6. iter = Body(iter)
  <2> HIDE DEF Body
  <2> QED BY <1>5, Zenon
<1>7. \A s \in SUBSET P : iter[s] = IF s = {} THEN EmptyTree ELSE Insert(iter[s \ {c(s)}], c(s))
  <2> DEFINE g(s) == IF s = {} THEN EmptyTree ELSE Insert(iter[s \ {c(s)}], c(s))
  <2> HIDE DEF iter
  <2>1. iter = [s \in SUBSET P |-> g(s)]
    BY <1>6, Zenon
  <2> HIDE DEF g
  <2>2. \A s \in SUBSET P : iter[s] = g(s)
    BY <2>1
  <2> QED BY <2>2 DEF g
<1> HIDE DEF iter, Body
<1> DEFINE Good(s) == ConstraintTree(iter[s], qs) /\ iter[s] \in Trees /\ iter[s].leaves = s
           B == {s \in SUBSET P : ~ Good(s)}
<1>8. ASSUME B # {} PROVE FALSE
  <2>1. B \subseteq SUBSET P
    OBVIOUS
  <2>2. PICK s \in B : \A u \in B : u \subseteq s => u = s
    <3> HIDE DEF B
    <3> QED BY <1>2, <1>8, <2>1, MinimalSubset
  <2>3. s \in SUBSET P /\ ~ Good(s)
    OBVIOUS
  <2>4. s # {}
    <3> SUFFICES ASSUME s = {} PROVE FALSE
      OBVIOUS
    <3>1. iter[s] = EmptyTree
      BY <1>7, <2>3
    <3> QED BY <2>3, <3>1, EmptyConstraintTree
  <2> DEFINE r == s \ {c(s)}
  <2>5. c(s) \in s /\ r \in SUBSET P /\ s = r \cup {c(s)} /\ r # s /\ r \subseteq s
    BY <1>4, <2>3, <2>4
  <2>6. iter[s] = Insert(iter[r], c(s))
    BY <1>7, <2>3, <2>4
  <2> HIDE DEF r
  <2>7. Good(r)
    BY <2>2, <2>5
  <2>8. PICK u \in Tuples(qs) : c(s) = PathOf(qs, u)
    BY <1>3, <2>3, <2>5
  <2>9. /\ ConstraintTree(Insert(iter[r], PathOf(qs, u)), qs) /\ Insert(iter[r], PathOf(qs, u)) \in Trees
        /\ Insert(iter[r], PathOf(qs, u)).leaves = iter[r].leaves \cup {PathOf(qs, u)}
    BY <2>7, InsertKeepsConstraintTree
  <2>10. Good(s)
    BY <2>5, <2>6, <2>7, <2>8, <2>9, Zenon
  <2> QED BY <2>3, <2>10
<1>9. Good(P)
  BY <1>8
<1> QED BY <1>1, <1>9, Zenon DEF P

\* A new constraint admits the substitutions that meet its condition, whichever
\* side it keeps.
LEMMA NewConstraint ==
  ASSUME NEW qs \in QLists, NEW reachable \in SUBSET Tuples(qs), NEW polarity
  PROVE  LET c == FixPolarity([Constraint(qs) EXCEPT
                      !.valid = InsertAll(@, PathsOf(qs, reachable)),
                      !.invalid = InsertAll(@, PathsOf(qs, Tuples(qs) \ reachable))], polarity)
         IN  /\ c \in GoodConstraints
             /\ \A sub \in Substitutions :
                  Admits(c, sub) <=> Meets(sub, [qs |-> qs, reachable |-> reachable])
<1> DEFINE V == InsertAll(EmptyTree, PathsOf(qs, reachable))
           W == InsertAll(EmptyTree, PathsOf(qs, Tuples(qs) \ reachable))
           d == [qs |-> qs, polarity |-> "undecided", valid |-> V, invalid |-> W]
           c == FixPolarity(d, polarity)
<1>1. [Constraint(qs) EXCEPT !.valid = InsertAll(@, PathsOf(qs, reachable)),
                             !.invalid = InsertAll(@, PathsOf(qs, Tuples(qs) \ reachable))] = d
  <2>1. Constraint(qs).valid = EmptyTree /\ Constraint(qs).invalid = EmptyTree
    BY DEF Constraint
  <2>2. \A v, w : [Constraint(qs) EXCEPT !.valid = v, !.invalid = w] =
                    [qs |-> qs, polarity |-> "undecided", valid |-> v, invalid |-> w]
    <3>1. \A v : [Constraint(qs) EXCEPT !.valid = v] =
                   [qs |-> qs, polarity |-> "undecided", valid |-> v, invalid |-> EmptyTree]
      BY DEF Constraint
    <3>2. \A v, w : [[qs |-> qs, polarity |-> "undecided", valid |-> v, invalid |-> EmptyTree]
                      EXCEPT !.invalid = w] =
                    [qs |-> qs, polarity |-> "undecided", valid |-> v, invalid |-> w]
      OBVIOUS
    <3> QED BY <3>1, <3>2, Zenon
  <2> QED BY <2>1, <2>2, Zenon
<1>2. ConstraintTree(V, qs) /\ V \in Trees /\ V.leaves = PathsOf(qs, reachable)
  BY InsertAllIsExact
<1>3. ConstraintTree(W, qs) /\ W \in Trees /\ W.leaves = PathsOf(qs, Tuples(qs) \ reachable)
  BY InsertAllIsExact
<1> HIDE DEF V, W
<1>4. ConstraintTree(EmptyTree, qs) /\ EmptyTree \in Trees
  BY EmptyConstraintTree
<1>5. ASSUME NEW sub \in Substitutions
      PROVE  /\ Full(qs, sub) \in PathsOf(qs, reachable)
                  <=> Meets(sub, [qs |-> qs, reachable |-> reachable])
             /\ Full(qs, sub) \notin PathsOf(qs, Tuples(qs) \ reachable)
                  <=> Meets(sub, [qs |-> qs, reachable |-> reachable])
  <2> DEFINE u == [i \in DOMAIN qs |-> sub[qs[i]]]
  <2>1. u \in Tuples(qs)
    BY FullIsTuple
  <2>2. Full(qs, sub) = PathOf(qs, u) /\ (Meets(sub, [qs |-> qs, reachable |-> reachable]) <=> u \in reachable)
    BY DEF Full, Meets
  <2> HIDE DEF u
  <2>3. PathOf(qs, u) \in PathsOf(qs, reachable) <=> u \in reachable
    BY <2>1, PathsDiffer
  <2>4. PathOf(qs, u) \in PathsOf(qs, Tuples(qs) \ reachable) <=> u \in Tuples(qs) \ reachable
    BY <2>1, PathsDiffer
  <2> QED BY <2>1, <2>2, <2>3, <2>4
<1>6. \/ c = [qs |-> qs, polarity |-> "any_valid", valid |-> V, invalid |-> EmptyTree]
      \/ c = [qs |-> qs, polarity |-> "no_invalid", valid |-> EmptyTree, invalid |-> W]
  BY DEF FixPolarity
<1> HIDE DEF c
<1>7. c \in GoodConstraints
  BY <1>2, <1>3, <1>4, <1>6 DEF GoodConstraints, Polarities
<1>8. ASSUME NEW sub \in Substitutions
      PROVE  Admits(c, sub) <=> Meets(sub, [qs |-> qs, reachable |-> reachable])
  <2>1. CASE c = [qs |-> qs, polarity |-> "any_valid", valid |-> V, invalid |-> EmptyTree]
    <3>1. Admits(c, sub) <=> Full(qs, sub) \in V.leaves
      BY <2>1 DEF Admits
    <3> QED BY <1>2, <1>5, <3>1, Zenon
  <2>2. CASE c = [qs |-> qs, polarity |-> "no_invalid", valid |-> EmptyTree, invalid |-> W]
    <3>1. Admits(c, sub) <=> Full(qs, sub) \notin W.leaves
      BY <2>2 DEF Admits
    <3> QED BY <1>3, <1>5, <3>1, Zenon
  <2> QED BY <1>6, <2>1, <2>2
<1> HIDE DEF d
<1> QED BY <1>1, <1>7, <1>8, Zenon DEF c

-----------------------------------------------------------------------------
(* Merging.                                                                *)

LEMMA IntersectKeepsTree ==
  ASSUME NEW qs \in QLists, NEW t, ConstraintTree(t, qs), NEW u, ConstraintTree(u, qs)
  PROVE  /\ ConstraintTree(Intersect(t, u), qs) /\ Intersect(t, u) \in Trees
         /\ Intersect(t, u).leaves = t.leaves \cap u.leaves
<1> DEFINE w == Intersect(t, u)
<1>1. /\ w.nodes = t.nodes \cap u.nodes /\ w.leaves = t.leaves \cap u.leaves
      /\ w = [nodes |-> w.nodes, leaves |-> w.leaves]
  BY DEF Intersect
<1> HIDE DEF w
<1>2. /\ t.nodes \subseteq Seq(Letters) /\ IsFiniteSet(t.nodes)
      /\ <<>> \in t.nodes /\ t.leaves \subseteq t.nodes
      /\ \A n \in t.nodes \ {<<>>} : Front(n) \in t.nodes
      /\ \A n \in t.nodes : Len(n) <= Len(qs) /\ \A i \in 1..Len(n) : n[i][1] = qs[i]
      /\ \A p \in t.leaves : Len(p) = Len(qs)
  BY DEF ConstraintTree, GoodTree, IsTree
<1>3. /\ <<>> \in u.nodes /\ u.leaves \subseteq u.nodes
      /\ \A n \in u.nodes \ {<<>>} : Front(n) \in u.nodes
  BY DEF ConstraintTree, GoodTree, IsTree
<1>4. IsFiniteSet(w.nodes)
  BY <1>1, <1>2, FS_Subset
<1>5. IsTree(w)
  BY <1>1, <1>2, <1>3 DEF IsTree
<1>6. w \in Trees
  BY <1>1, <1>2, <1>3 DEF Trees
<1>7. ConstraintTree(w, qs)
  BY <1>1, <1>2, <1>4, <1>5 DEF ConstraintTree, GoodTree
<1> QED BY <1>1, <1>6, <1>7 DEF w

LEMMA MergeKeepsTree ==
  ASSUME NEW qs \in QLists, NEW t, ConstraintTree(t, qs), NEW u, ConstraintTree(u, qs)
  PROVE  /\ ConstraintTree(Merge(t, u), qs) /\ Merge(t, u) \in Trees
         /\ Merge(t, u).leaves = t.leaves \cup u.leaves
<1> DEFINE w == Merge(t, u)
<1>1. /\ w.nodes = t.nodes \cup u.nodes /\ w.leaves = t.leaves \cup u.leaves
      /\ w = [nodes |-> w.nodes, leaves |-> w.leaves]
  BY DEF Merge
<1> HIDE DEF w
<1>2. /\ t.nodes \subseteq Seq(Letters) /\ IsFiniteSet(t.nodes)
      /\ <<>> \in t.nodes /\ t.leaves \subseteq t.nodes
      /\ \A n \in t.nodes \ {<<>>} : Front(n) \in t.nodes
      /\ \A n \in t.nodes : Len(n) <= Len(qs) /\ \A i \in 1..Len(n) : n[i][1] = qs[i]
      /\ \A p \in t.leaves : Len(p) = Len(qs)
  BY DEF ConstraintTree, GoodTree, IsTree
<1>3. /\ u.nodes \subseteq Seq(Letters) /\ IsFiniteSet(u.nodes)
      /\ <<>> \in u.nodes /\ u.leaves \subseteq u.nodes
      /\ \A n \in u.nodes \ {<<>>} : Front(n) \in u.nodes
      /\ \A n \in u.nodes : Len(n) <= Len(qs) /\ \A i \in 1..Len(n) : n[i][1] = qs[i]
      /\ \A p \in u.leaves : Len(p) = Len(qs)
  BY DEF ConstraintTree, GoodTree, IsTree
<1>4. IsFiniteSet(w.nodes)
  <2>1. IsFiniteSet(t.nodes) /\ IsFiniteSet(u.nodes)
    BY <1>2, <1>3
  <2>2. IsFiniteSet(t.nodes \cup u.nodes)
    BY <2>1, FS_Union
  <2> QED BY <1>1, <2>2, Zenon
<1>5. IsTree(w)
  BY <1>1, <1>2, <1>3 DEF IsTree
<1>6. w \in Trees
  BY <1>1, <1>2, <1>3 DEF Trees
<1>7. ConstraintTree(w, qs)
  BY <1>1, <1>2, <1>3, <1>4, <1>5 DEF ConstraintTree, GoodTree
<1> QED BY <1>1, <1>6, <1>7 DEF w

\* The merged constraint admits what both admit.
LEMMA MergeIsConjunction ==
  ASSUME NEW c \in GoodConstraints, NEW d \in GoodConstraints, CanMerge(c, d)
  PROVE  /\ MergeConstraints(c, d) \in GoodConstraints
         /\ \A sub : Admits(MergeConstraints(c, d), sub) <=> Admits(c, sub) /\ Admits(d, sub)
<1>1. /\ c \in [qs : QLists, polarity : Polarities, valid : Trees, invalid : Trees]
      /\ ConstraintTree(c.valid, c.qs) /\ ConstraintTree(c.invalid, c.qs)
      /\ c.polarity = "any_valid" => c.invalid = EmptyTree
      /\ c.polarity = "no_invalid" => c.valid = EmptyTree
  BY DEF GoodConstraints
<1>2. c.qs \in QLists /\ d.qs = c.qs /\ d.polarity = c.polarity
      /\ ConstraintTree(d.valid, c.qs) /\ ConstraintTree(d.invalid, c.qs)
  BY DEF GoodConstraints, CanMerge
<1> DEFINE m == MergeConstraints(c, d)
<1>3. CASE c.polarity = "any_valid"
  <2> DEFINE w == Intersect(c.valid, d.valid)
  <2>1. ConstraintTree(w, c.qs) /\ w \in Trees /\ w.leaves = c.valid.leaves \cap d.valid.leaves
    BY <1>1, <1>2, IntersectKeepsTree
  <2>2. m = [c EXCEPT !.valid = w]
    BY <1>3 DEF MergeConstraints
  <2> HIDE DEF w, m
  <2>3. /\ m \in [qs : QLists, polarity : Polarities, valid : Trees, invalid : Trees]
        /\ m.qs = c.qs /\ m.polarity = "any_valid" /\ m.valid = w /\ m.invalid = c.invalid
    BY <1>1, <1>3, <2>1, <2>2
  <2>4. m \in GoodConstraints
    <3>1. ConstraintTree(m.valid, m.qs) /\ ConstraintTree(m.invalid, m.qs) /\ m.invalid = EmptyTree
      BY <1>1, <1>3, <2>1, <2>3, Zenon
    <3> QED BY <2>3, <3>1 DEF GoodConstraints
  <2>5. ASSUME NEW sub PROVE Admits(m, sub) <=> Admits(c, sub) /\ Admits(d, sub)
    <3>1. Full(m.qs, sub) = Full(c.qs, sub) /\ Full(d.qs, sub) = Full(c.qs, sub)
      BY <1>2, <2>3, Zenon
    <3>2. m.valid.leaves = c.valid.leaves \cap d.valid.leaves
      BY <2>1, <2>3
    <3> QED BY <1>2, <1>3, <2>3, <3>1, <3>2 DEF Admits
  <2> QED BY <2>4, <2>5 DEF m
<1>4. CASE c.polarity = "no_invalid"
  <2> DEFINE w == Merge(c.invalid, d.invalid)
  <2>1. ConstraintTree(w, c.qs) /\ w \in Trees /\ w.leaves = c.invalid.leaves \cup d.invalid.leaves
    BY <1>1, <1>2, MergeKeepsTree
  <2>2. m = [c EXCEPT !.invalid = w]
    BY <1>4 DEF MergeConstraints
  <2> HIDE DEF w, m
  <2>3. /\ m \in [qs : QLists, polarity : Polarities, valid : Trees, invalid : Trees]
        /\ m.qs = c.qs /\ m.polarity = "no_invalid" /\ m.valid = c.valid /\ m.invalid = w
    BY <1>1, <1>4, <2>1, <2>2
  <2>4. m \in GoodConstraints
    <3>1. ConstraintTree(m.valid, m.qs) /\ ConstraintTree(m.invalid, m.qs) /\ m.valid = EmptyTree
      BY <1>1, <1>4, <2>1, <2>3, Zenon
    <3> QED BY <2>3, <3>1 DEF GoodConstraints
  <2>5. ASSUME NEW sub PROVE Admits(m, sub) <=> Admits(c, sub) /\ Admits(d, sub)
    <3>1. Full(m.qs, sub) = Full(c.qs, sub) /\ Full(d.qs, sub) = Full(c.qs, sub)
      BY <1>2, <2>3, Zenon
    <3>2. m.invalid.leaves = c.invalid.leaves \cup d.invalid.leaves
      BY <2>1, <2>3
    <3> QED BY <1>2, <1>4, <2>3, <3>1, <3>2 DEF Admits
  <2> QED BY <2>4, <2>5 DEF m
<1> QED BY <1>1, <1>3, <1>4 DEF Polarities

\* All constraints of a list admit sub.
AllAdmit(list, sub) == \A i \in DOMAIN list : Admits(list[i], sub)

\* Absorbing one more constraint.
LEMMA MergeOntoIsConjunction ==
  ASSUME NEW acc \in Seq(GoodConstraints), NEW d \in GoodConstraints
  PROVE  /\ MergeOnto(acc, d) \in Seq(GoodConstraints)
         /\ \A sub : AllAdmit(MergeOnto(acc, d), sub) <=> AllAdmit(acc, sub) /\ Admits(d, sub)
<1> DEFINE fit == {i \in DOMAIN acc : CanMerge(acc[i], d)}
           res == MergeOnto(acc, d)
<1>1. Len(acc) \in Nat /\ DOMAIN acc = 1..Len(acc) /\ \A i \in 1..Len(acc) : acc[i] \in GoodConstraints
  BY LenProperties
<1>2. CASE fit = {}
  <2>1. res = Append(acc, d)
    BY <1>2 DEF MergeOnto
  <2> HIDE DEF res, fit
  <2>2. /\ res \in Seq(GoodConstraints) /\ Len(res) = Len(acc) + 1
        /\ \A i \in 1..Len(acc) : res[i] = acc[i]
        /\ res[Len(acc) + 1] = d
    BY <2>1, AppendProperties
  <2>3. DOMAIN res = 1..(Len(acc) + 1)
    BY <2>2, LenProperties
  <2>4. \A i \in 1..(Len(acc) + 1) : i \in 1..Len(acc) \/ i = Len(acc) + 1
    BY <1>1
  <2>5. Len(acc) + 1 \in 1..(Len(acc) + 1) /\ \A i \in 1..Len(acc) : i \in 1..(Len(acc) + 1)
    BY <1>1
  <2>6. ASSUME NEW sub PROVE AllAdmit(res, sub) <=> AllAdmit(acc, sub) /\ Admits(d, sub)
    BY <1>1, <2>2, <2>3, <2>4, <2>5, Zenon DEF AllAdmit
  <2> QED BY <2>2, <2>6 DEF res
<1>3. CASE fit # {}
  <2> DEFINE k == Min(fit)
             m == MergeConstraints(acc[k], d)
  <2>1. k \in fit
    <3>1. fit \subseteq Nat
      BY <1>1
    <3> HIDE DEF fit
    <3>2. \E x \in fit : \A y \in fit : x <= y
      BY <1>3, <3>1, LeastNumber
    <3> QED BY <3>2 DEF Min
  <2>2. res = [acc EXCEPT ![k] = m]
    BY <1>3, Zenon DEF MergeOnto
  <2>3. k \in 1..Len(acc) /\ acc[k] \in GoodConstraints /\ CanMerge(acc[k], d)
    BY <1>1, <2>1
  <2> HIDE DEF res, fit, k
  <2>4. m \in GoodConstraints /\ \A sub : Admits(m, sub) <=> Admits(acc[k], sub) /\ Admits(d, sub)
    BY <2>3, MergeIsConjunction
  <2> HIDE DEF m
  <2>5. /\ res \in Seq(GoodConstraints) /\ Len(res) = Len(acc)
        /\ \A i \in 1..Len(acc) : res[i] = IF i = k THEN m ELSE acc[i]
    BY <2>2, <2>3, <2>4, ExceptSeq
  <2>6. DOMAIN res = 1..Len(acc)
    BY <2>5, LenProperties
  <2>7. res[k] = m /\ \A i \in 1..Len(acc) : i # k => res[i] = acc[i]
    BY <2>3, <2>5
  <2>8. ASSUME NEW sub PROVE AllAdmit(res, sub) <=> AllAdmit(acc, sub) /\ Admits(d, sub)
    <3>1. ASSUME AllAdmit(res, sub) PROVE AllAdmit(acc, sub) /\ Admits(d, sub)
      BY <1>1, <2>3, <2>4, <2>6, <2>7, <3>1, Zenon DEF AllAdmit
    <3>2. ASSUME AllAdmit(acc, sub), Admits(d, sub) PROVE AllAdmit(res, sub)
      BY <1>1, <2>3, <2>4, <2>6, <2>7, <3>2, Zenon DEF AllAdmit
    <3> QED BY <3>1, <3>2
  <2> QED BY <2>5, <2>8 DEF res
<1> QED BY <1>2, <1>3

\* Merging a list of constraints leaves what they admit together as it is.
\* (iter is the function that FoldLeft defines.)
LEMMA MergeAllIsConjunction ==
  ASSUME NEW list \in Seq(GoodConstraints)
  PROVE  /\ MergeAll(list) \in Seq(GoodConstraints)
         /\ \A sub : AllAdmit(MergeAll(list), sub) <=> AllAdmit(list, sub)
<1> DEFINE I == 1..Len(list)
           Body(g, U) == [s \in SUBSET U |-> IF s = {} THEN <<>> ELSE MergeOnto(g[s \ {Max(s)}], list[Max(s)])]
           iter == CHOOSE g : g = Body(g, I)
<1>1. Len(list) \in Nat /\ DOMAIN list = I /\ \A i \in I : list[i] \in GoodConstraints
  BY LenProperties
<1>2. MergeAll(list) = iter[I]
  <2>1. MergeAll(list) =
          LET it[s \in SUBSET (DOMAIN list)] ==
                IF s = {} THEN <<>> ELSE MergeOnto(it[s \ {Max(s)}], list[Max(s)])
          IN it[DOMAIN list]
    BY DEF MergeAll, FoldLeft, MapThenFoldSet
  <2> HIDE DEF I
  <2> QED BY <1>1, <2>1
<1>3. IsFiniteSet(I) /\ I \subseteq Nat /\ \A x \in I : x <= Len(list)
  BY <1>1, FS_Interval
<1>4. \A s \in SUBSET I : s # {} => Max(s) \in s /\ \A y \in s : y <= Max(s)
  <2> SUFFICES ASSUME NEW s \in SUBSET I, s # {} PROVE Max(s) \in s /\ \A y \in s : y <= Max(s)
    OBVIOUS
  <2>1. s \subseteq Nat /\ \A x \in s : x <= Len(list)
    BY <1>3
  <2> QED BY <1>1, <2>1, GreatestNumber
<1> HIDE DEF I
\* The recursion is well defined: a function on the subsets of U without its
\* greatest element extends to those of U.
<1>5. \E g : g = Body(g, I)
  <2> DEFINE B == {U \in SUBSET I : ~ \E g : g = Body(g, U)}
  <2>1. ASSUME B # {} PROVE FALSE
    <3>1. B \subseteq SUBSET I
      OBVIOUS
    <3>2. PICK U \in B : \A W \in B : W \subseteq U => W = U
      <4> HIDE DEF B
      <4>1. IsFiniteSet(I)
        BY <1>3
      <4> QED BY <2>1, <3>1, <4>1, MinimalSubset
    <3>3. U \in SUBSET I /\ ~ \E g : g = Body(g, U)
      OBVIOUS
    <3>4. CASE U = {}
      <4> DEFINE h == [s \in SUBSET U |-> <<>>]
      <4>1. \A s \in SUBSET U : s = {}
        BY <3>4
      <4>2. h = Body(h, U)
        BY <4>1
      <4> QED BY <3>3, <4>2
    <3>5. CASE U # {}
      <4> DEFINE x == Max(U)
                 W == U \ {x}
      <4>1. x \in U /\ \A y \in U : y <= x
        BY <1>4, <3>3, <3>5
      <4> HIDE DEF x
      <4>2. W \in SUBSET I /\ W \subseteq U /\ W # U
        BY <3>3, <4>1
      <4>3. PICK g : g = Body(g, W)
        BY <3>2, <4>2
      <4> DEFINE h == [s \in SUBSET U |-> IF x \in s THEN MergeOnto(g[s \ {x}], list[x]) ELSE g[s]]
      <4>4. ASSUME NEW s \in SUBSET U
            PROVE  h[s] = IF s = {} THEN <<>> ELSE MergeOnto(h[s \ {Max(s)}], list[Max(s)])
        <5>0. \A r \in SUBSET W : g[r] = IF r = {} THEN <<>> ELSE MergeOnto(g[r \ {Max(r)}], list[Max(r)])
          <6> DEFINE e(r) == IF r = {} THEN <<>> ELSE MergeOnto(g[r \ {Max(r)}], list[Max(r)])
          <6>1. g = [r \in SUBSET W |-> e(r)]
            BY <4>3, Zenon
          <6> HIDE DEF e, W
          <6>2. \A r \in SUBSET W : g[r] = e(r)
            BY <6>1
          <6> QED BY <6>2 DEF e
        <5>1. CASE x \in s
          <6>1. s \in SUBSET I /\ s # {}
            BY <3>3, <5>1
          <6>2. Max(s) \in s /\ \A y \in s : y <= Max(s)
            BY <1>4, <6>1
          <6>3. Max(s) = x
            <7>1. Max(s) \in Nat /\ x \in Nat
              BY <1>3, <6>1, <6>2, <5>1
            <7>2. x <= Max(s) /\ Max(s) <= x
              BY <4>1, <5>1, <6>2
            <7> QED BY <7>1, <7>2
          <6>4. s \ {x} \in SUBSET U /\ x \notin s \ {x}
            OBVIOUS
          <6>5. h[s \ {x}] = g[s \ {x}]
            BY <6>4
          <6>6. h[s] = MergeOnto(g[s \ {x}], list[x])
            BY <5>1
          <6> HIDE DEF h
          <6> QED BY <6>1, <6>3, <6>5, <6>6, Zenon
        <5>2. CASE x \notin s
          <6>1. s \in SUBSET W
            BY <5>2
          <6>2. h[s] = g[s]
            BY <5>2
          <6>3. CASE s = {}
            BY <5>0, <6>1, <6>2, <6>3
          <6>4. CASE s # {}
            <7>1. s \ {Max(s)} \in SUBSET U /\ x \notin s \ {Max(s)}
              BY <5>2
            <7>2. h[s \ {Max(s)}] = g[s \ {Max(s)}]
              BY <7>1
            <7>3. g[s] = MergeOnto(g[s \ {Max(s)}], list[Max(s)])
              BY <5>0, <6>1, <6>4, Zenon
            <7> HIDE DEF h
            <7> QED BY <6>2, <6>4, <7>2, <7>3, Zenon
          <6> QED BY <6>3, <6>4
        <5> QED BY <5>1, <5>2
      <4>5. h = [s \in SUBSET U |-> h[s]]
        OBVIOUS
      <4> HIDE DEF h
      <4>6. h = Body(h, U)
        BY <4>4, <4>5
      <4> QED BY <3>3, <4>6
    <3> QED BY <3>4, <3>5
  <2> QED BY <2>1
<1>6. iter = Body(iter, I)
  <2> HIDE DEF Body
  <2> QED BY <1>5, Zenon
<1> HIDE DEF iter
<1>7. \A s \in SUBSET I : iter[s] = IF s = {} THEN <<>> ELSE MergeOnto(iter[s \ {Max(s)}], list[Max(s)])
  <2> DEFINE e(s) == IF s = {} THEN <<>> ELSE MergeOnto(iter[s \ {Max(s)}], list[Max(s)])
  <2>1. iter = [s \in SUBSET I |-> e(s)]
    BY <1>6, Zenon
  <2> HIDE DEF e
  <2>2. \A s \in SUBSET I : iter[s] = e(s)
    BY <2>1
  <2> QED BY <2>2 DEF e
<1> HIDE DEF Body
<1> DEFINE Good(s) == /\ iter[s] \in Seq(GoodConstraints)
                      /\ \A sub : AllAdmit(iter[s], sub) <=> \A i \in s : Admits(list[i], sub)
           B == {s \in SUBSET I : ~ Good(s)}
<1>8. ASSUME B # {} PROVE FALSE
  <2>1. B \subseteq SUBSET I
    OBVIOUS
  <2>2. PICK s \in B : \A u \in B : u \subseteq s => u = s
    <3>1. IsFiniteSet(I)
      BY <1>3
    <3> HIDE DEF B
    <3> QED BY <1>8, <2>1, <3>1, MinimalSubset
  <2>3. s \in SUBSET I /\ ~ Good(s)
    OBVIOUS
  <2>4. CASE s = {}
    <3>1. iter[s] = <<>>
      BY <1>7, <2>3, <2>4, Zenon
    <3>2. <<>> \in Seq(GoodConstraints) /\ Len(<<>>) = 0
      BY EmptySeq
    <3>3. DOMAIN <<>> = 1..0
      BY <3>2, LenProperties
    <3>4. \A i : i \notin 1..0
      OBVIOUS
    <3>5. \A sub : AllAdmit(<<>>, sub)
      BY <3>3, <3>4, Zenon DEF AllAdmit
    <3> QED BY <2>3, <2>4, <3>1, <3>2, <3>5, Zenon
  <2>5. CASE s # {}
    <3> DEFINE x == Max(s)
               r == s \ {x}
    <3>1. x \in s
      BY <1>4, <2>3, <2>5
    <3>2. iter[s] = MergeOnto(iter[r], list[x])
      BY <1>7, <2>3, <2>5, Zenon
    <3> HIDE DEF x
    <3>3. r \in SUBSET I /\ r \subseteq s /\ r # s /\ x \in I
      BY <2>3, <3>1
    <3>4. Good(r)
      BY <2>2, <3>3
    <3>5. \A i \in s : i = x \/ i \in r
      OBVIOUS
    <3> HIDE DEF r
    <3>6. list[x] \in GoodConstraints
      BY <1>1, <3>3
    <3>7. /\ MergeOnto(iter[r], list[x]) \in Seq(GoodConstraints)
          /\ \A sub : AllAdmit(MergeOnto(iter[r], list[x]), sub) <=>
                        AllAdmit(iter[r], sub) /\ Admits(list[x], sub)
      BY <3>4, <3>6, MergeOntoIsConjunction
    <3>8. \A sub : AllAdmit(iter[s], sub) <=> \A i \in s : Admits(list[i], sub)
      <4> SUFFICES ASSUME NEW sub PROVE AllAdmit(iter[s], sub) <=> \A i \in s : Admits(list[i], sub)
        OBVIOUS
      <4>1. AllAdmit(iter[s], sub) <=> AllAdmit(iter[r], sub) /\ Admits(list[x], sub)
        BY <3>2, <3>7, Zenon
      <4>2. AllAdmit(iter[r], sub) <=> \A i \in r : Admits(list[i], sub)
        BY <3>4, Zenon
      <4>3. \A i \in r : i \in s
        BY <3>3
      <4> QED BY <3>1, <3>5, <4>1, <4>2, <4>3, Zenon
    <3>9. iter[s] \in Seq(GoodConstraints)
      BY <3>2, <3>7, Zenon
    <3> QED BY <2>3, <3>8, <3>9
  <2> QED BY <2>4, <2>5
<1>9. Good(I)
  BY <1>8
<1> QED BY <1>1, <1>2, <1>9, Zenon DEF AllAdmit

-----------------------------------------------------------------------------
(* The invariant: together the constraints admit what meets the conditions. *)

ConditionsInv ==
  /\ constraints \in Seq(GoodConstraints)
  /\ \A sub \in Substitutions :
       (\A c \in conditions : Meets(sub, c)) <=> AllAdmit(constraints, sub)

LEMMA ConditionsInvariant == Spec => []ConditionsInv
<1>1. Init => ConditionsInv
  <2> SUFFICES ASSUME Init PROVE ConditionsInv
    OBVIOUS
  <2>1. constraints = <<>> /\ conditions = {}
    BY DEF Init
  <2>2. <<>> \in Seq(GoodConstraints) /\ Len(<<>>) = 0
    BY EmptySeq
  <2>3. DOMAIN <<>> = 1..0
    BY <2>2, LenProperties
  <2>4. \A i : i \notin 1..0
    OBVIOUS
  <2>5. \A sub : AllAdmit(<<>>, sub)
    BY <2>3, <2>4, Zenon DEF AllAdmit
  <2>6. \A sub : AllAdmit(constraints, sub)
    BY <2>1, <2>5, Zenon
  <2> QED BY <2>1, <2>2, <2>6 DEF ConditionsInv
<1>2. ConditionsInv /\ [Next]_vars => ConditionsInv'
  <2> SUFFICES ASSUME ConditionsInv, [Next]_vars PROVE ConditionsInv'
    OBVIOUS
  <2>1. constraints \in Seq(GoodConstraints)
    BY DEF ConditionsInv
  <2>2. \A sub \in Substitutions : (\A c \in conditions : Meets(sub, c)) <=> AllAdmit(constraints, sub)
    BY DEF ConditionsInv
  <2>3. ASSUME /\ constraints' \in Seq(GoodConstraints)
               /\ \A sub \in Substitutions :
                    (\A c \in conditions' : Meets(sub, c)) <=> AllAdmit(constraints', sub)
        PROVE  ConditionsInv'
    BY <2>3, Zenon DEF ConditionsInv, AllAdmit, Admits, Full, PathOf, Meets, Substitutions,
                       QConstants, GoodConstraints, Polarities, Trees, Letters, ConstraintTree,
                       GoodTree, IsTree, EmptyTree
  <2>4. ASSUME NEW qs \in QLists, NEW polarity \in {"undecided", "any_valid", "no_invalid"},
               NEW reachable \in SUBSET Tuples(qs), AddCondition(qs, reachable, polarity)
        PROVE  ConditionsInv'
    <3> DEFINE e == [qs |-> qs, reachable |-> reachable]
               d == FixPolarity([Constraint(qs) EXCEPT
                      !.valid = InsertAll(@, PathsOf(qs, reachable)),
                      !.invalid = InsertAll(@, PathsOf(qs, Tuples(qs) \ reachable))], polarity)
    <3>1. conditions' = conditions \cup {e} /\ constraints' = Append(constraints, d)
      BY <2>4, Zenon DEF AddCondition
    <3>2. d \in GoodConstraints /\ \A sub \in Substitutions : Admits(d, sub) <=> Meets(sub, e)
      BY NewConstraint, Zenon
    <3> HIDE DEF d, e
    <3> DEFINE a == Append(constraints, d)
               n == Len(constraints)
    <3>3. /\ a \in Seq(GoodConstraints) /\ Len(a) = n + 1
          /\ \A i \in 1..n : a[i] = constraints[i]
          /\ a[n + 1] = d
      BY <2>1, <3>2, AppendProperties
    <3>4. n \in Nat /\ DOMAIN constraints = 1..n
      BY <2>1, LenProperties
    <3> HIDE DEF a, n
    <3>5. DOMAIN a = 1..(n + 1)
      BY <3>3, LenProperties
    <3>6. /\ \A i \in 1..(n + 1) : i \in 1..n \/ i = n + 1
          /\ n + 1 \in 1..(n + 1) /\ \A i \in 1..n : i \in 1..(n + 1)
      BY <3>4
    <3>7. ASSUME NEW sub \in Substitutions
          PROVE  (\A c \in conditions \cup {e} : Meets(sub, c)) <=> AllAdmit(a, sub)
      <4>1. AllAdmit(a, sub) <=> AllAdmit(constraints, sub) /\ Admits(d, sub)
        BY <3>3, <3>4, <3>5, <3>6, Zenon DEF AllAdmit
      <4>2. (\A c \in conditions \cup {e} : Meets(sub, c)) <=>
              (\A c \in conditions : Meets(sub, c)) /\ Meets(sub, e)
        OBVIOUS
      <4> QED BY <2>2, <3>2, <4>1, <4>2, Zenon
    <3>8. constraints' = a
      BY <3>1 DEF a
    <3> QED BY <2>3, <3>1, <3>3, <3>7, <3>8, Zenon
  <2>5. ASSUME MergeConditions PROVE ConditionsInv'
    <3>1. conditions' = conditions /\ constraints' = MergeAll(constraints)
      BY <2>5, Zenon DEF MergeConditions
    <3>2. /\ MergeAll(constraints) \in Seq(GoodConstraints)
          /\ \A sub : AllAdmit(MergeAll(constraints), sub) <=> AllAdmit(constraints, sub)
      BY <2>1, MergeAllIsConjunction
    <3> QED BY <2>2, <2>3, <3>1, <3>2, Zenon
  <2>6. ASSUME UNCHANGED <<conditions, constraints>> PROVE ConditionsInv'
    <3>1. conditions' = conditions /\ constraints' = constraints
      BY <2>6
    <3> QED BY <2>1, <2>2, <2>3, <3>1, Zenon
  <2>7. CASE \E path \in Paths : AddPath(path)
    BY <2>6, <2>7 DEF AddPath
  <2>8. CASE \E vs \in SUBSET (1..MaxVariable) : vs # {} /\ AddUnifier(SetToSortSeq(vs, <))
    BY <2>6, <2>8 DEF AddUnifier
  <2>9. CASE AddElement
    BY <2>6, <2>9 DEF AddElement
  <2>10. CASE UNCHANGED vars
    BY <2>6, <2>10 DEF vars
  <2> QED BY <2>4, <2>5, <2>7, <2>8, <2>9, <2>10 DEF Next
<1> QED BY <1>1, <1>2, PTL DEF Spec

\* Whatever the conditions of an operation, the polarities chosen and the
\* merges in between: the clauses written from its constraints admit exactly
\* the substitutions that make every condition reachable
\* (SubstitutionConstraint, addPreconditionsAndConstraints).
THEOREM ConstraintsAreExact == Spec => []ConstraintsExact
<1>1. ConditionsInv => ConstraintsExact
  <2> SUFFICES ASSUME ConditionsInv, NEW sub \in [QConstants -> Values]
               PROVE  sub \in Allowed <=>
                        \A i \in DOMAIN constraints :
                          Satisfies({<<q, sub[q]>> : q \in QConstants}, ConstraintEncoding(constraints[i]))
    BY DEF ConstraintsExact
  <2>1. sub \in Substitutions /\ Chosen(sub) = {<<q, sub[q]>> : q \in QConstants}
    BY DEF Substitutions, Chosen
  <2>2. sub \in Allowed <=> \A c \in conditions : Meets(sub, c)
    BY DEF Allowed
  <2>3. sub \in Allowed <=> AllAdmit(constraints, sub)
    BY <2>1, <2>2 DEF ConditionsInv
  <2>4. ASSUME NEW i \in DOMAIN constraints
        PROVE  Satisfies(Chosen(sub), ConstraintEncoding(constraints[i])) <=> Admits(constraints[i], sub)
    <3>1. constraints[i] \in GoodConstraints
      BY LenProperties DEF ConditionsInv
    <3> QED BY <2>1, <3>1, ConstraintSays
  <2> QED BY <2>1, <2>3, <2>4, Zenon DEF AllAdmit
<1> QED BY <1>1, ConditionsInvariant, PTL

\* Trees stay closed under prefixes and mark only nodes of their own, through
\* insertion, intersection and union; a constraint keeps one of its two trees.
THEOREM TypesCorrect == Spec => []TypeOK
<1>1. Spec => [](elements \in 0..MaxElements)
  <2>1. Init => elements \in 0..MaxElements
    BY BoundsAssumption DEF Init
  <2>2. elements \in 0..MaxElements /\ [Next]_vars => (elements \in 0..MaxElements)'
    <3> SUFFICES ASSUME elements \in 0..MaxElements, [Next]_vars PROVE elements' \in 0..MaxElements
      OBVIOUS
    <3>1. CASE AddElement
      BY <3>1, BoundsAssumption DEF AddElement
    <3>2. ASSUME elements' = elements PROVE elements' \in 0..MaxElements
      BY <3>2
    <3> QED BY <3>1, <3>2
         DEF Next, vars, AddCondition, MergeConditions, AddPath, AddUnifier
  <2> QED BY <2>1, <2>2, PTL DEF Spec
<1>2. PathsInv /\ ConditionsInv /\ elements \in 0..MaxElements => TypeOK
  <2> SUFFICES ASSUME PathsInv, ConditionsInv, elements \in 0..MaxElements PROVE TypeOK
    OBVIOUS
  <2>1. IsTree(tree)
    BY DEF PathsInv, GoodTree
  <2>2. ASSUME NEW i \in DOMAIN constraints
        PROVE  LET c == constraints[i]
               IN /\ c.qs \in QLists /\ IsTree(c.valid) /\ IsTree(c.invalid)
                  /\ \/ c.polarity = "any_valid" /\ c.invalid = EmptyTree
                     \/ c.polarity = "no_invalid" /\ c.valid = EmptyTree
    <3>1. constraints[i] \in GoodConstraints
      BY LenProperties DEF ConditionsInv
    <3> QED BY <3>1 DEF GoodConstraints, Polarities, ConstraintTree, GoodTree
  <2> QED BY <2>1, <2>2 DEF TypeOK
<1> QED BY <1>1, <1>2, PathsInvariant, ConditionsInvariant, PTL

-----------------------------------------------------------------------------
(* Sub-paths.                                                              *)

\* a from position i on lies, in order, in b from position k on.
Embeds(a, i, b, k) ==
  \E f \in [i..Len(a) -> k..Len(b)] :
    /\ \A j \in i..Len(a) : a[j] = b[f[j]]
    /\ \A j, m \in i..Len(a) : j < m => f[j] < f[m]

\* An empty rest of a lies anywhere.
LEMMA EmbedsNothing ==
  ASSUME NEW a, Len(a) \in Nat, NEW b, NEW i \in Nat, NEW k, i > Len(a)
  PROVE  Embeds(a, i, b, k)
<1> DEFINE f == [j \in i..Len(a) |-> 0]
<1>1. i..Len(a) = {}
  OBVIOUS
<1>2. f \in [i..Len(a) -> k..Len(b)]
  BY <1>1
<1>3. \A j \in i..Len(a) : a[j] = b[f[j]]
  BY <1>1
<1>4. \A j, m \in i..Len(a) : j < m => f[j] < f[m]
  BY <1>1
<1> HIDE DEF f
<1> QED BY <1>2, <1>3, <1>4 DEF Embeds

\* If the next elements agree and the rest lies behind, all of it does.
LEMMA EmbedsNext ==
  ASSUME NEW a, Len(a) \in Nat, NEW b, Len(b) \in Nat, NEW i \in Nat, NEW k \in Nat,
         i <= Len(a), k <= Len(b), a[i] = b[k], Embeds(a, i + 1, b, k + 1)
  PROVE  Embeds(a, i, b, k)
<1>1. PICK g \in [(i + 1)..Len(a) -> (k + 1)..Len(b)] :
           /\ \A j \in (i + 1)..Len(a) : a[j] = b[g[j]]
           /\ \A j, m \in (i + 1)..Len(a) : j < m => g[j] < g[m]
  BY DEF Embeds
<1> DEFINE f == [j \in i..Len(a) |-> IF j = i THEN k ELSE g[j]]
<1>2. i \in i..Len(a) /\ \A j \in i..Len(a) : j # i => j \in (i + 1)..Len(a)
  OBVIOUS
<1>3. f[i] = k /\ \A j \in i..Len(a) : j # i => f[j] = g[j] /\ g[j] \in (k + 1)..Len(b)
  BY <1>2
<1>4. f \in [i..Len(a) -> k..Len(b)]
  BY <1>3
<1>5. \A j \in i..Len(a) : a[j] = b[f[j]]
  BY <1>1, <1>2, <1>3
<1>6. ASSUME NEW j \in i..Len(a), NEW m \in i..Len(a), j < m PROVE f[j] < f[m]
  <2>1. m # i /\ m \in (i + 1)..Len(a) /\ f[m] = g[m] /\ g[m] \in (k + 1)..Len(b)
    BY <1>2, <1>3, <1>6
  <2>2. CASE j = i
    BY <2>1, <2>2, <1>3
  <2>3. CASE j # i
    BY <2>1, <2>3, <1>1, <1>2, <1>3, <1>6
  <2> QED BY <2>2, <2>3
<1> HIDE DEF f
<1> QED BY <1>4, <1>5, <1>6 DEF Embeds

\* What lies in a later part of b lies in the part that starts earlier.
LEMMA EmbedsLater ==
  ASSUME NEW a, NEW b, Len(b) \in Nat, NEW i, NEW k \in Nat, NEW m \in Nat, k <= m,
         Embeds(a, i, b, m)
  PROVE  Embeds(a, i, b, k)
<1>1. m..Len(b) \subseteq k..Len(b)
  OBVIOUS
<1>2. PICK f \in [i..Len(a) -> m..Len(b)] :
           /\ \A j \in i..Len(a) : a[j] = b[f[j]]
           /\ \A j, n \in i..Len(a) : j < n => f[j] < f[n]
  BY DEF Embeds
<1>3. f \in [i..Len(a) -> k..Len(b)]
  BY <1>1
<1> QED BY <1>2, <1>3 DEF Embeds

\* These are the only ways: the next elements agree, or b's is skipped.
LEMMA EmbedsCases ==
  ASSUME NEW a, Len(a) \in Nat, NEW b, Len(b) \in Nat, NEW i \in Nat, NEW k \in Nat,
         i <= Len(a), Embeds(a, i, b, k)
  PROVE  /\ k <= Len(b)
         /\ \/ a[i] = b[k] /\ Embeds(a, i + 1, b, k + 1)
            \/ Embeds(a, i, b, k + 1)
<1>1. PICK f \in [i..Len(a) -> k..Len(b)] :
           /\ \A j \in i..Len(a) : a[j] = b[f[j]]
           /\ \A j, m \in i..Len(a) : j < m => f[j] < f[m]
  BY DEF Embeds
<1>2. i \in i..Len(a) /\ \A j \in i..Len(a) : f[j] \in k..Len(b) /\ f[j] \in Int
  OBVIOUS
<1>3. k <= Len(b)
  BY <1>2
<1>4. CASE f[i] = k
  <2> DEFINE g == [j \in (i + 1)..Len(a) |-> f[j]]
  <2>1. \A j \in (i + 1)..Len(a) : j \in i..Len(a) /\ i < j /\ g[j] = f[j]
    OBVIOUS
  <2>2. \A j \in (i + 1)..Len(a) : f[j] \in (k + 1)..Len(b)
    BY <1>1, <1>2, <1>4, <2>1
  <2>3. g \in [(i + 1)..Len(a) -> (k + 1)..Len(b)]
    BY <2>2
  <2>4. \A j \in (i + 1)..Len(a) : a[j] = b[g[j]]
    BY <1>1, <2>1
  <2>5. \A j, m \in (i + 1)..Len(a) : j < m => g[j] < g[m]
    BY <1>1, <2>1
  <2> HIDE DEF g
  <2>6. Embeds(a, i + 1, b, k + 1)
    BY <2>3, <2>4, <2>5 DEF Embeds
  <2>7. a[i] = b[k]
    BY <1>1, <1>2, <1>4
  <2> QED BY <1>3, <2>6, <2>7
<1>5. CASE f[i] # k
  <2>1. \A j \in i..Len(a) : f[j] \in (k + 1)..Len(b)
    <3> SUFFICES ASSUME NEW j \in i..Len(a) PROVE f[j] \in (k + 1)..Len(b)
      OBVIOUS
    <3>1. f[i] > k
      BY <1>2, <1>5
    <3>2. j = i \/ i < j
      OBVIOUS
    <3>3. f[i] <= f[j]
      BY <1>1, <1>2, <3>2
    <3> QED BY <1>2, <3>1, <3>3
  <2>2. f \in [i..Len(a) -> (k + 1)..Len(b)]
    BY <2>1
  <2>3. Embeds(a, i, b, k + 1)
    BY <1>1, <2>2 DEF Embeds
  <2> QED BY <1>3, <2>3
<1> QED BY <1>4, <1>5

\* Embeds generalises IsSubPath to rests of paths.
LEMMA EmbedsIsSubPath ==
  ASSUME NEW S, NEW a \in Seq(S), NEW b \in Seq(S)
  PROVE  IsSubPath(a, b) <=> Embeds(a, 1, b, 1)
<1>1. DOMAIN a = 1..Len(a) /\ DOMAIN b = 1..Len(b)
  OBVIOUS
<1> QED BY <1>1, Zenon DEF IsSubPath, Embeds

\* A path on which a node lies is the node or continues with one of its children.
LEMMA PathContinues ==
  ASSUME NEW S, NEW t, GoodTree(t, S), NEW node \in t.nodes, NEW p \in t.leaves,
         Len(node) <= Len(p), SubSeq(p, 1, Len(node)) = node, Len(node) # Len(p)
  PROVE  /\ Len(node) + 1 <= Len(p) /\ p[Len(node) + 1] \in S
         /\ Append(node, p[Len(node) + 1]) \in t.nodes
         /\ p[Len(node) + 1] \in Children(t, node)
         /\ Len(Append(node, p[Len(node) + 1])) = Len(node) + 1
         /\ SubSeq(p, 1, Len(node) + 1) = Append(node, p[Len(node) + 1])
<1> DEFINE k == Len(node)
<1>1. node \in Seq(S) /\ p \in Seq(S) /\ p \in t.nodes /\ k \in Nat /\ Len(p) \in Nat
  BY DEF GoodTree, IsTree
<1>2. k \in 0..(Len(p) - 1) /\ k + 1 \in 1..Len(p) /\ k + 1 \in 0..Len(p) /\ k + 1 <= Len(p)
  BY <1>1
<1>3. SubSeq(p, 1, k) = node
  OBVIOUS
<1> HIDE DEF k
<1>4. SubSeq(p, 1, k + 1) = Append(node, p[k + 1])
  BY <1>1, <1>2, <1>3, NextPrefix
<1>5. SubSeq(p, 1, k + 1) \in t.nodes /\ Len(SubSeq(p, 1, k + 1)) = k + 1
  BY <1>1, <1>2, PrefixesAreNodes, Prefix
<1>6. p[k + 1] \in S
  BY <1>1, <1>2
<1>7. p[k + 1] \in Children(t, node)
  BY <1>1, <1>4, <1>5, <1>6, ChildrenAreAppended
<1> QED BY <1>2, <1>4, <1>5, <1>6, <1>7 DEF k

\* A path on which an appended node lies has the node on it, and the element next.
LEMMA AppendedLiesOn ==
  ASSUME NEW S, NEW node \in Seq(S), NEW l \in S, NEW p \in Seq(S),
         Len(Append(node, l)) <= Len(p), SubSeq(p, 1, Len(Append(node, l))) = Append(node, l)
  PROVE  /\ Len(node) + 1 <= Len(p) /\ SubSeq(p, 1, Len(node)) = node
         /\ Len(Append(node, l)) = Len(node) + 1 /\ p[Len(node) + 1] = l
<1> DEFINE k == Len(node)
           q == SubSeq(p, 1, k + 1)
<1>1. k \in Nat /\ Len(p) \in Nat /\ Len(Append(node, l)) = k + 1
      /\ Append(node, l)[k + 1] = l /\ Front(Append(node, l)) = node
  BY FrontOfAppend
<1>2. k + 1 \in 1..Len(p) /\ k + 1 \in 0..Len(p) /\ k + 1 - 1 = k /\ k + 1 \in 1..(k + 1)
      /\ k + 1 <= Len(p)
  BY <1>1
<1>3. q = Append(node, l)
  BY <1>1
<1> HIDE DEF k
<1>4. Front(q) = SubSeq(p, 1, k)
  BY <1>1, <1>2, FrontOfPrefix DEF q
<1>5. q[k + 1] = p[k + 1]
  BY <1>2, Prefix
<1> HIDE DEF q
<1> QED BY <1>1, <1>2, <1>3, <1>4, <1>5 DEF k

-----------------------------------------------------------------------------
(* LiteralTree::subsumes.                                                  *)

\* Below node there is a path on which lits lies, from position i on.
Below(t, node, lits, i) ==
  \E p \in t.leaves :
    Len(node) <= Len(p) /\ SubSeq(p, 1, Len(node)) = node /\ Embeds(lits, i, p, Len(node) + 1)

\* This is what the recursion of subsumes says.
LEMMA BelowRecursion ==
  ASSUME NEW S, NEW t, GoodTree(t, S), NEW lits \in Seq(S), NEW node \in t.nodes,
         NEW i \in 1..(Len(lits) + 1)
  PROVE  Below(t, node, lits, i) <=>
           \/ i > Len(lits) /\ node \in t.leaves
           \/ i <= Len(lits) /\ Append(node, lits[i]) \in t.nodes /\ Below(t, Append(node, lits[i]), lits, i + 1)
           \/ \E l \in Children(t, node) : Below(t, Append(node, l), lits, i)
<1> DEFINE k == Len(node)
<1>1. node \in Seq(S) /\ k \in Nat /\ Len(lits) \in Nat /\ i \in Nat /\ i + 1 \in Nat /\ k + 1 \in Nat
      /\ k + 1 + 1 \in Nat /\ k + 1 <= k + 1 + 1
  BY DEF GoodTree
<1>2. \A p \in t.leaves : p \in Seq(S) /\ Len(p) \in Nat
  BY DEF GoodTree, IsTree
<1>3. ASSUME NEW p \in t.leaves, k <= Len(p), SubSeq(p, 1, k) = node, Embeds(lits, i, p, k + 1)
      PROVE  \/ i > Len(lits) /\ node \in t.leaves
             \/ i <= Len(lits) /\ Append(node, lits[i]) \in t.nodes /\ Below(t, Append(node, lits[i]), lits, i + 1)
             \/ \E l \in Children(t, node) : Below(t, Append(node, l), lits, i)
  <2>1. p \in Seq(S) /\ Len(p) \in Nat
    BY <1>2
  <2>2. CASE k = Len(p)
    <3>1. p = node
      BY <1>3, <2>1, <2>2, FullPrefix
    <3>2. i > Len(lits)
      <4> SUFFICES ASSUME i <= Len(lits) PROVE FALSE
        BY <1>1
      <4>1. k + 1 <= Len(p)
        BY <1>1, <1>3, <2>1, EmbedsCases
      <4> QED BY <1>1, <2>2, <4>1
    <3> QED BY <3>1, <3>2
  <2>3. CASE k # Len(p)
    <3> DEFINE l == p[k + 1]
               n == Append(node, l)
    <3>1. k + 1 <= Len(p) /\ l \in Children(t, node) /\ n \in t.nodes /\ Len(n) = k + 1
          /\ SubSeq(p, 1, k + 1) = n
      BY <1>3, <2>3, PathContinues
    <3> HIDE DEF k, n, l
    <3>2. CASE i <= Len(lits) /\ lits[i] = p[k + 1] /\ Embeds(lits, i + 1, p, k + 1 + 1)
      <4>1. Below(t, n, lits, i + 1)
        BY <3>1, <3>2 DEF Below
      <4>2. n = Append(node, lits[i])
        BY <3>2 DEF n, l
      <4> QED BY <3>1, <3>2, <4>1, <4>2
    <3>3. CASE Embeds(lits, i, p, k + 1 + 1)
      <4>1. Below(t, n, lits, i)
        BY <3>1, <3>3 DEF Below
      <4> QED BY <3>1, <4>1 DEF n
    <3>4. CASE i > Len(lits)
      <4>1. Embeds(lits, i, p, k + 1 + 1)
        BY <1>1, <3>4, EmbedsNothing
      <4> QED BY <4>1, <3>3
    <3>5. i <= Len(lits) => \/ lits[i] = p[k + 1] /\ Embeds(lits, i + 1, p, k + 1 + 1)
                            \/ Embeds(lits, i, p, k + 1 + 1)
      BY <1>1, <1>3, <2>1, EmbedsCases
    <3> QED BY <1>1, <3>2, <3>3, <3>4, <3>5
  <2> QED BY <2>2, <2>3
<1>4. ASSUME i > Len(lits), node \in t.leaves PROVE Below(t, node, lits, i)
  <2>1. SubSeq(node, 1, k) = node
    BY <1>1, FullPrefix
  <2>2. Embeds(lits, i, node, k + 1)
    BY <1>1, <1>4, EmbedsNothing
  <2> QED BY <1>1, <1>4, <2>1, <2>2 DEF Below
<1>5. ASSUME i <= Len(lits), Append(node, lits[i]) \in t.nodes, Below(t, Append(node, lits[i]), lits, i + 1)
      PROVE  Below(t, node, lits, i)
  <2> DEFINE l == lits[i]
             n == Append(node, l)
  <2>0. l \in S
    BY <1>1, <1>5
  <2> HIDE DEF l, n
  <2>1. PICK p \in t.leaves : Len(n) <= Len(p) /\ SubSeq(p, 1, Len(n)) = n /\ Embeds(lits, i + 1, p, Len(n) + 1)
    BY <1>5 DEF Below, n, l
  <2>2. k + 1 <= Len(p) /\ SubSeq(p, 1, k) = node /\ Len(n) = k + 1 /\ p[k + 1] = l
    BY <1>1, <1>2, <2>0, <2>1, AppendedLiesOn DEF n
  <2>3. lits[i] = p[k + 1] /\ Embeds(lits, i + 1, p, k + 1 + 1)
    BY <2>1, <2>2 DEF l
  <2> HIDE DEF k
  <2>4. Embeds(lits, i, p, k + 1)
    BY <1>1, <1>2, <1>5, <2>2, <2>3, EmbedsNext
  <2>5. k <= Len(p)
    BY <1>1, <1>2, <2>2
  <2> QED BY <2>2, <2>4, <2>5 DEF Below, k
<1>6. ASSUME NEW l \in Children(t, node), Below(t, Append(node, l), lits, i)
      PROVE  Below(t, node, lits, i)
  <2> DEFINE n == Append(node, l)
  <2>0. l \in S
    BY <1>1, <1>6, ChildrenAreAppended
  <2> HIDE DEF n
  <2>1. PICK p \in t.leaves : Len(n) <= Len(p) /\ SubSeq(p, 1, Len(n)) = n /\ Embeds(lits, i, p, Len(n) + 1)
    BY <1>6 DEF Below, n
  <2>2. k + 1 <= Len(p) /\ SubSeq(p, 1, k) = node /\ Len(n) = k + 1
    BY <1>1, <1>2, <2>0, <2>1, AppendedLiesOn DEF n
  <2>3. Embeds(lits, i, p, k + 1 + 1)
    BY <2>1, <2>2
  <2> HIDE DEF k
  <2>4. Embeds(lits, i, p, k + 1)
    BY <1>1, <1>2, <2>3, EmbedsLater
  <2>5. k <= Len(p)
    BY <1>1, <1>2, <2>2
  <2> QED BY <2>2, <2>4, <2>5 DEF Below, k
<1>7. Below(t, node, lits, i) =>
        \E p \in t.leaves : k <= Len(p) /\ SubSeq(p, 1, k) = node /\ Embeds(lits, i, p, k + 1)
  BY DEF Below
<1> QED BY <1>3, <1>4, <1>5, <1>6, <1>7, Zenon

\* subsumes finds a path on which lits lies whenever there is one, and only
\* then: Below satisfies its recursion, and the recursion, which goes down the
\* tree, has one solution.
LEMMA SubsumesIsBelow ==
  ASSUME NEW S, NEW t, GoodTree(t, S), NEW lits \in Seq(S)
  PROVE  Subsumes(t, lits) <=> \E p \in t.leaves : Embeds(lits, 1, p, 1)
<1> DEFINE I == 1..(Len(lits) + 1)
           Places == t.nodes \X I
           Here(i, node) == i > Len(lits) /\ node \in t.leaves
           Found(g, node, i) ==
             \/ Here(i, node)
             \/ i <= Len(lits) /\ Append(node, lits[i]) \in t.nodes /\ g[<<Append(node, lits[i]), i + 1>>]
             \/ \E l \in Children(t, node) : g[<<Append(node, l), i>>]
           Body(g) == [at \in Places |-> Found(g, at[1], at[2])]
           sub == CHOOSE g : g = Body(g)
           h == [at \in Places |-> Below(t, at[1], lits, at[2])]
<1>1. /\ Len(lits) \in Nat /\ <<>> \in t.nodes /\ 1 \in I
      /\ \A n \in t.nodes : n \in Seq(S) /\ Len(n) \in Nat
      /\ \A n \in t.nodes : \A l \in Children(t, n) : l \in S /\ Append(n, l) \in t.nodes
      /\ \A i \in I : i <= Len(lits) => i + 1 \in I
  <2>1. Len(lits) \in Nat /\ <<>> \in t.nodes /\ \A n \in t.nodes : n \in Seq(S) /\ Len(n) \in Nat
    BY DEF GoodTree, IsTree
  <2>2. \A n \in t.nodes : \A l \in Children(t, n) : l \in S /\ Append(n, l) \in t.nodes
    BY <2>1, ChildrenAreAppended
  <2> QED BY <2>1, <2>2
<1>2. Subsumes(t, lits) = sub[<<<<>>, 1>>]
  BY DEF Subsumes
<1>3. \A node \in t.nodes : \A i \in I : h[<<node, i>>] <=> Below(t, node, lits, i)
  OBVIOUS
<1>4. \A node \in t.nodes : \A i \in I : Below(t, node, lits, i) <=> Found(h, node, i)
  <2> SUFFICES ASSUME NEW node \in t.nodes, NEW i \in I
               PROVE  Below(t, node, lits, i) <=> Found(h, node, i)
    OBVIOUS
  <2> HIDE DEF h
  <2>1. Below(t, node, lits, i) <=>
           \/ i > Len(lits) /\ node \in t.leaves
           \/ i <= Len(lits) /\ Append(node, lits[i]) \in t.nodes /\ Below(t, Append(node, lits[i]), lits, i + 1)
           \/ \E l \in Children(t, node) : Below(t, Append(node, l), lits, i)
    BY BelowRecursion
  <2> QED BY <1>1, <1>3, <2>1, Zenon
<1> HIDE DEF I
<1>5. \E g : g = Body(g)
  <2> HIDE DEF Found
  <2>1. ASSUME NEW at \in Places PROVE Below(t, at[1], lits, at[2]) = Found(h, at[1], at[2])
    <3>1. at[1] \in t.nodes /\ at[2] \in I
      OBVIOUS
    <3>2. Below(t, at[1], lits, at[2]) \in BOOLEAN /\ Found(h, at[1], at[2]) \in BOOLEAN
      BY DEF Below, Found
    <3>3. Below(t, at[1], lits, at[2]) <=> Found(h, at[1], at[2])
      BY <1>4, <3>1, Zenon
    <3> QED BY <3>2, <3>3
  <2>2. [at \in Places |-> Below(t, at[1], lits, at[2])] = [at \in Places |-> Found(h, at[1], at[2])]
    BY <2>1, Zenon
  <2>3. h = Body(h)
    BY <2>2, Zenon
  <2> QED BY <2>3, Zenon
<1>6. sub = Body(sub)
  <2> HIDE DEF Body
  <2> QED BY <1>5, Zenon
<1> HIDE DEF sub, h
<1>7. \A node \in t.nodes : \A i \in I : sub[<<node, i>>] <=> Found(sub, node, i)
  <2> SUFFICES ASSUME NEW node \in t.nodes, NEW i \in I PROVE sub[<<node, i>>] <=> Found(sub, node, i)
    OBVIOUS
  <2> HIDE DEF Found
  <2>1. <<node, i>> \in Places /\ <<node, i>>[1] = node /\ <<node, i>>[2] = i
    OBVIOUS
  <2>2. Body(sub)[<<node, i>>] = Found(sub, <<node, i>>[1], <<node, i>>[2])
    BY <2>1, Zenon
  <2> QED BY <1>6, <2>1, <2>2, Zenon
<1> DEFINE Agree(node, i) == sub[<<node, i>>] <=> Below(t, node, lits, i)
<1>8. \A node \in t.nodes : \A i \in I : Agree(node, i)
  <2>1. PICK b \in Nat : \A n \in t.nodes : Len(n) <= b
    BY BoundedLengths
  <2> DEFINE T == {b - Len(n) : n \in {m \in t.nodes : \E i \in I : ~ Agree(m, i)}}
  <2> SUFFICES ASSUME T # {} PROVE FALSE
    OBVIOUS
  <2> HIDE DEF Agree
  <2>2. T \subseteq Nat
    BY <1>1, <2>1
  <2>3. PICK d \in T : \A e \in T : d <= e
    <3> HIDE DEF T
    <3> QED BY <2>2, LeastNumber
  <2>4. PICK node \in t.nodes, i \in I : d = b - Len(node) /\ ~ Agree(node, i)
    OBVIOUS
  <2>5. ASSUME NEW n \in t.nodes, Len(n) = Len(node) + 1, NEW j \in I PROVE Agree(n, j)
    <3>1. b - Len(n) \notin T
      <4>1. ~ (d <= b - Len(n))
        BY <1>1, <2>4, <2>5
      <4> HIDE DEF T
      <4> QED BY <2>3, <4>1
    <3> QED BY <3>1
  <2>6. \A l \in S : Len(Append(node, l)) = Len(node) + 1
    BY <1>1, FrontOfAppend
  <2>7. \A l \in S : \A j \in I : Append(node, l) \in t.nodes =>
           (sub[<<Append(node, l), j>>] <=> Below(t, Append(node, l), lits, j))
    BY <2>5, <2>6, Zenon DEF Agree
  <2>8. i <= Len(lits) => lits[i] \in S
    BY <1>1 DEF I
  <2>9. Below(t, node, lits, i) <=>
           \/ Here(i, node)
           \/ i <= Len(lits) /\ Append(node, lits[i]) \in t.nodes /\ Below(t, Append(node, lits[i]), lits, i + 1)
           \/ \E l \in Children(t, node) : Below(t, Append(node, l), lits, i)
    BY BelowRecursion DEF I
  <2> HIDE DEF Here
  <2>10. sub[<<node, i>>] <=> Found(sub, node, i)
    BY <1>7
  <2>11. Found(sub, node, i) <=> Below(t, node, lits, i)
    <3>1. \A l \in Children(t, node) : sub[<<Append(node, l), i>>] <=> Below(t, Append(node, l), lits, i)
      BY <1>1, <2>7, Zenon
    <3>2. i <= Len(lits) /\ Append(node, lits[i]) \in t.nodes =>
             (sub[<<Append(node, lits[i]), i + 1>>] <=> Below(t, Append(node, lits[i]), lits, i + 1))
      BY <1>1, <2>7, <2>8, Zenon
    <3> QED BY <2>9, <3>1, <3>2, Zenon
  <2> QED BY <2>4, <2>10, <2>11, Zenon DEF Agree
<1>9. Below(t, <<>>, lits, 1) <=> \E p \in t.leaves : Embeds(lits, 1, p, 1)
  <2>1. Len(<<>>) = 0
    BY EmptySeq
  <2>2. \A p \in t.leaves : p \in Seq(S) /\ 0 <= Len(p) /\ SubSeq(p, 1, 0) = <<>> /\ 0 + 1 = 1
    BY FullPrefix DEF GoodTree, IsTree
  <2> QED BY <2>1, <2>2, Zenon DEF Below
<1> QED BY <1>1, <1>2, <1>8, <1>9, Zenon

-----------------------------------------------------------------------------
(* LiteralTree::hasPathSubsumedBy.                                         *)

\* Below node there is a path the rest of which lies on lits, from position i on.
BelowFits(t, node, lits, i) ==
  \E p \in t.leaves :
    Len(node) <= Len(p) /\ SubSeq(p, 1, Len(node)) = node /\ Embeds(p, Len(node) + 1, lits, i)

\* A path hasPathSubsumedBy finds lies on lits.  (The recursion goes on in lits:
\* a function on the places from i + 1 on extends to those from i on.)
LEMMA HasPathIsBelow ==
  ASSUME NEW S, NEW t, GoodTree(t, S), NEW lits \in Seq(S), HasPathSubsumedBy(t, lits)
  PROVE  \E p \in t.leaves : Embeds(p, 1, lits, 1)
<1> DEFINE n == Len(lits)
           Places(i) == t.nodes \X (i..(n + 1))
           Found(g, node, i) ==
             IF i > n THEN node \in t.leaves
             ELSE \/ Append(node, lits[i]) \in t.nodes /\ g[<<Append(node, lits[i]), i + 1>>]
                  \/ \E k \in (i + 1)..n : g[<<node, k>>]
           Body(g, i) == [at \in Places(i) |-> Found(g, at[1], at[2])]
           has == CHOOSE g : g = Body(g, 1)
<1>1. /\ n \in Nat /\ <<>> \in t.nodes
      /\ \A m \in t.nodes : m \in Seq(S) /\ Len(m) \in Nat
      /\ \A i \in 1..n : lits[i] \in S
  BY DEF GoodTree, IsTree
<1>2. HasPathSubsumedBy(t, lits) = has[<<<<>>, 1>>]
  BY DEF HasPathSubsumedBy
<1> HIDE DEF n
<1>3. \A g, node, i : Found(g, node, i) \in BOOLEAN
  <2> SUFFICES ASSUME NEW g, NEW node, NEW i PROVE Found(g, node, i) \in BOOLEAN
    OBVIOUS
  <2>1. CASE i > n
    BY <2>1
  <2>2. CASE ~ (i > n)
    BY <2>2
  <2> QED BY <2>1, <2>2
<1>4. \E g : g = Body(g, 1)
  <2> DEFINE B == {d \in 0..n : ~ \E g : g = Body(g, n + 1 - d)}
  <2>1. ASSUME B # {} PROVE FALSE
    <3>1. B \subseteq Nat
      <4>1. 0..n \subseteq Nat
        BY <1>1
      <4> HIDE DEF Body
      <4> QED BY <4>1, Zenon
    <3> HIDE DEF B
    <3>2. PICK d \in B : \A e \in B : d <= e
      BY <2>1, <3>1, LeastNumber
    <3>3. d \in 0..n /\ ~ \E g : g = Body(g, n + 1 - d)
      BY <3>2 DEF B
    <3>4. CASE d = 0
      <4> DEFINE g == [at \in Places(n + 1) |-> at[1] \in t.leaves]
      <4>1. ASSUME NEW at \in Places(n + 1) PROVE Found(g, at[1], at[2]) = (at[1] \in t.leaves)
        <5>1. at[2] \in (n + 1)..(n + 1)
          OBVIOUS
        <5>2. at[2] > n
          BY <1>1, <5>1
        <5> HIDE DEF g
        <5> QED BY <5>2
      <4>2. g = Body(g, n + 1)
        <5>1. Body(g, n + 1) = [at \in Places(n + 1) |-> at[1] \in t.leaves]
          <6> HIDE DEF Found, g
          <6> QED BY <4>1
        <5> QED BY <5>1
      <4>3. n + 1 - d = n + 1
        BY <1>1, <3>4
      <4> HIDE DEF Body, g
      <4> QED BY <3>3, <4>2, <4>3
    <3>5. CASE d # 0
      <4> DEFINE i == n + 1 - d
      <4>1. i \in 1..n /\ i + 1 = n + 1 - (d - 1) /\ d - 1 \in 0..n /\ ~ (d <= d - 1)
        BY <1>1, <3>3, <3>5
      <4>2. d - 1 \notin B
        BY <3>2, <4>1
      <4> HIDE DEF i
      <4>3. PICK g : g = Body(g, i + 1)
        <5> HIDE DEF Body
        <5>1. \E g : g = Body(g, n + 1 - (d - 1))
          BY <4>1, <4>2, Zenon DEF B
        <5> QED BY <4>1, <5>1, Zenon
      <4> DEFINE h == [at \in Places(i) |-> IF at[2] = i THEN Found(g, at[1], i) ELSE g[at]]
      <4>4. /\ \A j \in i..(n + 1) : j # i => j \in (i + 1)..(n + 1)
            /\ \A j \in (i + 1)..(n + 1) : j # i /\ j \in i..(n + 1)
        BY <1>1, <4>1
      <4>5. \A node \in t.nodes : \A j \in (i + 1)..(n + 1) : h[<<node, j>>] = g[<<node, j>>]
        BY <4>4
      <4> HIDE DEF h
      <4>6. ASSUME NEW node \in t.nodes, NEW j \in i..(n + 1) PROVE Found(h, node, j) = Found(g, node, j)
        <5>1. /\ j + 1 \in (i + 1)..(n + 1) \/ j > n
              /\ \A k \in (j + 1)..n : k \in (i + 1)..(n + 1)
          BY <1>1, <4>1
        <5>2. \A k \in (j + 1)..n : h[<<node, k>>] = g[<<node, k>>]
          BY <4>5, <5>1
        <5>3. j > n \/ (Append(node, lits[j]) \in t.nodes =>
                h[<<Append(node, lits[j]), j + 1>>] = g[<<Append(node, lits[j]), j + 1>>])
          BY <4>5, <5>1
        <5>4. Found(h, node, j) <=> Found(g, node, j)
          BY <5>2, <5>3, Zenon
        <5> HIDE DEF Found
        <5> QED BY <1>3, <5>4
      <4>7. ASSUME NEW at \in Places(i) PROVE h[at] = Found(h, at[1], at[2])
        <5>1. at[1] \in t.nodes /\ at[2] \in i..(n + 1) /\ at = <<at[1], at[2]>>
          OBVIOUS
        <5>2. Found(h, at[1], at[2]) = Found(g, at[1], at[2])
          BY <4>6, <5>1, Zenon
        <5> HIDE DEF Found
        <5>3. CASE at[2] = i
          <6>1. h[at] = Found(g, at[1], i)
            BY <5>3 DEF h
          <6> QED BY <5>2, <5>3, <6>1, Zenon
        <5>4. CASE at[2] # i
          <6>1. h[at] = g[at]
            BY <5>4 DEF h
          <6>2. at \in Places(i + 1)
            BY <4>4, <5>1, <5>4
          <6>3. Body(g, i + 1)[at] = Found(g, at[1], at[2])
            BY <6>2, Zenon
          <6> QED BY <4>3, <5>2, <6>1, <6>3, Zenon
        <5> QED BY <5>3, <5>4
      <4>8. h = [at \in Places(i) |-> h[at]]
        BY DEF h
      <4>9. h = Body(h, i)
        <5>1. [at \in Places(i) |-> h[at]] = Body(h, i)
          <6> HIDE DEF Found
          <6> QED BY <4>7, Zenon
        <5> QED BY <4>8, <5>1, Zenon
      <4> HIDE DEF Body
      <4> QED BY <3>3, <4>9 DEF i
    <3> QED BY <3>4, <3>5
  <2>2. n \notin B /\ n \in 0..n /\ n + 1 - n = 1
    <3> HIDE DEF B
    <3> QED BY <1>1, <2>1
  <2> HIDE DEF Body
  <2> QED BY <2>2
<1>5. has = Body(has, 1)
  <2> HIDE DEF Body
  <2> QED BY <1>4, Zenon
<1> HIDE DEF has
<1>6. \A node \in t.nodes : \A i \in 1..(n + 1) : has[<<node, i>>] = Found(has, node, i)
  <2> SUFFICES ASSUME NEW node \in t.nodes, NEW i \in 1..(n + 1) PROVE has[<<node, i>>] = Found(has, node, i)
    OBVIOUS
  <2> HIDE DEF Found
  <2>1. <<node, i>> \in Places(1) /\ <<node, i>>[1] = node /\ <<node, i>>[2] = i
    OBVIOUS
  <2>2. Body(has, 1)[<<node, i>>] = Found(has, <<node, i>>[1], <<node, i>>[2])
    BY <2>1, Zenon
  <2> QED BY <1>5, <2>1, <2>2, Zenon
<1> DEFINE Sound(node, i) == has[<<node, i>>] => BelowFits(t, node, lits, i)
<1>7. \A node \in t.nodes : \A i \in 1..(n + 1) : Sound(node, i)
  <2> DEFINE T == {n + 1 - i : i \in {j \in 1..(n + 1) : \E node \in t.nodes : ~ Sound(node, j)}}
  <2> SUFFICES ASSUME T # {} PROVE FALSE
    OBVIOUS
  <2> HIDE DEF Sound
  <2>1. T \subseteq Nat
    BY <1>1
  <2>2. PICK d \in T : \A e \in T : d <= e
    <3> HIDE DEF T
    <3> QED BY <2>1, LeastNumber
  <2>3. PICK i \in 1..(n + 1), node \in t.nodes : d = n + 1 - i /\ ~ Sound(node, i)
    OBVIOUS
  <2>4. ASSUME NEW j \in (i + 1)..(n + 1), NEW m \in t.nodes PROVE Sound(m, j)
    <3>1. n + 1 - j \notin T
      <4>1. ~ (d <= n + 1 - j)
        BY <1>1, <2>3, <2>4
      <4> HIDE DEF T
      <4> QED BY <2>2, <4>1
    <3>2. j \in 1..(n + 1)
      BY <1>1, <2>3, <2>4
    <3> QED BY <3>1, <3>2
  <2> HIDE DEF T
  <2>5. has[<<node, i>>] /\ ~ BelowFits(t, node, lits, i)
    BY <2>3 DEF Sound
  <2>6. Found(has, node, i)
    BY <1>6, <2>3, <2>5, Zenon
  <2> DEFINE k == Len(node)
  <2>7. /\ node \in Seq(S) /\ k \in Nat /\ k + 1 \in Nat /\ k + 1 + 1 \in Nat /\ i \in Nat /\ i + 1 \in Nat
        /\ n = Len(lits) /\ Len(lits) \in Nat
        /\ \A p \in t.leaves : p \in Seq(S) /\ Len(p) \in Nat
    BY <1>1, <2>3 DEF GoodTree, IsTree, n
  <2>8. CASE i > n
    <3>1. node \in t.leaves
      BY <2>6, <2>8, Zenon
    <3>2. SubSeq(node, 1, k) = node
      BY <2>7, FullPrefix
    <3>3. Embeds(node, k + 1, lits, i)
      BY <2>7, EmbedsNothing
    <3> QED BY <2>5, <2>7, <3>1, <3>2, <3>3 DEF BelowFits
  <2>9. CASE ~ (i > n)
    <3>1. i \in 1..n /\ i + 1 \in (i + 1)..(n + 1) /\ i <= Len(lits)
      BY <2>3, <2>7, <2>9
    <3>2. CASE Append(node, lits[i]) \in t.nodes /\ has[<<Append(node, lits[i]), i + 1>>]
      <4> DEFINE l == lits[i]
                 m == Append(node, l)
      <4>1. l \in S /\ m \in t.nodes
        BY <1>1, <3>1, <3>2
      <4>2. BelowFits(t, m, lits, i + 1)
        BY <2>4, <3>1, <3>2, Zenon DEF Sound
      <4> HIDE DEF l, m
      <4>3. PICK p \in t.leaves : Len(m) <= Len(p) /\ SubSeq(p, 1, Len(m)) = m /\ Embeds(p, Len(m) + 1, lits, i + 1)
        BY <4>2 DEF BelowFits
      <4>4. k + 1 <= Len(p) /\ SubSeq(p, 1, k) = node /\ Len(m) = k + 1 /\ p[k + 1] = l
        BY <2>7, <4>1, <4>3, AppendedLiesOn DEF m
      <4>5. p[k + 1] = lits[i] /\ Embeds(p, k + 1 + 1, lits, i + 1)
        BY <4>3, <4>4 DEF l
      <4> HIDE DEF k
      <4>6. Embeds(p, k + 1, lits, i)
        BY <2>7, <3>1, <4>4, <4>5, EmbedsNext
      <4>7. k <= Len(p)
        BY <2>7, <4>4
      <4> QED BY <2>5, <4>4, <4>6, <4>7 DEF BelowFits, k
    <3>3. CASE \E j \in (i + 1)..n : has[<<node, j>>]
      <4>1. PICK j \in (i + 1)..n : has[<<node, j>>]
        BY <3>3
      <4>2. j \in (i + 1)..(n + 1) /\ j \in Nat /\ i <= j
        BY <2>7
      <4>3. BelowFits(t, node, lits, j)
        BY <2>3, <2>4, <4>1, <4>2, Zenon DEF Sound
      <4>4. PICK p \in t.leaves : Len(node) <= Len(p) /\ SubSeq(p, 1, Len(node)) = node /\ Embeds(p, Len(node) + 1, lits, j)
        BY <4>3 DEF BelowFits
      <4>5. Embeds(p, Len(node) + 1, lits, i)
        BY <2>7, <4>2, <4>4, EmbedsLater
      <4> QED BY <2>5, <4>4, <4>5 DEF BelowFits
    <3> QED BY <2>6, <2>9, <3>2, <3>3, Zenon
  <2> QED BY <2>8, <2>9
<1>8. BelowFits(t, <<>>, lits, 1)
  <2>1. 1 \in 1..(n + 1)
    BY <1>1
  <2> QED BY <1>1, <1>2, <1>7, <2>1, Zenon
<1>9. PICK p \in t.leaves : Embeds(p, Len(<<>>) + 1, lits, 1)
  BY <1>8 DEF BelowFits
<1>10. Len(<<>>) + 1 = 1
  BY EmptySeq
<1> QED BY <1>9, <1>10

-----------------------------------------------------------------------------
(* The queries.                                                            *)

\* Both kinds of queries are paths over the elements of the tree.
LEMMA QueriesAreSequences ==
  ASSUME NEW query \in Paths \cup (Elements \X Elements)
  PROVE  query \in Seq(Elements)
<1>1. CASE query \in Paths
  BY <1>1, PathsAreSequences
<1>2. CASE query \in Elements \X Elements
  <2>1. PICK a \in Elements, b \in Elements : query = <<a, b>>
    BY <1>2
  <2> QED BY <2>1
<1> QED BY <1>1, <1>2

\* Whatever paths are inserted, and whichever is asked for: contains finds
\* exactly the paths that were inserted, subsumes exactly the queries that lie
\* on one of them, and hasPathSubsumedBy only paths that lie on the query.
THEOREM TreeQueriesAreExact == Spec => []TreeQueriesExact
<1>1. PathsInv => TreeQueriesExact
  <2> SUFFICES ASSUME PathsInv, NEW query \in Paths \cup (Elements \X Elements)
               PROVE  /\ TreeContains(tree, query) <=> query \in paths
                      /\ Subsumes(tree, query) <=> \E p \in paths : IsSubPath(query, p)
                      /\ HasPathSubsumedBy(tree, query) => \E p \in paths : IsSubPath(p, query)
    BY DEF TreeQueriesExact
  <2>1. GoodTree(tree, Elements) /\ tree.leaves = paths /\ query \in Seq(Elements)
        /\ \A p \in paths : p \in Seq(Elements)
    BY QueriesAreSequences, PathsAreSequences DEF PathsInv
  <2>2. \A p \in paths : /\ IsSubPath(query, p) <=> Embeds(query, 1, p, 1)
                         /\ IsSubPath(p, query) <=> Embeds(p, 1, query, 1)
    BY <2>1, EmbedsIsSubPath
  <2>3. TreeContains(tree, query) <=> query \in paths
    BY <2>1 DEF TreeContains
  <2>4. Subsumes(tree, query) <=> \E p \in paths : Embeds(query, 1, p, 1)
    BY <2>1, SubsumesIsBelow
  <2>5. HasPathSubsumedBy(tree, query) => \E p \in paths : Embeds(p, 1, query, 1)
    BY <2>1, HasPathIsBelow
  <2> QED BY <2>2, <2>3, <2>4, <2>5, Zenon
<1> QED BY <1>1, PathsInvariant, PTL

\* involvesSupersetOf walks both lists in order: where it succeeds for
\* different q-constants, they lie in the constraint's list in this order.
LEMMA SupersetInOrder ==
  ASSUME NEW c, NEW S, c.qs \in Seq(S), NEW qs \in Seq(S), IsInjective(qs),
         InvolvesSupersetOf(c, qs)
  PROVE  Embeds(qs, 1, c.qs, 1)
<1> DEFINE n == Len(qs)
           m == Len(c.qs)
           Later(i, j) == {k \in j..m : c.qs[k] = qs[i]}
           After(i, j) == IF Later(i, j) = {} THEN m + 1 ELSE Min(Later(i, j))
           Step(g, i) == IF i = 0 THEN 1 ELSE After(i, g[i - 1])
           Body(g, b) == [i \in 0..b |-> Step(g, i)]
           from == CHOOSE g : g = Body(g, n)
<1>1. n \in Nat /\ m \in Nat /\ DOMAIN qs = 1..n
  OBVIOUS
<1>2. \A i \in 1..n : from[i] <= m
  BY DEF InvolvesSupersetOf
<1> HIDE DEF n, m
<1>3. \E g : g = Body(g, n)
  <2> DEFINE B == {b \in 0..n : ~ \E g : g = Body(g, b)}
  <2>1. ASSUME B # {} PROVE FALSE
    <3>1. B \subseteq Nat
      <4>1. 0..n \subseteq Nat
        BY <1>1
      <4> HIDE DEF Body
      <4> QED BY <4>1, Zenon
    <3> HIDE DEF B
    <3>2. PICK b \in B : \A e \in B : b <= e
      BY <2>1, <3>1, LeastNumber
    <3>3. b \in 0..n /\ ~ \E g : g = Body(g, b)
      BY <3>2 DEF B
    <3>4. CASE b = 0
      <4> DEFINE g == [i \in 0..0 |-> 1]
      <4>1. \A i \in 0..0 : i = 0
        OBVIOUS
      <4>2. g = Body(g, 0)
        <5> HIDE DEF After
        <5>1. \A i \in 0..0 : Step(g, i) = 1
          BY <4>1
        <5> HIDE DEF Step
        <5> QED BY <5>1
      <4> HIDE DEF Body, g
      <4> QED BY <3>3, <3>4, <4>2, Zenon
    <3>5. CASE b # 0
      <4>1. b - 1 \in 0..n /\ ~ (b <= b - 1) /\ b \in Nat
        BY <1>1, <3>3, <3>5
      <4>2. PICK g : g = Body(g, b - 1)
        <5>1. b - 1 \notin B
          BY <3>2, <4>1
        <5> HIDE DEF Body
        <5> QED BY <4>1, <5>1, Zenon DEF B
      <4> DEFINE h == [i \in 0..b |-> IF i = b THEN After(b, g[b - 1]) ELSE g[i]]
      <4>3. \A i \in 0..b : /\ i # b => i \in 0..(b - 1)
                            /\ i # 0 => i - 1 \in 0..b /\ i - 1 # b
        BY <4>1
      <4> HIDE DEF After
      <4>4. \A i \in 0..b : i # 0 => h[i - 1] = g[i - 1]
        BY <4>3
      <4>5. ASSUME NEW i \in 0..b PROVE h[i] = Step(h, i)
        <5>1. Step(h, i) = Step(g, i)
          <6>1. CASE i = 0
            BY <6>1
          <6>2. CASE i # 0
            <7>1. h[i - 1] = g[i - 1]
              BY <4>4, <6>2
            <7> HIDE DEF h
            <7>2. Step(h, i) = After(i, h[i - 1]) /\ Step(g, i) = After(i, g[i - 1])
              BY <6>2, Zenon
            <7> QED BY <7>1, <7>2, Zenon
          <6> QED BY <6>1, <6>2
        <5>2. CASE i = b
          <6>1. h[i] = After(b, g[b - 1])
            BY <5>2
          <6>2. Step(g, b) = After(b, g[b - 1])
            BY <3>5, Zenon
          <6> QED BY <5>1, <5>2, <6>1, <6>2, Zenon
        <5>3. CASE i # b
          <6>1. h[i] = g[i]
            BY <5>3
          <6>2. i \in 0..(b - 1)
            BY <4>3, <5>3
          <6> HIDE DEF Step
          <6>3. Body(g, b - 1)[i] = Step(g, i)
            BY <6>2, Zenon
          <6> QED BY <4>2, <5>1, <6>1, <6>3, Zenon
        <5> QED BY <5>2, <5>3
      <4>6. h = [i \in 0..b |-> h[i]]
        OBVIOUS
      <4> HIDE DEF h
      <4>7. [i \in 0..b |-> h[i]] = Body(h, b)
        <5> HIDE DEF Step
        <5> QED BY <4>5, Zenon
      <4> HIDE DEF Body
      <4> QED BY <3>3, <4>6, <4>7, Zenon
    <3> QED BY <3>4, <3>5
  <2>2. n \notin B /\ n \in 0..n
    <3> HIDE DEF B
    <3> QED BY <1>1, <2>1
  <2> HIDE DEF Body
  <2> QED BY <2>2
<1>4. from = Body(from, n)
  <2> HIDE DEF Body
  <2> QED BY <1>3, Zenon
<1> HIDE DEF from
<1>5. \A i \in 0..n : from[i] = Step(from, i)
  <2> HIDE DEF Step
  <2>1. \A i \in 0..n : Body(from, n)[i] = Step(from, i)
    BY Zenon
  <2> QED BY <1>4, <2>1, Zenon
<1>6. from[0] = 1
  <2>1. 0 \in 0..n
    BY <1>1
  <2> HIDE DEF After
  <2> QED BY <1>5, <2>1
<1>7. \A i \in 1..n : i \in 0..n /\ i # 0 /\ i - 1 \in 0..n
  BY <1>1
<1>8. \A i \in 1..n : from[i] = After(i, from[i - 1])
  <2> HIDE DEF After
  <2> QED BY <1>5, <1>7, Zenon
\* A later element is found.
<1>9. ASSUME NEW i \in 1..n, from[i - 1] \in Nat
      PROVE  from[i] \in from[i - 1]..m /\ c.qs[from[i]] = qs[i]
  <2> DEFINE L == Later(i, from[i - 1])
  <2>1. L # {}
    <3> SUFFICES ASSUME L = {} PROVE FALSE
      OBVIOUS
    <3>1. from[i] = m + 1
      BY <1>8
    <3> QED BY <1>1, <1>2, <3>1
  <2>2. from[i] = Min(L)
    <3> HIDE DEF Later
    <3> QED BY <1>8, <2>1
  <2>3. L \subseteq Nat
    BY <1>1, <1>9
  <2>4. \E x \in L : \A y \in L : x <= y
    <3> HIDE DEF L
    <3> QED BY <2>1, <2>3, LeastNumber
  <2>5. Min(L) \in L
    <3> HIDE DEF L
    <3> QED BY <2>4 DEF Min
  <2> QED BY <2>2, <2>5
<1> DEFINE Up(i) == from[i] \in Nat /\ from[i] >= 1 /\ \A j \in 1..(i - 1) : from[j] < from[i]
<1>10. \A i \in 0..n : Up(i)
  <2> DEFINE B == {i \in 0..n : ~ Up(i)}
  <2> SUFFICES ASSUME B # {} PROVE FALSE
    OBVIOUS
  <2>1. B \subseteq Nat
    BY <1>1
  <2>2. PICK i \in B : \A j \in B : i <= j
    <3> HIDE DEF B
    <3> QED BY <2>1, LeastNumber
  <2>3. i \in 0..n /\ ~ Up(i)
    BY <2>2
  <2>4. CASE i = 0
    BY <1>6, <2>3, <2>4
  <2>5. CASE i # 0
    <3>1. i \in 1..n /\ i - 1 \in 0..n /\ ~ (i <= i - 1)
      BY <1>1, <2>3, <2>5
    <3>2. i - 1 \notin B
      <4> HIDE DEF B
      <4> QED BY <2>2, <3>1
    <3>3. Up(i - 1)
      <4> HIDE DEF Up
      <4> QED BY <3>1, <3>2
    <3>4. from[i] \in from[i - 1]..m /\ c.qs[from[i]] = qs[i]
      BY <1>9, <3>1, <3>3
    <3>5. from[i] \in Nat /\ from[i] >= from[i - 1] /\ from[i] >= 1
      BY <1>1, <3>3, <3>4
    <3>6. ASSUME i - 1 \in 1..n PROVE from[i - 1] < from[i]
      <4>1. i - 1 - 1 \in 0..n
        BY <1>1, <3>1, <3>6
      <4>2. i - 1 - 1 \notin B
        <5>1. ~ (i <= i - 1 - 1)
          BY <3>1
        <5> HIDE DEF B
        <5> QED BY <2>2, <5>1
      <4>3. from[i - 1 - 1] \in Nat
        BY <4>1, <4>2
      <4>4. c.qs[from[i - 1]] = qs[i - 1]
        BY <1>9, <3>6, <4>3
      <4>5. qs[i - 1] # qs[i]
        BY <1>1, <3>1, <3>6 DEF IsInjective
      <4> QED BY <3>3, <3>4, <3>5, <4>4, <4>5
    <3>7. ASSUME NEW j \in 1..(i - 1) PROVE from[j] < from[i]
      <4>1. i - 1 \in 1..n /\ (j = i - 1 \/ j \in 1..(i - 1 - 1)) /\ j \in 0..n
        BY <1>1, <3>1, <3>7
      <4>2. CASE j = i - 1
        BY <3>6, <4>1, <4>2
      <4>3. CASE j \in 1..(i - 1 - 1)
        <5>1. from[j] < from[i - 1] /\ from[i - 1] < from[i]
          BY <3>3, <3>6, <4>1, <4>3
        <5>2. j \notin B
          <6>1. ~ (i <= j)
            BY <3>1, <3>7
          <6> HIDE DEF B
          <6> QED BY <2>2, <6>1
        <5>3. from[j] \in Nat
          BY <4>1, <5>2
        <5> QED BY <3>3, <3>5, <5>1, <5>3
      <4> QED BY <4>1, <4>2, <4>3
    <3> QED BY <2>3, <3>5, <3>7
  <2> QED BY <2>4, <2>5
<1> DEFINE f == [i \in 1..n |-> from[i]]
<1>11. \A i \in 1..n : from[i] \in 1..m /\ c.qs[from[i]] = qs[i]
  <2> SUFFICES ASSUME NEW i \in 1..n PROVE from[i] \in 1..m /\ c.qs[from[i]] = qs[i]
    OBVIOUS
  <2>1. Up(i) /\ Up(i - 1)
    <3> HIDE DEF Up
    <3> QED BY <1>7, <1>10
  <2>2. from[i] \in from[i - 1]..m /\ c.qs[from[i]] = qs[i]
    BY <1>9, <2>1
  <2> QED BY <1>1, <2>1, <2>2
<1>12. f \in [1..n -> 1..m] /\ \A i \in 1..n : qs[i] = c.qs[f[i]]
  BY <1>11
<1>13. ASSUME NEW i \in 1..n, NEW j \in 1..n, i < j PROVE f[i] < f[j]
  <2>1. Up(j)
    BY <1>7, <1>10
  <2>2. i \in 1..(j - 1)
    BY <1>1, <1>13
  <2> QED BY <2>1, <2>2
<1> HIDE DEF f
<1> QED BY <1>12, <1>13 DEF Embeds, n, m

\* The elements of a path that lies on another are among that one's.
LEMMA EmbeddedElements ==
  ASSUME NEW S, NEW a \in Seq(S), NEW T, NEW b \in Seq(T), Embeds(a, 1, b, 1), NEW i \in 1..Len(a)
  PROVE  \E j \in 1..Len(b) : a[i] = b[j]
<1>1. PICK f \in [1..Len(a) -> 1..Len(b)] : \A j \in 1..Len(a) : a[j] = b[f[j]]
  BY DEF Embeds
<1> QED BY <1>1

\* The path of a substitution's values.
LEMMA FullIsPath ==
  ASSUME NEW qs \in QLists, NEW sub \in Substitutions
  PROVE  /\ Full(qs, sub) \in Seq(Letters) /\ Len(Full(qs, sub)) = Len(qs)
         /\ \A i \in 1..Len(qs) : Full(qs, sub)[i] = <<qs[i], sub[qs[i]]>>
<1> DEFINE u == [i \in DOMAIN qs |-> sub[qs[i]]]
<1>1. u \in Tuples(qs) /\ DOMAIN qs = 1..Len(qs)
  BY FullIsTuple, QListsAreSequences
<1>2. \A i \in 1..Len(qs) : u[i] = sub[qs[i]]
  BY <1>1
<1> HIDE DEF u
<1>3. /\ PathOf(qs, u) \in Seq(Letters) /\ Len(PathOf(qs, u)) = Len(qs)
      /\ \A i \in 1..Len(qs) : PathOf(qs, u)[i] = <<qs[i], u[i]>>
  BY <1>1, PathOfTuple
<1> QED BY <1>2, <1>3, Zenon DEF Full, u

\* Whatever a constraint looks like: it passes the values of the substitutions
\* it admits.
LEMMA AdmittedPasses ==
  ASSUME NEW c \in GoodConstraints, NEW sub \in Substitutions, Admits(c, sub),
         NEW involved \in QLists, IsInjective(involved)
  PROVE  Passes(c, involved, Full(involved, sub))
<1> DEFINE path == Full(involved, sub)
           own == Full(c.qs, sub)
<1>1. /\ c.qs \in QLists /\ c.polarity \in Polarities
      /\ ConstraintTree(c.valid, c.qs) /\ ConstraintTree(c.invalid, c.qs)
  BY DEF GoodConstraints
<1>2. GoodTree(c.valid, Letters) /\ GoodTree(c.invalid, Letters)
  BY <1>1 DEF ConstraintTree
<1>3. /\ path \in Seq(Letters) /\ Len(path) = Len(involved)
      /\ \A i \in 1..Len(involved) : path[i] = <<involved[i], sub[involved[i]]>>
  BY FullIsPath
<1>4. /\ own \in Seq(Letters) /\ Len(own) = Len(c.qs)
      /\ \A i \in 1..Len(c.qs) : own[i] = <<c.qs[i], sub[c.qs[i]]>>
  BY <1>1, FullIsPath
<1>5. /\ involved \in Seq(QConstants) /\ Len(involved) \in Nat
      /\ c.qs \in Seq(QConstants) /\ Len(c.qs) \in Nat
  BY <1>1, QListsAreSequences
<1> HIDE DEF path, own
<1>6. /\ c.polarity = "any_valid" => own \in c.valid.leaves
      /\ c.polarity # "any_valid" => own \notin c.invalid.leaves
  BY DEF Admits, own
<1>7. CASE c.qs = involved
  <2>1. own = path
    BY <1>7 DEF own, path
  <2>2. IsValidPath(c, path, TRUE)
    BY <1>6, <2>1 DEF IsValidPath, TreeContains
  <2> QED BY <1>7, <2>2 DEF Passes, path
<1>8. CASE c.qs # involved /\ c.polarity # "any_valid"
  <2>1. ASSUME HasPathSubsumedBy(c.invalid, path) PROVE FALSE
    <3>1. PICK p \in c.invalid.leaves : Embeds(p, 1, path, 1)
      BY <1>2, <1>3, <2>1, HasPathIsBelow
    <3>2. /\ p \in Seq(Letters) /\ Len(p) = Len(c.qs)
          /\ \A i \in 1..Len(p) : p[i][1] = c.qs[i]
      BY <1>1, <3>1 DEF ConstraintTree, GoodTree, IsTree
    <3>3. ASSUME NEW i \in 1..Len(p) PROVE p[i] = own[i]
      <4>1. PICK j \in 1..Len(path) : p[i] = path[j]
        BY <1>3, <3>1, <3>2, EmbeddedElements
      <4>2. p[i] = <<involved[j], sub[involved[j]]>>
        BY <1>3, <4>1
      <4>3. involved[j] = c.qs[i]
        BY <3>2, <4>2
      <4>4. own[i] = <<c.qs[i], sub[c.qs[i]]>>
        BY <1>4, <3>2
      <4> QED BY <4>2, <4>3, <4>4
    <3>4. p = own
      BY <1>4, <3>2, <3>3, SeqEqual
    <3> QED BY <1>6, <1>8, <3>1, <3>4
  <2>2. IsValidPath(c, path, FALSE)
    BY <1>8, <2>1, Zenon DEF IsValidPath
  <2> QED BY <1>8, <2>2 DEF Passes, path
<1>9. CASE c.qs # involved /\ c.polarity = "any_valid"
  <2>1. ASSUME InvolvesSupersetOf(c, involved) PROVE Subsumes(c.valid, path)
    <3>1. Embeds(involved, 1, c.qs, 1)
      BY <1>5, <2>1, SupersetInOrder
    <3>2. PICK f \in [1..Len(involved) -> 1..Len(c.qs)] :
             /\ \A j \in 1..Len(involved) : involved[j] = c.qs[f[j]]
             /\ \A j, k \in 1..Len(involved) : j < k => f[j] < f[k]
      BY <3>1 DEF Embeds
    <3>3. \A j \in 1..Len(involved) : path[j] = own[f[j]]
      BY <1>3, <1>4, <3>2
    <3>4. Embeds(path, 1, own, 1)
      BY <1>3, <1>4, <3>2, <3>3 DEF Embeds
    <3>5. own \in c.valid.leaves
      BY <1>6, <1>9
    <3> QED BY <1>2, <1>3, <3>4, <3>5, SubsumesIsBelow
  <2>2. InvolvesSupersetOf(c, involved) => IsValidPath(c, path, FALSE)
    BY <1>9, <2>1, Zenon DEF IsValidPath
  <2>3. c.polarity # "no_invalid"
    BY <1>9
  <2> QED BY <1>9, <2>2, <2>3, Zenon DEF Passes, path
<1> QED BY <1>7, <1>8, <1>9

\* Whatever conditions an operation has, in whichever order and polarity they
\* came and however they were merged: an effect keeps every decoding that a
\* substitution allowed by the conditions makes of it (addEffect, isValid,
\* involvesSupersetOf).
THEOREM QueriesAreSound == Spec => []QueriesSound
<1>1. ConditionsInv => QueriesSound
  <2> SUFFICES ASSUME ConditionsInv,
                      NEW involved \in {qs \in QLists : IsInjective(qs)}, NEW sub \in Allowed,
                      NEW k \in DOMAIN constraints
               PROVE  LET path == PathOf(involved, [i \in DOMAIN involved |-> sub[involved[i]]])
                      IN Passes(constraints[k], involved, path)
    BY DEF QueriesSound
  <2>1. constraints[k] \in GoodConstraints
    BY LenProperties DEF ConditionsInv
  <2>2. sub \in Substitutions /\ \A c \in conditions : Meets(sub, c)
    BY DEF Allowed, Substitutions
  <2>3. Admits(constraints[k], sub)
    BY <2>2, Zenon DEF ConditionsInv, AllAdmit
  <2>4. involved \in QLists /\ IsInjective(involved)
    OBVIOUS
  <2>5. Passes(constraints[k], involved, Full(involved, sub))
    BY <2>1, <2>2, <2>3, <2>4, AdmittedPasses
  <2> QED BY <2>5, Zenon DEF Full
<1> QED BY <1>1, ConditionsInvariant, PTL

-----------------------------------------------------------------------------
(* Powers of two and digits.                                               *)

\* The powers of two are the numbers of subsets.
LEMMA PowersOfTwo ==
  /\ 2^0 = 1
  /\ \A n \in Nat : 2^n \in Nat /\ 2^n > 0 /\ 2^(n + 1) = 2 * 2^n
<1> DEFINE P(n) == Cardinality(SUBSET (1..n))
<1>1. ASSUME NEW n \in Nat PROVE 2^n = P(n) /\ P(n) \in Nat /\ IsFiniteSet(SUBSET (1..n))
  <2>1. IsFiniteSet(1..n) /\ Cardinality(1..n) = n
    BY FS_Interval
  <2>2. P(n) = 2^Cardinality(1..n) /\ IsFiniteSet(SUBSET (1..n))
    BY <2>1, FS_SUBSET
  <2>3. P(n) \in Nat
    BY <2>2, FS_CardinalityType
  <2> QED BY <2>1, <2>2, <2>3, Zenon
<1>2. P(0) = 1
  <2>1. SUBSET (1..0) = {{}}
    OBVIOUS
  <2>2. Cardinality({{}}) = 1
    BY FS_Singleton
  <2> QED BY <2>1, <2>2, Zenon
<1>3. ASSUME NEW n \in Nat PROVE P(n + 1) = 2 * P(n)
  <2> DEFINE A == SUBSET (1..n)
             B == {T \cup {n + 1} : T \in A}
             f == [T \in A |-> T \cup {n + 1}]
  <2>1. SUBSET (1..(n + 1)) = A \cup B
    <3>1. ASSUME NEW T \in SUBSET (1..(n + 1)) PROVE T \in A \cup B
      <4>1. CASE n + 1 \in T
        <5>1. T \ {n + 1} \in A /\ T = (T \ {n + 1}) \cup {n + 1}
          BY <4>1
        <5> HIDE DEF A
        <5> QED BY <5>1
      <4>2. CASE n + 1 \notin T
        BY <4>2
      <4> QED BY <4>1, <4>2
    <3>2. A \subseteq SUBSET (1..(n + 1))
      OBVIOUS
    <3>3. B \subseteq SUBSET (1..(n + 1))
      <4>1. \A T \in A : T \cup {n + 1} \subseteq 1..(n + 1)
        OBVIOUS
      <4> HIDE DEF A
      <4> QED BY <4>1
    <3> QED BY <3>1, <3>2, <3>3
  <2>2. A \cap B = {}
    <3>1. \A T \in A : n + 1 \notin T
      OBVIOUS
    <3> HIDE DEF A
    <3> QED BY <3>1
  <2>3. f \in Bijection(A, B)
    <3>1. \A T \in A : n + 1 \notin T
      OBVIOUS
    <3> HIDE DEF A
    <3>2. f \in [A -> B]
      OBVIOUS
    <3>3. \A T, U \in A : f[T] = f[U] => T = U
      <4> SUFFICES ASSUME NEW T \in A, NEW U \in A, T \cup {n + 1} = U \cup {n + 1} PROVE T = U
        OBVIOUS
      <4>1. n + 1 \notin T /\ n + 1 \notin U
        BY <3>1
      <4> QED BY <4>1
    <3>4. \A V \in B : \E T \in A : f[T] = V
      OBVIOUS
    <3> HIDE DEF f, B
    <3> QED BY <3>2, <3>3, <3>4 DEF Bijection, Injection, Surjection, IsInjective
  <2>4. IsFiniteSet(A) /\ Cardinality(A) = P(n) /\ P(n) \in Nat
    BY <1>1
  <2>5. IsFiniteSet(B) /\ Cardinality(B) = Cardinality(A)
    <3>1. ExistsBijection(A, B)
      BY <2>3 DEF ExistsBijection
    <3> HIDE DEF A, B
    <3> QED BY <2>4, <3>1, FS_Bijection
  <2>6. Cardinality(A \cup B) = Cardinality(A) + Cardinality(B) - Cardinality({})
    <3> HIDE DEF A, B
    <3> QED BY <2>2, <2>4, <2>5, FS_Union
  <2>7. P(n + 1) = Cardinality(A \cup B)
    BY <2>1, Zenon
  <2>8. Cardinality({}) = 0
    BY FS_EmptySet
  <2> HIDE DEF A, B, P
  <2> QED BY <2>4, <2>5, <2>6, <2>7, <2>8
<1>4. 2^0 = 1
  <2>1. 0 \in Nat
    OBVIOUS
  <2> QED BY <1>1, <1>2, <2>1, Zenon
<1>5. \A n \in Nat : 2^n \in Nat /\ 2^(n + 1) = 2 * 2^n
  <2> SUFFICES ASSUME NEW n \in Nat PROVE 2^n \in Nat /\ 2^(n + 1) = 2 * 2^n
    OBVIOUS
  <2>1. n + 1 \in Nat
    OBVIOUS
  <2>2. 2^n = P(n) /\ P(n) \in Nat
    BY <1>1
  <2>3. 2^(n + 1) = P(n + 1)
    BY <1>1, <2>1
  <2> HIDE DEF P
  <2> QED BY <1>3, <2>2, <2>3, Zenon
<1> DEFINE Bad == {n \in Nat : ~ (2^n > 0)}
<1>6. ASSUME Bad # {} PROVE FALSE
  <2>1. PICK n \in Bad : \A y \in Bad : n <= y
    <3>1. Bad \subseteq Nat
      OBVIOUS
    <3> HIDE DEF Bad
    <3> QED BY <1>6, <3>1, LeastNumber
  <2>2. n \in Nat /\ ~ (2^n > 0)
    OBVIOUS
  <2>3. CASE n = 0
    BY <1>4, <2>2, <2>3
  <2>4. CASE n # 0
    <3>1. n - 1 \in Nat /\ ~ (n <= n - 1) /\ n - 1 + 1 = n
      BY <2>2, <2>4
    <3>2. 2^(n - 1) > 0
      BY <2>1, <3>1
    <3>3. 2^(n - 1) \in Nat /\ 2^(n - 1 + 1) = 2 * 2^(n - 1)
      BY <1>5, <3>1
    <3>4. 2^n = 2 * 2^(n - 1)
      BY <3>1, <3>3
    <3> QED BY <2>2, <3>2, <3>3, <3>4
  <2> QED BY <2>3, <2>4
<1>7. \A n \in Nat : 2^n > 0
  BY <1>6
<1> QED BY <1>4, <1>5, <1>7

\* Quotient and remainder.
LEMMA DivisionIs ==
  ASSUME NEW n \in Nat, NEW p \in Nat, p > 0
  PROVE  /\ n \div p \in Nat
         /\ \E r \in Nat : r < p /\ n = p * (n \div p) + r
OBVIOUS

LEMMA DivisionUnique ==
  ASSUME NEW n \in Nat, NEW p \in Nat, NEW q \in Nat, NEW r \in Nat, r < p, n = p * q + r
  PROVE  n \div p = q
OBVIOUS

\* Dropping one more digit halves the number; the digit is what is lost.
LEMMA HalvesAndBits ==
  ASSUME NEW n \in Nat, NEW i \in Nat
  PROVE  /\ n \div 2^i \in Nat /\ Bit(n, i) \in {0, 1}
         /\ n \div 2^i = 2 * (n \div 2^(i + 1)) + Bit(n, i)
<1> DEFINE p == 2^i
           x == n \div p
           y == x \div 2
           b == x % 2
<1>1. p \in Nat /\ p > 0 /\ 2^(i + 1) = 2 * p
  BY PowersOfTwo
<1> HIDE DEF p
<1>2. x \in Nat /\ \E r \in Nat : r < p /\ n = p * x + r
  BY <1>1, DivisionIs
<1>3. PICK r \in Nat : r < p /\ n = p * x + r
  BY <1>2
<1> HIDE DEF x
<1>4. y \in Nat /\ b \in {0, 1} /\ x = 2 * y + b
  BY <1>2
<1> HIDE DEF y, b
<1>5. p * b \in Nat /\ p * b <= p /\ p * b + r < 2 * p /\ p * b + r \in Nat
  <2>1. CASE b = 0
    BY <1>1, <1>3, <2>1
  <2>2. CASE b = 1
    BY <1>1, <1>3, <2>2
  <2> QED BY <1>4, <2>1, <2>2
<1>6. n = (2 * p) * y + (p * b + r)
  BY <1>1, <1>3, <1>4
<1>7. n \div (2 * p) = y
  BY <1>1, <1>4, <1>5, <1>6, DivisionUnique
<1>8. Bit(n, i) = b
  BY DEF Bit, b, x, p
<1> QED BY <1>1, <1>2, <1>4, <1>7, <1>8 DEF x, p

\* There are digits enough for any number of states.
LEMMA DigitsSuffice ==
  ASSUME NEW numStates \in Nat
  PROVE  NumDigits(numStates) \in Nat /\ 2^NumDigits(numStates) >= numStates
<1> DEFINE B == {n \in Nat : ~ (2^n >= n)}
           E == {d \in Nat : d <= numStates /\ 2^d >= numStates}
<1>1. ASSUME B # {} PROVE FALSE
  <2>1. PICK n \in B : \A y \in B : n <= y
    <3>1. B \subseteq Nat
      OBVIOUS
    <3> HIDE DEF B
    <3> QED BY <1>1, <3>1, LeastNumber
  <2>2. n \in Nat /\ ~ (2^n >= n)
    OBVIOUS
  <2>3. CASE n = 0
    BY <2>2, <2>3, PowersOfTwo
  <2>4. CASE n # 0
    <3>1. n - 1 \in Nat /\ ~ (n <= n - 1) /\ n - 1 + 1 = n
      BY <2>2, <2>4
    <3>2. 2^(n - 1) >= n - 1
      BY <2>1, <3>1
    <3>3. 2^(n - 1) \in Nat /\ 2^(n - 1) > 0 /\ 2^(n - 1 + 1) = 2 * 2^(n - 1)
      BY <3>1, PowersOfTwo
    <3>4. 2^n = 2 * 2^(n - 1)
      BY <3>1, <3>3
    <3> QED BY <2>2, <3>2, <3>3, <3>4
  <2> QED BY <2>3, <2>4
<1>2. numStates \in E
  <2>1. numStates \notin B
    BY <1>1
  <2> QED BY <2>1
<1>3. PICK d \in E : \A e \in E : d <= e
  <2>1. E \subseteq Nat
    OBVIOUS
  <2> HIDE DEF E
  <2> QED BY <1>2, <2>1, LeastNumber
<1>4. d \in 0..numStates /\ 2^d >= numStates
  OBVIOUS
<1>5. \A k \in 0..(d - 1) : 2^k < numStates
  <2> SUFFICES ASSUME NEW k \in 0..(d - 1) PROVE 2^k < numStates
    OBVIOUS
  <2>1. k \in Nat /\ k <= numStates /\ ~ (d <= k)
    BY <1>4
  <2>2. 2^k \in Nat
    BY <2>1, PowersOfTwo
  <2>3. k \notin E
    BY <1>3, <2>1
  <2> QED BY <2>1, <2>2, <2>3
<1>6. \E x \in 0..numStates : 2^x >= numStates /\ \A k \in 0..(x - 1) : 2^k < numStates
  BY <1>4, <1>5
<1>7. NumDigits(numStates) \in 0..numStates /\ 2^NumDigits(numStates) >= numStates
  BY <1>6 DEF NumDigits
<1> QED BY <1>7

\* Below a power of two, the digits from some place on are those of the
\* quotient by that place's power.
LEMMA UpperDigits ==
  ASSUME NEW d \in Nat, NEW size \in 0..d, NEW a \in 0..(2^d - 1), NEW b \in 0..(2^d - 1)
  PROVE  (\A i \in size..(d - 1) : Bit(a, i) = Bit(b, i)) <=> a \div 2^size = b \div 2^size
<1>0. 2^d \in Nat /\ size \in Nat /\ a \in Nat /\ b \in Nat
  BY PowersOfTwo
<1> DEFINE H(n, i) == n \div 2^i
<1>1. \A i \in Nat : /\ H(a, i) \in Nat /\ H(b, i) \in Nat
                     /\ H(a, i) = 2 * H(a, i + 1) + Bit(a, i) /\ Bit(a, i) \in {0, 1}
                     /\ H(b, i) = 2 * H(b, i + 1) + Bit(b, i) /\ Bit(b, i) \in {0, 1}
  BY <1>0, HalvesAndBits
<1>2. H(a, d) = 0 /\ H(b, d) = 0
  <2> DEFINE p == 2^d
  <2>1. p \in Nat /\ a < p /\ b < p /\ a = p * 0 + a /\ b = p * 0 + b
    BY <1>0
  <2> HIDE DEF p
  <2>2. a \div p = 0 /\ b \div p = 0
    BY <1>0, <2>1, DivisionUnique
  <2> QED BY <2>2 DEF p
<1> HIDE DEF H
<1>3. ASSUME \A i \in size..(d - 1) : Bit(a, i) = Bit(b, i) PROVE H(a, size) = H(b, size)
  <2> DEFINE B == {k \in Nat : k <= d - size /\ H(a, d - k) # H(b, d - k)}
  <2>1. ASSUME B # {} PROVE FALSE
    <3>1. PICK k \in B : \A y \in B : k <= y
      <4>1. B \subseteq Nat
        OBVIOUS
      <4> HIDE DEF B
      <4> QED BY <2>1, <4>1, LeastNumber
    <3>2. k \in Nat /\ k <= d - size /\ H(a, d - k) # H(b, d - k)
      OBVIOUS
    <3>3. k # 0
      <4>1. k = 0 => d - k = d
        OBVIOUS
      <4> QED BY <1>2, <3>2, <4>1
    <3>4. k - 1 \in Nat /\ k - 1 <= d - size /\ ~ (k <= k - 1)
      BY <3>2, <3>3
    <3>5. H(a, d - (k - 1)) = H(b, d - (k - 1))
      BY <3>1, <3>4
    <3>6. d - k \in size..(d - 1) /\ d - k \in Nat /\ d - k + 1 = d - (k - 1)
      BY <1>0, <3>2, <3>3
    <3>7. H(a, d - k) = 2 * H(a, d - k + 1) + Bit(a, d - k) /\ H(b, d - k) = 2 * H(b, d - k + 1) + Bit(b, d - k)
      BY <1>1, <3>6
    <3>8. Bit(a, d - k) = Bit(b, d - k)
      BY <1>3, <3>6
    <3>9. H(a, d - k) = 2 * H(a, d - (k - 1)) + Bit(a, d - k) /\ H(b, d - k) = 2 * H(b, d - (k - 1)) + Bit(b, d - k)
      BY <3>6, <3>7
    <3> QED BY <3>2, <3>5, <3>8, <3>9
  <2>2. d - size \in Nat /\ d - (d - size) = size
    BY <1>0
  <2>3. d - size \notin B
    BY <2>1
  <2>4. H(a, d - (d - size)) = H(b, d - (d - size))
    <3> DEFINE k == d - size
    <3>1. k \in Nat /\ k <= d - size /\ k \notin B
      BY <1>0, <2>2, <2>3
    <3> HIDE DEF k
    <3>2. H(a, d - k) = H(b, d - k)
      BY <3>1
    <3> QED BY <3>2 DEF k
  <2> QED BY <2>2, <2>4
<1>4. ASSUME H(a, size) = H(b, size) PROVE \A i \in size..d : H(a, i) = H(b, i)
  <2> DEFINE B == {i \in Nat : size <= i /\ i <= d /\ H(a, i) # H(b, i)}
  <2>1. ASSUME B # {} PROVE FALSE
    <3>1. PICK i \in B : \A y \in B : i <= y
      <4>1. B \subseteq Nat
        OBVIOUS
      <4> HIDE DEF B
      <4> QED BY <2>1, <4>1, LeastNumber
    <3>2. i \in Nat /\ size <= i /\ i <= d /\ H(a, i) # H(b, i)
      OBVIOUS
    <3>3. i # size
      BY <1>4, <3>2
    <3>4. i - 1 \in Nat /\ size <= i - 1 /\ i - 1 <= d /\ ~ (i <= i - 1) /\ i - 1 + 1 = i
      BY <1>0, <3>2, <3>3
    <3>5. H(a, i - 1) = H(b, i - 1)
      BY <3>1, <3>4
    <3>6. /\ H(a, i - 1) = 2 * H(a, i) + Bit(a, i - 1) /\ H(b, i - 1) = 2 * H(b, i) + Bit(b, i - 1)
          /\ Bit(a, i - 1) \in {0, 1} /\ Bit(b, i - 1) \in {0, 1}
          /\ H(a, i) \in Nat /\ H(b, i) \in Nat
      BY <1>1, <3>2, <3>4
    <3>7. H(a, i) = H(b, i)
      BY <3>5, <3>6
    <3> QED BY <3>2, <3>7
  <2>2. \A i \in size..d : i \in Nat /\ size <= i /\ i <= d
    BY <1>0
  <2> QED BY <2>1, <2>2
<1>5. ASSUME H(a, size) = H(b, size), NEW i \in size..(d - 1) PROVE Bit(a, i) = Bit(b, i)
  <2>1. i \in size..d /\ i + 1 \in size..d /\ i \in Nat /\ i + 1 \in Nat
    BY <1>0
  <2>2. H(a, i) = H(b, i) /\ H(a, i + 1) = H(b, i + 1)
    BY <1>4, <1>5, <2>1
  <2>3. /\ H(a, i) = 2 * H(a, i + 1) + Bit(a, i) /\ H(b, i) = 2 * H(b, i + 1) + Bit(b, i)
        /\ Bit(a, i) \in {0, 1} /\ Bit(b, i) \in {0, 1} /\ H(a, i + 1) \in Nat
    BY <1>1, <2>1
  <2>4. 2 * H(a, i + 1) + Bit(a, i) = 2 * H(a, i + 1) + Bit(b, i)
    BY <2>2, <2>3, Zenon
  <2> HIDE DEF H
  <2> QED BY <2>3, <2>4
<1> QED BY <1>3, <1>5 DEF H

\* A block holds the numbers with its quotient.
LEMMA BlockIs ==
  ASSUME NEW size \in Nat, NEW q \in Nat, NEW a \in Nat
  PROVE  a \div 2^size = (q * 2^size) \div 2^size <=> q * 2^size <= a /\ a < q * 2^size + 2^size
<1> DEFINE p == 2^size
<1>1. p \in Nat /\ p > 0
  BY PowersOfTwo
<1> HIDE DEF p
<1>2. q * p \in Nat /\ q * p = p * q + 0
  BY <1>1
<1>3. (q * p) \div p = q
  BY <1>1, <1>2, DivisionUnique
<1>4. PICK r \in Nat : r < p /\ a = p * (a \div p) + r /\ a \div p \in Nat
  BY <1>1, DivisionIs
<1>5. ASSUME a \div p = q PROVE q * p <= a /\ a < q * p + p
  BY <1>1, <1>2, <1>4, <1>5
<1>6. ASSUME q * p <= a, a < q * p + p PROVE a \div p = q
  <2> DEFINE s == a - q * p
  <2>1. s \in Nat /\ s < p /\ a = p * q + s
    BY <1>1, <1>2, <1>6
  <2> HIDE DEF s
  <2> QED BY <1>1, <2>1, DivisionUnique
<1> QED BY <1>3, <1>5, <1>6 DEF p

-----------------------------------------------------------------------------
(* The blocks of codes that no state has.                                  *)

\* The blocks hold the codes from numStates on, and a block begins at a
\* multiple of its size. (from is the function that ForbiddenBlocks defines.)
LEMMA BlocksCover ==
  ASSUME NEW digits \in Nat, NEW numStates \in Nat, numStates <= 2^digits
  PROVE  /\ \A b \in ForbiddenBlocks(digits, numStates) :
              /\ b[2] \in 0..digits /\ b[1] \in 0..(2^digits - 1)
              /\ \E q \in Nat : b[1] = q * 2^b[2]
         /\ \A n \in 0..(2^digits - 1) :
              n >= numStates <=> \E b \in ForbiddenBlocks(digits, numStates) :
                                    b[1] <= n /\ n < b[1] + 2^b[2]
<1> DEFINE size(k) == digits + 1 - k
           last == digits + 1
           next(x, k) == IF x - numStates >= 2^size(k) THEN x - 2^size(k) ELSE x
           Body(g) == [k \in 0..last |->
                         IF k = 0 THEN 2^digits
                         ELSE IF g[k - 1] - numStates >= 2^size(k) THEN g[k - 1] - 2^size(k) ELSE g[k - 1]]
           from == CHOOSE g : g = Body(g)
           step == [k \in 1..last |-> [x \in Int |-> next(x, k)]]
<1>1. ForbiddenBlocks(digits, numStates) = {<<from[k], size(k)>> : k \in {j \in 1..last : from[j] # from[j - 1]}}
  BY DEF ForbiddenBlocks
<1>2. last \in Nat /\ last = digits + 1
  OBVIOUS
<1>3. 2^digits \in Nat /\ \A k \in 1..last : size(k) \in Nat /\ 2^size(k) \in Nat /\ 2^size(k) > 0
  <2>1. \A k \in 1..last : size(k) \in Nat
    OBVIOUS
  <2> HIDE DEF size
  <2> QED BY <2>1, PowersOfTwo
<1> HIDE DEF size
<1>4. step \in [1..last -> [Int -> Int]]
  <2>1. \A k \in 1..last : \A x \in Int : next(x, k) \in Int
    BY <1>3
  <2> HIDE DEF next
  <2> QED BY <2>1
<1>5. PICK f \in [0..last -> Int] : f[0] = 2^digits /\ \A k \in 1..last : f[k] = step[k][f[k - 1]]
  <2> DEFINE a == 2^digits
  <2>1. a \in Int
    BY <1>3
  <2> HIDE DEF step, last, a
  <2>2. \E f \in [0..last -> Int] : Iterates(f, last, a, step)
    BY <1>2, <1>4, <2>1, BoundedRecursion, Zenon
  <2> QED BY <2>2 DEF Iterates, a
<1>6. \A k \in 1..last : \A x \in Int : step[k][x] = next(x, k)
  <2> HIDE DEF next
  <2> QED OBVIOUS
<1> HIDE DEF step
<1>7. \E g : g = Body(g)
  <2>1. ASSUME NEW k \in 0..last
        PROVE  f[k] = IF k = 0 THEN 2^digits
                      ELSE IF f[k - 1] - numStates >= 2^size(k) THEN f[k - 1] - 2^size(k) ELSE f[k - 1]
    <3>1. CASE k = 0
      BY <1>5, <3>1
    <3>2. CASE k # 0
      <4>1. k \in 1..last /\ k - 1 \in 0..last
        BY <3>2
      <4>2. f[k] = step[k][f[k - 1]] /\ f[k - 1] \in Int
        BY <1>5, <4>1
      <4>3. f[k] = next(f[k - 1], k)
        <5> HIDE DEF next
        <5> QED BY <1>6, <4>1, <4>2
      <4> QED BY <3>2, <4>3, Zenon
    <3> QED BY <3>1, <3>2
  <2>2. f = [k \in 0..last |-> f[k]]
    BY <1>5
  <2>3. f = Body(f)
    BY <2>1, <2>2
  <2> QED BY <2>3
<1>8. from = Body(from)
  <2> HIDE DEF Body
  <2> QED BY <1>7, Zenon
<1> HIDE DEF from
<1>9. \A k \in 0..last : from[k] = IF k = 0 THEN 2^digits
                         ELSE IF from[k - 1] - numStates >= 2^size(k) THEN from[k - 1] - 2^size(k) ELSE from[k - 1]
  <2> DEFINE e(k) == IF k = 0 THEN 2^digits
                     ELSE IF from[k - 1] - numStates >= 2^size(k) THEN from[k - 1] - 2^size(k) ELSE from[k - 1]
  <2>1. from = [k \in 0..last |-> e(k)]
    BY <1>8, Zenon
  <2> HIDE DEF e
  <2>2. \A k \in 0..last : from[k] = e(k)
    BY <2>1
  <2> QED BY <2>2 DEF e
<1> HIDE DEF Body, next
\* What is left between numStates and from[k] is smaller than the next block
\* but one, and from[k] a multiple of the next block.
<1> DEFINE Good(k) ==
      /\ from[k] \in Nat /\ numStates <= from[k] /\ from[k] <= 2^digits
      /\ from[k] - numStates < 2^(digits + 1 - k)
      /\ k <= digits => \E q \in Nat : from[k] = q * 2^(digits - k)
           B == {k \in Nat : k <= last /\ ~ Good(k)}
<1>10. ASSUME B # {} PROVE FALSE
  <2>1. PICK k \in B : \A y \in B : k <= y
    <3>1. B \subseteq Nat
      OBVIOUS
    <3> HIDE DEF B
    <3> QED BY <1>10, <3>1, LeastNumber
  <2>2. k \in Nat /\ k <= last /\ ~ Good(k)
    OBVIOUS
  <2>3. CASE k = 0
    <3>1. from[k] = 2^digits
      BY <1>2, <1>9, <2>3
    <3>2. 2^(digits + 1) = 2 * 2^digits /\ 2^digits > 0
      BY PowersOfTwo
    <3>3. digits + 1 - k = digits + 1 /\ digits - k = digits /\ 2^digits = 1 * 2^digits
      BY <1>3, <2>3
    <3> QED BY <1>3, <2>2, <3>1, <3>2, <3>3
  <2>4. CASE k # 0
    <3> DEFINE j == k - 1
               p == 2^size(k)
               x == from[k - 1]
    <3>1. j \in Nat /\ j <= last /\ ~ (k <= j) /\ j <= digits /\ k \in 1..last /\ k \in 0..last
          /\ digits - j = size(k) /\ digits + 1 - j = size(k) + 1 /\ digits + 1 - k = size(k) /\ size(k) \in Nat
      BY <1>2, <1>3, <2>2, <2>4 DEF size
    <3>2. Good(j)
      <4>1. j \notin B
        BY <2>1, <3>1
      <4> HIDE DEF Good
      <4> QED BY <3>1, <4>1
    <3>3. p \in Nat /\ p > 0 /\ 2^(size(k) + 1) = 2 * p
      BY <3>1, PowersOfTwo
    <3>4. x \in Nat /\ numStates <= x /\ x <= 2^digits /\ x - numStates < 2 * p
      <4>1. x - numStates < 2^(digits + 1 - j)
        BY <3>2
      <4>2. 2^(digits + 1 - j) = 2 * p
        BY <3>1, <3>3
      <4> QED BY <3>2, <4>1, <4>2
    <3>5. PICK q \in Nat : x = q * p
      <4>1. \E q \in Nat : x = q * 2^(digits - j)
        BY <3>1, <3>2
      <4>2. 2^(digits - j) = p
        BY <3>1
      <4> QED BY <4>1, <4>2
    <3>6. from[k] = IF x - numStates >= p THEN x - p ELSE x
      BY <1>9, <2>4, <3>1
    <3> HIDE DEF p, x
    <3>7. PICK c \in Nat : from[k] = c * p
      <4>1. CASE x - numStates >= p
        <5>1. q # 0
          BY <3>3, <3>4, <3>5, <4>1
        <5>2. q - 1 \in Nat /\ from[k] = (q - 1) * p
          BY <3>3, <3>4, <3>5, <3>6, <4>1, <5>1
        <5> QED BY <5>2
      <4>2. CASE ~ (x - numStates >= p)
        BY <3>5, <3>6, <4>2
      <4> QED BY <4>1, <4>2
    <3>8. from[k] \in Nat /\ numStates <= from[k] /\ from[k] <= 2^digits /\ from[k] - numStates < p
      BY <1>3, <3>3, <3>4, <3>6
    <3>9. from[k] - numStates < 2^(digits + 1 - k)
      BY <3>1, <3>8 DEF p
    <3>10. ASSUME k <= digits PROVE \E b \in Nat : from[k] = b * 2^(digits - k)
      <4>1. digits - k \in Nat /\ digits - k + 1 = size(k)
        BY <2>2, <3>10 DEF size
      <4>2. 2^(digits - k) \in Nat /\ p = 2 * 2^(digits - k)
        <5>1. 2^(digits - k) \in Nat /\ 2^(digits - k + 1) = 2 * 2^(digits - k)
          BY <4>1, PowersOfTwo
        <5> QED BY <4>1, <5>1 DEF p
      <4>3. 2 * c \in Nat /\ from[k] = (2 * c) * 2^(digits - k)
        BY <3>7, <4>2
      <4> QED BY <4>3
    <3>11. Good(k)
      BY <3>8, <3>9, <3>10
    <3> QED BY <2>2, <3>11
  <2> QED BY <2>3, <2>4
<1>11. \A k \in 0..last : Good(k)
  <2>1. \A k \in 0..last : k \in Nat /\ k <= last
    BY <1>2
  <2>2. B = {}
    BY <1>10
  <2> HIDE DEF Good
  <2> QED BY <2>1, <2>2
<1>12. from[last] = numStates /\ from[0] = 2^digits
  <2>0. last \in 0..last /\ 0 \in 0..last /\ last \in Nat /\ digits + 1 - last = 0
    BY <1>2
  <2>1. Good(last)
    <3> HIDE DEF Good
    <3> QED BY <1>11, <2>0
  <2>2. from[last] - numStates < 1 /\ from[last] \in Nat /\ numStates <= from[last]
    BY <2>0, <2>1, PowersOfTwo
  <2> QED BY <2>0, <1>9, <2>2
\* A block lies between two values of from.
<1>13. ASSUME NEW k \in 1..last, from[k] # from[k - 1]
       PROVE  /\ from[k - 1] = from[k] + 2^size(k) /\ from[k] \in Nat /\ numStates <= from[k]
              /\ from[k - 1] <= 2^digits /\ size(k) \in 0..digits /\ 2^size(k) \in Nat \ {0}
              /\ \E q \in Nat : from[k] = q * 2^size(k)
  <2> DEFINE p == 2^size(k)
             x == from[k - 1]
  <2>1. k \in 0..last /\ k - 1 \in 0..last /\ k # 0 /\ k \in Nat /\ k - 1 <= digits
        /\ digits - (k - 1) = size(k)
    BY <1>2 DEF size
  <2>2. Good(k) /\ Good(k - 1)
    <3> HIDE DEF Good
    <3> QED BY <1>11, <2>1
  <2>3. from[k] = IF x - numStates >= p THEN x - p ELSE x
    BY <1>9, <2>1
  <2>4. p \in Nat /\ p > 0 /\ x \in Nat /\ from[k] = x - p /\ x - numStates >= p
    BY <1>3, <1>13, <2>2, <2>3
  <2>5. \E q \in Nat : x = q * p
    <3>1. \E q \in Nat : x = q * 2^(digits - (k - 1))
      BY <2>1, <2>2
    <3> QED BY <2>1, <3>1
  <2>6. from[k] \in Nat /\ numStates <= from[k] /\ x <= 2^digits
    BY <2>2
  <2> HIDE DEF p, x
  <2>7. PICK q \in Nat : x = q * p
    BY <2>5
  <2>8. q # 0
    BY <2>4, <2>6, <2>7
  <2>9. q - 1 \in Nat /\ from[k] = (q - 1) * p
    BY <2>4, <2>7, <2>8
  <2>10. size(k) \in 0..digits
    BY <1>2 DEF size
  <2>11. x = from[k] + p /\ p \in Nat \ {0}
    BY <2>4
  <2> QED BY <2>6, <2>9, <2>10, <2>11 DEF p, x
<1>14. ASSUME NEW n \in 0..(2^digits - 1), n >= numStates
       PROVE  \E k \in 1..last : from[k] # from[k - 1] /\ from[k] <= n /\ n < from[k - 1]
  <2> DEFINE K == {k \in Nat : k <= last /\ from[k] <= n}
  <2>1. n \in Nat /\ n < 2^digits
    BY <1>3
  <2>2. last \in K
    BY <1>2, <1>12, <1>14
  <2>3. PICK k \in K : \A y \in K : k <= y
    <3>1. K \subseteq Nat
      OBVIOUS
    <3> HIDE DEF K
    <3> QED BY <2>2, <3>1, LeastNumber
  <2>4. k \in Nat /\ k <= last /\ from[k] <= n
    OBVIOUS
  <2>5. k # 0
    BY <1>3, <1>12, <2>1, <2>4
  <2>6. k \in 1..last /\ k - 1 \in Nat /\ k - 1 <= last /\ ~ (k <= k - 1) /\ k \in 0..last /\ k - 1 \in 0..last
    BY <1>2, <2>4, <2>5
  <2>7. ~ (from[k - 1] <= n)
    BY <2>3, <2>6
  <2>8. Good(k - 1) /\ Good(k)
    <3> HIDE DEF Good
    <3> QED BY <1>11, <2>6
  <2>9. from[k - 1] \in Nat /\ from[k] \in Nat
    BY <2>8
  <2> QED BY <2>1, <2>4, <2>6, <2>7, <2>9
<1> HIDE DEF Good, last
<1>15. ASSUME NEW b \in ForbiddenBlocks(digits, numStates)
       PROVE  /\ b[2] \in 0..digits /\ b[1] \in 0..(2^digits - 1)
              /\ \E q \in Nat : b[1] = q * 2^b[2]
              /\ \A n \in 0..(2^digits - 1) : b[1] <= n /\ n < b[1] + 2^b[2] => n >= numStates
  <2>1. PICK k \in 1..last : from[k] # from[k - 1] /\ b = <<from[k], size(k)>>
    BY <1>1
  <2>2. b[1] = from[k] /\ b[2] = size(k)
    BY <2>1
  <2> DEFINE p == 2^size(k)
             x == from[k]
  <2>3. /\ from[k - 1] = x + p /\ x \in Nat /\ numStates <= x
        /\ from[k - 1] <= 2^digits /\ size(k) \in 0..digits /\ p \in Nat \ {0}
        /\ \E q \in Nat : x = q * p
    BY <1>13, <2>1
  <2>4. x \in 0..(2^digits - 1)
    BY <1>3, <2>3
  <2>5. \A n \in 0..(2^digits - 1) : x <= n => n >= numStates
    BY <1>3, <2>3
  <2> QED BY <2>2, <2>3, <2>4, <2>5
<1>16. ASSUME NEW n \in 0..(2^digits - 1), n >= numStates
       PROVE  \E b \in ForbiddenBlocks(digits, numStates) : b[1] <= n /\ n < b[1] + 2^b[2]
  <2>1. PICK k \in 1..last : from[k] # from[k - 1] /\ from[k] <= n /\ n < from[k - 1]
    BY <1>14, <1>16
  <2> DEFINE b == <<from[k], size(k)>>
  <2>2. b \in ForbiddenBlocks(digits, numStates)
    BY <1>1, <2>1
  <2>3. from[k - 1] = from[k] + 2^size(k)
    BY <1>13, <2>1
  <2>4. b[1] <= n /\ n < b[1] + 2^b[2]
    BY <2>1, <2>3
  <2> QED BY <2>2, <2>4
<1> QED BY <1>15, <1>16

-----------------------------------------------------------------------------
(* The binary and the pairwise at-most-one constraint.                     *)

\* Numbers below a power of two with the same digits are the same.
LEMMA DigitsDetermine ==
  ASSUME NEW d \in Nat, NEW a \in 0..(2^d - 1), NEW b \in 0..(2^d - 1)
  PROVE  (\A i \in 0..(d - 1) : Bit(a, i) = Bit(b, i)) <=> a = b
<1>1. 2^d \in Nat /\ 2^0 = 1 /\ 0 \in 0..d
  BY PowersOfTwo
<1>2. a \in Nat /\ b \in Nat
  BY <1>1
<1>3. \A n \in Nat : n \div 1 = n
  <2> SUFFICES ASSUME NEW n \in Nat PROVE n \div 1 = n
    OBVIOUS
  <2>1. n = 1 * n + 0
    OBVIOUS
  <2> QED BY <2>1, DivisionUnique
<1>4. a \div 2^0 = a /\ b \div 2^0 = b
  BY <1>1, <1>2, <1>3
<1>5. (\A i \in 0..(d - 1) : Bit(a, i) = Bit(b, i)) <=> a \div 2^0 = b \div 2^0
  BY <1>1, UpperDigits
<1> QED BY <1>4, <1>5

\* The digit variables spell a number.
DigitVars(first, digits) == first..(first + digits - 1)
Spells(ds, first, digits, n) == \A i \in 0..(digits - 1) : first + i \in ds <=> Bit(n, i) = 1
Spelling(first, digits, n) == {first + i : i \in {j \in 0..(digits - 1) : Bit(n, j) = 1}}

\* Every number below 2^digits has one spelling, and every choice of digits
\* spells such a number: there are as many of the one as of the other.
LEMMA SpellingIs ==
  ASSUME NEW first \in Nat, NEW digits \in Nat, NEW n
  PROVE  /\ Spelling(first, digits, n) \subseteq DigitVars(first, digits)
         /\ Spells(Spelling(first, digits, n), first, digits, n)
<1>1. \A i \in 0..(digits - 1) : first + i \in DigitVars(first, digits)
  BY DEF DigitVars
<1>2. \A i, j \in 0..(digits - 1) : first + i = first + j => i = j
  OBVIOUS
<1> QED BY <1>1, <1>2 DEF Spelling, Spells

LEMMA EveryDigitsSpell ==
  ASSUME NEW first \in Nat, NEW digits \in Nat, NEW ds \in SUBSET DigitVars(first, digits)
  PROVE  \E n \in 0..(2^digits - 1) : Spells(ds, first, digits, n)
<1> DEFINE S == 0..(2^digits - 1)
           T == SUBSET DigitVars(first, digits)
           f == [n \in S |-> Spelling(first, digits, n)]
<1>1. 2^digits \in Nat /\ 2^digits > 0
  BY PowersOfTwo
<1>2. IsFiniteSet(S) /\ Cardinality(S) = 2^digits
  <2> DEFINE p == 2^digits
  <2>1. p - 1 \in Int /\ ~ (0 > p - 1) /\ p - 1 - 0 + 1 = p
    BY <1>1
  <2> HIDE DEF p
  <2>2. IsFiniteSet(0..(p - 1)) /\ Cardinality(0..(p - 1)) = IF 0 > p - 1 THEN 0 ELSE p - 1 - 0 + 1
    BY <2>1, FS_Interval
  <2>3. Cardinality(0..(p - 1)) = p
    BY <2>1, <2>2
  <2> QED BY <2>2, <2>3 DEF p
<1>3. IsFiniteSet(T) /\ Cardinality(T) = 2^digits
  <2> DEFINE V == DigitVars(first, digits)
  <2>1. IsFiniteSet(V) /\ Cardinality(V) = digits
    <3>1. first + digits - 1 \in Int /\ first \in Int
      OBVIOUS
    <3>2. IsFiniteSet(V) /\ Cardinality(V) = IF first > first + digits - 1 THEN 0 ELSE first + digits - 1 - first + 1
      BY <3>1, FS_Interval DEF DigitVars
    <3> HIDE DEF V
    <3> QED BY <3>2
  <2>2. IsFiniteSet(SUBSET V) /\ Cardinality(SUBSET V) = 2^Cardinality(V)
    BY <2>1, FS_SUBSET
  <2> HIDE DEF V
  <2>3. Cardinality(SUBSET V) = 2^digits
    BY <2>1, <2>2, Zenon
  <2> QED BY <2>2, <2>3 DEF V
<1>4. f \in [S -> T]
  BY SpellingIs
<1>5. \A a, b \in S : f[a] = f[b] => a = b
  <2> SUFFICES ASSUME NEW a \in S, NEW b \in S, f[a] = f[b] PROVE a = b
    OBVIOUS
  <2>1. Spells(f[a], first, digits, a) /\ Spells(f[a], first, digits, b)
    BY SpellingIs
  <2>2. a \in Nat /\ b \in Nat
    BY <1>1
  <2> HIDE DEF f
  <2>3. ASSUME NEW i \in 0..(digits - 1) PROVE Bit(a, i) \in {0, 1} /\ Bit(b, i) \in {0, 1}
    <3>1. i \in Nat
      OBVIOUS
    <3> HIDE DEF S, T
    <3> QED BY <2>2, <3>1, HalvesAndBits
  <2>4. \A i \in 0..(digits - 1) : Bit(a, i) = Bit(b, i)
    BY <2>1, <2>3 DEF Spells
  <2> QED BY <2>4, DigitsDetermine
<1>6. f \in Injection(S, T)
  <2> HIDE DEF f, S, T
  <2> QED BY <1>4, <1>5 DEF Injection, IsInjective
<1>7. f \in Surjection(S, T)
  <2>1. Cardinality(S) = Cardinality(T)
    BY <1>2, <1>3, Zenon
  <2> HIDE DEF f, S, T
  <2> QED BY <1>2, <1>3, <1>6, <2>1, FS_Injection
<1>8. PICK n \in S : f[n] = ds
  <2> HIDE DEF f, S
  <2> QED BY <1>7 DEF Surjection
<1> QED BY <1>8, SpellingIs

\* A literal under an assignment.
LitHolds(lit, S) == IF lit > 0 THEN lit \in S ELSE -lit \notin S

\* A literal of a digit clause holds where the digits differ from the clause's.
LEMMA DigitLiteral ==
  ASSUME NEW e \in Nat, NEW digits \in Nat, NEW true \in SUBSET (1..e),
         NEW ds \in SUBSET DigitVars(e + 1, digits), NEW n \in Nat, Spells(ds, e + 1, digits, n),
         NEW m \in Nat, NEW i \in 1..digits
  PROVE  LET lit == DigitClause(m, digits, e + 1)[i]
         IN /\ LitHolds(lit, true \cup ds) <=> Bit(m, i - 1) # Bit(n, i - 1)
            /\ LitHolds(-lit, true \cup ds) <=> Bit(m, i - 1) = Bit(n, i - 1)
<1> DEFINE v == e + 1 + i - 1
           lit == DigitClause(m, digits, e + 1)[i]
<1>1. v \in Nat /\ v > 0 /\ v \notin true /\ i - 1 \in 0..(digits - 1) /\ i - 1 \in Nat /\ e + 1 + (i - 1) = v
  OBVIOUS
<1>2. v \in ds <=> Bit(n, i - 1) = 1
  BY <1>1 DEF Spells
<1>3. Bit(n, i - 1) \in {0, 1} /\ Bit(m, i - 1) \in {0, 1}
  BY <1>1, HalvesAndBits
<1>4. lit = IF Bit(m, i - 1) = 1 THEN -v ELSE v
  BY DEF DigitClause
<1>5. v \in true \cup ds <=> Bit(n, i - 1) = 1
  BY <1>1, <1>2
<1> HIDE DEF v, lit
<1>6. CASE Bit(m, i - 1) = 1
  <2>1. lit = -v /\ -lit = v /\ ~ (lit > 0) /\ -lit > 0
    BY <1>1, <1>4, <1>6
  <2> QED BY <1>3, <1>5, <1>6, <2>1 DEF LitHolds, lit
<1>7. CASE Bit(m, i - 1) # 1
  <2>1. lit = v /\ -(-lit) = v /\ lit > 0 /\ ~ (-lit > 0)
    BY <1>1, <1>4, <1>7
  <2> QED BY <1>3, <1>5, <1>7, <2>1 DEF LitHolds, lit
<1> QED BY <1>6, <1>7

States(e) == [i \in 1..e |-> i]
ClausesHold(e, numStates, S) ==
    \A clause \in BinaryAtMostOne(States(e), numStates, e + 1) : \E lit \in clause : LitHolds(lit, S)

\* With the digits of n, the clauses say that n is a code and that the element
\* with this code is the one that is true.
LEMMA ClausesSay ==
  ASSUME NEW e \in Nat, NEW numStates \in Nat, numStates > 1, e <= numStates,
         NEW true \in SUBSET (1..e),
         NEW ds \in SUBSET DigitVars(e + 1, NumDigits(numStates)),
         NEW n \in 0..(2^NumDigits(numStates) - 1), Spells(ds, e + 1, NumDigits(numStates), n)
  PROVE  ClausesHold(e, numStates, true \cup ds)
           <=> n < numStates /\ \A s \in 1..e : s \in true <=> s - 1 = n
<1> DEFINE digits == NumDigits(numStates)
           S == true \cup ds
           code(s) == DigitClause(s, digits, e + 1)
           A == UNION {{{-s, -code(s - 1)[i]} : i \in 1..digits} : s \in 1..e}
           C == {ToSet(code(s - 1)) \cup {s} : s \in 1..e}
           F == {{code(b[1])[i] : i \in (b[2] + 1)..digits} : b \in ForbiddenBlocks(digits, numStates)}
           Same(m) == \A i \in 1..digits : Bit(m, i - 1) = Bit(n, i - 1)
           Sat(cs) == \A clause \in cs : \E lit \in clause : LitHolds(lit, S)
<1>1. digits \in Nat /\ 2^digits \in Nat /\ 2^digits >= numStates
  BY DigitsSuffice, PowersOfTwo
<1>2. n \in Nat
  BY <1>1
<1>3. ASSUME NEW m \in Nat, NEW i \in 1..digits
      PROVE  /\ LitHolds(code(m)[i], S) <=> Bit(m, i - 1) # Bit(n, i - 1)
             /\ LitHolds(-code(m)[i], S) <=> Bit(m, i - 1) = Bit(n, i - 1)
  <2> HIDE DEF digits
  <2>1. ds \in SUBSET DigitVars(e + 1, digits) /\ Spells(ds, e + 1, digits, n)
    BY DEF digits
  <2> QED BY <1>1, <1>2, <2>1, DigitLiteral
<1>4. \A s \in 1..e : s - 1 \in Nat /\ s - 1 \in 0..(2^digits - 1)
  BY <1>1
<1>5. ClausesHold(e, numStates, S) <=> Sat(A) /\ Sat(C) /\ Sat(F)
  <2>1. DOMAIN States(e) = 1..e /\ \A s \in 1..e : States(e)[s] = s
    BY DEF States
  <2>2. BinaryAtMostOne(States(e), numStates, e + 1) =
          (UNION {{{-States(e)[s], -code(s - 1)[i]} : i \in 1..digits} : s \in DOMAIN States(e)})
          \cup {ToSet(code(s - 1)) \cup {States(e)[s]} : s \in DOMAIN States(e)}
          \cup F
    <3>1. ~ (numStates <= 1)
      OBVIOUS
    <3> QED BY <3>1, Zenon DEF BinaryAtMostOne
  <2> HIDE DEF code, digits
  <2>3. (UNION {{{-States(e)[s], -code(s - 1)[i]} : i \in 1..digits} : s \in DOMAIN States(e)}) = A
    <3> DEFINE B(s) == {{-s, -code(s - 1)[i]} : i \in 1..digits}
               D(s) == {{-States(e)[s], -code(s - 1)[i]} : i \in 1..digits}
    <3>1. \A s \in 1..e : D(s) = B(s)
      BY <2>1, Zenon
    <3> HIDE DEF B, D
    <3>2. UNION {D(s) : s \in DOMAIN States(e)} = UNION {B(s) : s \in 1..e}
      BY <2>1, <3>1
    <3> QED BY <3>2 DEF B, D
  <2>4. {ToSet(code(s - 1)) \cup {States(e)[s]} : s \in DOMAIN States(e)} = C
    BY <2>1
  <2> HIDE DEF A, C, F
  <2>5. BinaryAtMostOne(States(e), numStates, e + 1) = A \cup C \cup F
    BY <2>2, <2>3, <2>4
  <2> QED BY <2>5 DEF ClausesHold
<1>6. \A m \in Nat : DOMAIN code(m) = 1..digits
  BY DEF DigitClause
<1>7. \A s \in 1..e : /\ LitHolds(s, S) <=> s \in true
                      /\ LitHolds(-s, S) <=> s \notin true
  <2> SUFFICES ASSUME NEW s \in 1..e
               PROVE  /\ LitHolds(s, S) <=> s \in true
                      /\ LitHolds(-s, S) <=> s \notin true
    OBVIOUS
  <2>1. s \notin ds
    <3>1. \A v \in DigitVars(e + 1, digits) : v \in Int /\ v > e
      BY <1>1 DEF DigitVars
    <3> QED BY <3>1
  <2>2. s > 0 /\ ~ (-s > 0) /\ -(-s) = s
    OBVIOUS
  <2> QED BY <2>1, <2>2 DEF LitHolds
<1> HIDE DEF S
<1>8. Sat(A) <=> \A s \in 1..e : s \in true => Same(s - 1)
  <2>1. \A s \in 1..e : \A i \in 1..digits :
          (\E lit \in {-s, -code(s - 1)[i]} : LitHolds(lit, S))
            <=> s \notin true \/ Bit(s - 1, i - 1) = Bit(n, i - 1)
    <3> SUFFICES ASSUME NEW s \in 1..e, NEW i \in 1..digits
                 PROVE  (\E lit \in {-s, -code(s - 1)[i]} : LitHolds(lit, S))
                          <=> s \notin true \/ Bit(s - 1, i - 1) = Bit(n, i - 1)
      OBVIOUS
    <3>1. (\E lit \in {-s, -code(s - 1)[i]} : LitHolds(lit, S)) <=> LitHolds(-s, S) \/ LitHolds(-code(s - 1)[i], S)
      OBVIOUS
    <3> HIDE DEF code
    <3> QED BY <1>3, <1>4, <1>7, <3>1
  <2> HIDE DEF code, digits
  <2>2. Sat(A) <=> \A s \in 1..e : \A i \in 1..digits : \E lit \in {-s, -code(s - 1)[i]} : LitHolds(lit, S)
    <3>1. ASSUME Sat(A), NEW s \in 1..e, NEW i \in 1..digits
          PROVE  \E lit \in {-s, -code(s - 1)[i]} : LitHolds(lit, S)
      <4> DEFINE B(t) == {{-t, -code(t - 1)[j]} : j \in 1..digits}
      <4>1. {-s, -code(s - 1)[i]} \in B(s)
        OBVIOUS
      <4>2. A = UNION {B(t) : t \in 1..e}
        BY Zenon
      <4> HIDE DEF A, B
      <4>3. {-s, -code(s - 1)[i]} \in A
        BY <4>1, <4>2
      <4> QED BY <3>1, <4>3
    <3>2. ASSUME \A s \in 1..e : \A i \in 1..digits : \E lit \in {-s, -code(s - 1)[i]} : LitHolds(lit, S),
                 NEW c \in A
          PROVE  \E lit \in c : LitHolds(lit, S)
      <4>1. PICK s \in 1..e, i \in 1..digits : c = {-s, -code(s - 1)[i]}
        OBVIOUS
      <4>2. \E lit \in {-s, -code(s - 1)[i]} : LitHolds(lit, S)
        BY <3>2
      <4> HIDE DEF A
      <4> QED BY <4>1, <4>2, Zenon
    <3> QED BY <3>1, <3>2
  <2> QED BY <2>1, <2>2
<1>9. Sat(C) <=> \A s \in 1..e : Same(s - 1) => s \in true
  <2>1. \A s \in 1..e : (\E lit \in ToSet(code(s - 1)) \cup {s} : LitHolds(lit, S)) <=> (Same(s - 1) => s \in true)
    <3> SUFFICES ASSUME NEW s \in 1..e
                 PROVE  (\E lit \in ToSet(code(s - 1)) \cup {s} : LitHolds(lit, S)) <=> (Same(s - 1) => s \in true)
      OBVIOUS
    <3>1. ToSet(code(s - 1)) = {code(s - 1)[i] : i \in 1..digits}
      BY <1>4, <1>6 DEF ToSet
    <3> HIDE DEF code
    <3> QED BY <1>3, <1>4, <1>7, <3>1
  <2> HIDE DEF code, digits, Same
  <2>2. Sat(C) <=> \A s \in 1..e : \E lit \in ToSet(code(s - 1)) \cup {s} : LitHolds(lit, S)
    BY Zenon
  <2> QED BY <2>1, <2>2
<1>10. \A m \in 0..(2^digits - 1) : Same(m) <=> m = n
  <2> SUFFICES ASSUME NEW m \in 0..(2^digits - 1) PROVE Same(m) <=> m = n
    OBVIOUS
  <2>1. Same(m) <=> \A i \in 0..(digits - 1) : Bit(m, i) = Bit(n, i)
    <3>1. \A i \in 0..(digits - 1) : i + 1 \in 1..digits /\ i + 1 - 1 = i
      BY <1>1
    <3>2. \A i \in 1..digits : i - 1 \in 0..(digits - 1)
      BY <1>1
    <3>3. ASSUME Same(m), NEW i \in 0..(digits - 1) PROVE Bit(m, i) = Bit(n, i)
      <4>1. Bit(m, i + 1 - 1) = Bit(n, i + 1 - 1)
        BY <3>1, <3>3
      <4> QED BY <3>1, <4>1
    <3>4. ASSUME \A i \in 0..(digits - 1) : Bit(m, i) = Bit(n, i) PROVE Same(m)
      BY <3>2, <3>4
    <3> QED BY <3>3, <3>4
  <2> HIDE DEF digits
  <2>2. n \in 0..(2^digits - 1)
    BY DEF digits
  <2> QED BY <1>1, <2>1, <2>2, DigitsDetermine
<1>11. Sat(F) <=> n < numStates
  <2> DEFINE Bl == ForbiddenBlocks(digits, numStates)
  <2>0. n \in 0..(2^digits - 1)
    OBVIOUS
  <2>1. /\ \A b \in Bl : /\ b[2] \in 0..digits /\ b[1] \in 0..(2^digits - 1)
                         /\ \E q \in Nat : b[1] = q * 2^b[2]
        /\ n >= numStates <=> \E b \in Bl : b[1] <= n /\ n < b[1] + 2^b[2]
    <3> HIDE DEF digits
    <3> QED BY <1>1, <2>0, BlocksCover
  <2> HIDE DEF Bl
  <2>2. ASSUME NEW b \in Bl
        PROVE  (\E lit \in {code(b[1])[i] : i \in (b[2] + 1)..digits} : LitHolds(lit, S))
                 <=> ~ (b[1] <= n /\ n < b[1] + 2^b[2])
    <3>0. b[1] \in Nat /\ b[2] \in Nat /\ b[2] <= digits /\ b[1] \in 0..(2^digits - 1) /\ b[2] \in 0..digits
      BY <1>1, <2>1
    <3>1. (\E lit \in {code(b[1])[i] : i \in (b[2] + 1)..digits} : LitHolds(lit, S))
            <=> \E i \in (b[2] + 1)..digits : Bit(b[1], i - 1) # Bit(n, i - 1)
      <4>1. \A i \in (b[2] + 1)..digits : i \in 1..digits
        BY <1>1, <3>0
      <4>2. \A i \in (b[2] + 1)..digits : LitHolds(code(b[1])[i], S) <=> Bit(b[1], i - 1) # Bit(n, i - 1)
        BY <1>3, <3>0, <4>1
      <4> HIDE DEF code
      <4> QED BY <4>2
    <3>2. (\E i \in (b[2] + 1)..digits : Bit(b[1], i - 1) # Bit(n, i - 1))
            <=> ~ \A i \in b[2]..(digits - 1) : Bit(n, i) = Bit(b[1], i)
      <4>1. \A i \in b[2]..(digits - 1) : i + 1 \in (b[2] + 1)..digits /\ i + 1 - 1 = i
        BY <1>1, <3>0
      <4>2. \A i \in (b[2] + 1)..digits : i - 1 \in b[2]..(digits - 1)
        BY <1>1, <3>0
      <4>3. ASSUME NEW i \in b[2]..(digits - 1), Bit(n, i) # Bit(b[1], i)
            PROVE  \E j \in (b[2] + 1)..digits : Bit(b[1], j - 1) # Bit(n, j - 1)
        <5>1. Bit(b[1], i + 1 - 1) # Bit(n, i + 1 - 1)
          BY <4>1, <4>3
        <5> QED BY <4>1, <5>1
      <4> QED BY <4>2, <4>3
    <3>3. (\A i \in b[2]..(digits - 1) : Bit(n, i) = Bit(b[1], i)) <=> n \div 2^b[2] = b[1] \div 2^b[2]
      <4> HIDE DEF digits
      <4> QED BY <1>1, <2>0, <3>0, UpperDigits
    <3>4. PICK q \in Nat : b[1] = q * 2^b[2]
      BY <2>1
    <3>5. n \div 2^b[2] = (q * 2^b[2]) \div 2^b[2] <=> q * 2^b[2] <= n /\ n < q * 2^b[2] + 2^b[2]
      BY <1>2, <3>0, BlockIs
    <3>6. n \div 2^b[2] = b[1] \div 2^b[2] <=> b[1] <= n /\ n < b[1] + 2^b[2]
      BY <3>4, <3>5, Zenon
    <3> QED BY <3>1, <3>2, <3>3, <3>6
  <2> HIDE DEF code
  <2>3. Sat(F) <=> \A b \in Bl : \E lit \in {code(b[1])[i] : i \in (b[2] + 1)..digits} : LitHolds(lit, S)
    BY Zenon DEF Bl
  <2>4. n >= numStates <=> ~ (n < numStates)
    BY <1>2
  <2> QED BY <2>1, <2>2, <2>3, <2>4
<1>12. \A s \in 1..e : Same(s - 1) <=> s - 1 = n
  BY <1>4, <1>10
<1> HIDE DEF A, C, F, Same, Sat
<1> QED BY <1>5, <1>8, <1>9, <1>11, <1>12 DEF S

\* Some values of the digits satisfy the clauses exactly when a code below
\* numStates names the variables that are true: the one with that code, or none.
LEMMA DigitsFitIs ==
  ASSUME elements \in Nat, NEW numStates \in Nat, numStates > 1, elements <= numStates,
         NEW true \in SUBSET (1..elements)
  PROVE  DigitsFit(true, States(elements), numStates)
           <=> \E n \in 0..(numStates - 1) : \A s \in 1..elements : s \in true <=> s - 1 = n
<1> DEFINE digits == NumDigits(numStates)
           V == DigitVars(elements + 1, digits)
           Named(n) == \A s \in 1..elements : s \in true <=> s - 1 = n
<1>1. digits \in Nat /\ 2^digits \in Nat /\ 2^digits >= numStates /\ elements + 1 \in Nat
  BY DigitsSuffice, PowersOfTwo
<1>2. V = (elements + 1)..(elements + digits)
  <2> HIDE DEF digits
  <2>1. elements + 1 + digits - 1 = elements + digits
    BY <1>1
  <2> QED BY <2>1, Zenon DEF DigitVars
<1>3. DigitsFit(true, States(elements), numStates)
        <=> \E ds \in SUBSET V : ClausesHold(elements, numStates, true \cup ds)
  BY <1>2, Zenon DEF DigitsFit, ClausesHold, LitHolds
<1>4. ASSUME NEW ds \in SUBSET V, NEW n \in 0..(2^digits - 1), Spells(ds, elements + 1, digits, n)
      PROVE  ClausesHold(elements, numStates, true \cup ds) <=> n < numStates /\ Named(n)
  BY <1>4, ClausesSay
<1>5. ASSUME NEW ds \in SUBSET V, ClausesHold(elements, numStates, true \cup ds)
      PROVE  \E n \in 0..(numStates - 1) : Named(n)
  <2> HIDE DEF digits, Named
  <2>1. PICK n \in 0..(2^digits - 1) : Spells(ds, elements + 1, digits, n)
    BY <1>1, EveryDigitsSpell
  <2>2. n < numStates /\ Named(n)
    BY <1>4, <1>5, <2>1
  <2>3. n \in 0..(numStates - 1)
    BY <1>1, <2>2
  <2> QED BY <2>2, <2>3
<1>6. ASSUME NEW n \in 0..(numStates - 1), Named(n)
      PROVE  \E ds \in SUBSET V : ClausesHold(elements, numStates, true \cup ds)
  <2> HIDE DEF digits, Named
  <2> DEFINE ds == Spelling(elements + 1, digits, n)
  <2>1. ds \in SUBSET V /\ Spells(ds, elements + 1, digits, n)
    BY <1>1, SpellingIs
  <2>2. n \in 0..(2^digits - 1) /\ n < numStates
    BY <1>1
  <2> HIDE DEF ds, V
  <2> QED BY <1>4, <1>6, <2>1, <2>2
<1> QED BY <1>3, <1>5, <1>6

\* At most one element, and exactly one, without counting.
LEMMA CountsAtMostOne ==
  ASSUME NEW e \in Nat, NEW T \in SUBSET (1..e)
  PROVE  /\ Cardinality(T) <= 1 <=> \A s, t \in T : s = t
         /\ Cardinality(T) = 1 <=> \E s : T = {s}
<1>1. IsFiniteSet(T)
  <2>1. IsFiniteSet(1..e)
    BY FS_Interval
  <2> QED BY <2>1, FS_Subset
<1>2. Cardinality(T) \in Nat
  BY <1>1, FS_CardinalityType
<1>3. Cardinality(T) = 0 <=> T = {}
  BY <1>1, FS_EmptySet
<1>4. Cardinality(T) = 1 <=> \E s : T = {s}
  BY <1>1, FS_Singleton
<1>5. (\A s, t \in T : s = t) <=> T = {} \/ \E s : T = {s}
  <2>1. ASSUME \A s, t \in T : s = t, T # {} PROVE \E s : T = {s}
    <3>1. PICK s \in T : TRUE
      BY <2>1
    <3>2. T = {s}
      BY <2>1, <3>1
    <3> QED BY <3>2
  <2> QED BY <2>1
<1>6. Cardinality(T) <= 1 <=> Cardinality(T) = 0 \/ Cardinality(T) = 1
  <2> DEFINE k == Cardinality(T)
  <2>1. k \in Nat
    BY <1>2
  <2> HIDE DEF k
  <2>2. k <= 1 <=> k = 0 \/ k = 1
    BY <2>1
  <2> QED BY <2>2 DEF k
<1> QED BY <1>3, <1>4, <1>5, <1>6, Zenon

\* The three encodings, for any number of variables: with a spare code, the
\* code that names no variable stands for none of them.
LEMMA AtMostOne ==
  ASSUME elements \in Nat
  PROVE  AtMostOneExact
<1> SUFFICES ASSUME NEW true \in SUBSET (1..elements)
             PROVE  /\ DigitsFit(true, States(elements), elements + 1) <=> Cardinality(true) <= 1
                    /\ elements > 1 => (DigitsFit(true, States(elements), elements) <=> Cardinality(true) = 1)
                    /\ (\A c \in PairwiseAtMostOne(States(elements)) : \E lit \in c : -lit \notin true)
                          <=> Cardinality(true) <= 1
  BY Zenon DEF AtMostOneExact, States
<1> DEFINE Named(n) == \A s \in 1..elements : s \in true <=> s - 1 = n
<1>0. (\A s, t \in Int : s - 1 = t - 1 => s = t) /\ \A s \in 1..elements : s \in Int
  OBVIOUS
<1>1. /\ Cardinality(true) <= 1 <=> \A s, t \in true : s = t
      /\ Cardinality(true) = 1 <=> \E s : true = {s}
  BY CountsAtMostOne
<1>2. (\E n \in 0..elements : Named(n)) <=> \A s, t \in true : s = t
  <2>1. ASSUME NEW n \in 0..elements, Named(n), NEW s \in true, NEW t \in true PROVE s = t
    <3>1. s \in 1..elements /\ t \in 1..elements
      OBVIOUS
    <3>2. s - 1 = n /\ t - 1 = n
      BY <2>1, <3>1
    <3>3. s - 1 = t - 1
      BY <3>2, Zenon
    <3> QED BY <1>0, <3>1, <3>3, Zenon
  <2>2. ASSUME \A s, t \in true : s = t PROVE \E n \in 0..elements : Named(n)
    <3>1. CASE true = {}
      <4>1. Named(elements)
        BY <3>1
      <4> QED BY <4>1
    <3>2. CASE true # {}
      <4>1. PICK s \in true : TRUE
        BY <3>2
      <4>2. s - 1 \in 0..elements
        OBVIOUS
      <4>3. Named(s - 1)
        <5>1. \A t \in 1..elements : t \in true <=> t = s
          BY <2>2, <4>1
        <5>2. s \in Int
          BY <1>0
        <5>3. \A t \in 1..elements : t - 1 = s - 1 <=> t = s
          BY <1>0, <5>2, Zenon
        <5> QED BY <5>1, <5>3, Zenon
      <4> QED BY <4>2, <4>3
    <3> QED BY <3>1, <3>2
  <2> QED BY <2>1, <2>2
<1>3. (\E n \in 0..(elements - 1) : Named(n)) <=> \E s : true = {s}
  <2>1. ASSUME NEW n \in 0..(elements - 1), Named(n) PROVE true = {n + 1}
    <3>1. n + 1 \in 1..elements /\ n + 1 - 1 = n
      OBVIOUS
    <3>2. n + 1 \in true
      BY <2>1, <3>1
    <3>3. \A s \in true : s = n + 1
      BY <2>1
    <3> QED BY <3>2, <3>3
  <2>2. ASSUME NEW s, true = {s} PROVE \E n \in 0..(elements - 1) : Named(n)
    <3>1. s \in 1..elements
      BY <2>2
    <3>2. s - 1 \in 0..(elements - 1)
      BY <3>1
    <3>3. Named(s - 1)
      <4>1. \A t \in 1..elements : t \in true <=> t = s
        BY <2>2
      <4>2. \A t \in 1..elements : t - 1 = s - 1 <=> t = s
        BY <1>0, <3>1, Zenon
      <4> QED BY <4>1, <4>2, Zenon
    <3> QED BY <3>2, <3>3
  <2> QED BY <2>1, <2>2
<1> HIDE DEF Named
<1>4. DigitsFit(true, States(elements), elements + 1) <=> Cardinality(true) <= 1
  <2>1. CASE elements = 0
    <3>1. elements + 1 <= 1 /\ true = {}
      BY <2>1
    <3>2. DigitsFit(true, States(elements), elements + 1)
      BY <3>1 DEF DigitsFit, BinaryAtMostOne
    <3> QED BY <1>1, <3>1, <3>2
  <2>2. CASE elements # 0
    <3>1. PICK numStates \in Nat : numStates = elements + 1
      OBVIOUS
    <3>2. numStates > 1 /\ elements <= numStates /\ numStates - 1 = elements
      BY <2>2, <3>1
    <3>3. DigitsFit(true, States(elements), numStates) <=> \E n \in 0..(numStates - 1) : Named(n)
      BY <3>2, DigitsFitIs DEF Named
    <3>4. DigitsFit(true, States(elements), numStates) <=> \E n \in 0..elements : Named(n)
      BY <3>2, <3>3, Zenon
    <3>5. DigitsFit(true, States(elements), elements + 1) <=> \E n \in 0..elements : Named(n)
      BY <3>1, <3>4, Zenon
    <3> QED BY <1>1, <1>2, <3>5
  <2> QED BY <2>1, <2>2
<1>5. ASSUME elements > 1
      PROVE  DigitsFit(true, States(elements), elements) <=> Cardinality(true) = 1
  <2>1. DigitsFit(true, States(elements), elements) <=> \E n \in 0..(elements - 1) : Named(n)
    BY <1>5, DigitsFitIs DEF Named
  <2> QED BY <1>1, <1>3, <2>1
<1>6. (\A c \in PairwiseAtMostOne(States(elements)) : \E lit \in c : -lit \notin true)
        <=> \A s, t \in true : s = t
  <2> DEFINE Row(i) == {{-i, -j} : j \in (i + 1)..elements}
  <2>1. PairwiseAtMostOne(States(elements)) = UNION {Row(i) : i \in 1..elements}
    <3>1. DOMAIN States(elements) = 1..elements /\ Len(States(elements)) = elements
      <4>1. States(elements) \in Seq(Nat)
        BY DEF States
      <4>2. DOMAIN States(elements) = 1..elements
        BY DEF States
      <4> QED BY <4>1, <4>2, LenProperties
    <3>2. \A i \in 1..elements : \A j \in (i + 1)..elements : States(elements)[i] = i /\ States(elements)[j] = j
      <4>1. \A i \in 1..elements : States(elements)[i] = i
        BY DEF States
      <4>2. \A i \in 1..elements : \A j \in (i + 1)..elements : j \in 1..elements
        OBVIOUS
      <4> QED BY <4>1, <4>2
    <3> DEFINE Got(i) == {{-States(elements)[i], -States(elements)[j]} : j \in (i + 1)..Len(States(elements))}
    <3>3. ASSUME NEW i \in 1..elements PROVE Got(i) = Row(i)
      BY <3>1, <3>2
    <3>4. PairwiseAtMostOne(States(elements)) = UNION {Got(i) : i \in DOMAIN States(elements)}
      BY Zenon DEF PairwiseAtMostOne
    <3> HIDE DEF Got, Row
    <3> QED BY <3>1, <3>3, <3>4
  <2>2. (\A c \in PairwiseAtMostOne(States(elements)) : \E lit \in c : -lit \notin true)
          <=> \A i \in 1..elements : \A c \in Row(i) : \E lit \in c : -lit \notin true
    <3> HIDE DEF Row
    <3> QED BY <2>1
  <2>3. ASSUME NEW i \in 1..elements
        PROVE  (\A c \in Row(i) : \E lit \in c : -lit \notin true)
                 <=> \A j \in (i + 1)..elements : i \notin true \/ j \notin true
    <3>1. \A j \in (i + 1)..elements : (\E lit \in {-i, -j} : -lit \notin true) <=> i \notin true \/ j \notin true
      <4> SUFFICES ASSUME NEW j \in (i + 1)..elements
                   PROVE  (\E lit \in {-i, -j} : -lit \notin true) <=> i \notin true \/ j \notin true
        OBVIOUS
      <4>1. -(-i) = i /\ -(-j) = j
        OBVIOUS
      <4> QED BY <4>1, Zenon
    <3>2. (\A c \in Row(i) : \E lit \in c : -lit \notin true)
            <=> \A j \in (i + 1)..elements : \E lit \in {-i, -j} : -lit \notin true
      <4> DEFINE J == (i + 1)..elements
                 False(c) == \E lit \in c : -lit \notin true
      <4>1. (\A c \in {{-i, -j} : j \in J} : False(c)) <=> \A j \in J : False({-i, -j})
        <5> HIDE DEF J, False
        <5> QED BY Zenon
      <4> QED BY <4>1, Zenon
    <3> QED BY <3>1, <3>2
  <2> HIDE DEF Row
  <2>4. (\A i \in 1..elements : \A j \in (i + 1)..elements : i \notin true \/ j \notin true)
          <=> \A s, t \in true : s = t
    <3>1. ASSUME \A i \in 1..elements : \A j \in (i + 1)..elements : i \notin true \/ j \notin true,
                 NEW s \in true, NEW t \in true
          PROVE  s = t
      <4>1. s \in 1..elements /\ t \in 1..elements
        OBVIOUS
      <4>2. ~ (s < t)
        <5>1. s < t => t \in (s + 1)..elements
          BY <4>1
        <5> QED BY <3>1, <4>1, <5>1
      <4>3. ~ (t < s)
        <5>1. t < s => s \in (t + 1)..elements
          BY <4>1
        <5> QED BY <3>1, <4>1, <5>1
      <4> QED BY <4>1, <4>2, <4>3
    <3>2. ASSUME \A s, t \in true : s = t, NEW i \in 1..elements, NEW j \in (i + 1)..elements
          PROVE  i \notin true \/ j \notin true
      <4>1. i # j
        OBVIOUS
      <4> QED BY <3>2, <4>1
    <3> QED BY <3>1, <3>2
  <2> QED BY <2>2, <2>3, <2>4
<1> QED BY <1>1, <1>4, <1>5, <1>6

\* The binary constraint with a spare code (at-most-one), the one without
\* (exactly one) and the pairwise one say what they should of any number of
\* variables (BinaryAtMostOne::encode, and the loop over pairs at the end of
\* Encoding::encodeOperationConstraints).
THEOREM AtMostOneIsExact == Spec => []AtMostOneExact
<1>1. TypeOK => AtMostOneExact
  <2> SUFFICES ASSUME TypeOK PROVE elements \in Nat
    BY AtMostOne
  <2>1. MaxElements \in Nat
    BY BoundsAssumption
  <2> QED BY <2>1 DEF TypeOK
<1> QED BY <1>1, TypesCorrect, PTL
=============================================================================
