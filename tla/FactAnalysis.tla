----------------------------- MODULE FactAnalysis -----------------------------
(***************************************************************************)
(* FactAnalysis (algo/fact_analysis) and PreconditionInference: which      *)
(* facts may hold at the position under construction, what an operation    *)
(* may change, and which conditions every expansion of a method needs.     *)
(*                                                                         *)
(* The analysis is a record an:                                            *)
(*   pos, neg      facts that may have become true / false in this layer   *)
(*   initialized   facts that have a value at some position of the layer   *)
(*   relevant      facts worth a variable                                  *)
(*   cache         signature -> fact changes already computed for it       *)
(*   full, lifted  method -> fact changes with its arguments as            *)
(*                 placeholders, instantiated or not                       *)
(***************************************************************************)
EXTENDS TaskNetwork, FiniteSetsExt

\* The effects met below the method, for placeholder arguments.
LiftedFactChanges(name) ==
    LET args == [i \in DOMAIN htn.methods[name].args |-> Placeholder(i)]
        changes(node) ==
          CASE IsAction(node) -> ToAction(node).eff
            [] node[1] \in DOMAIN htn.prim -> ToAction(Renamed(node, htn.prim[node[1]])).eff
            [] OTHER -> {}
    IN UNION {changes(n) : n \in Traverse({<<name, args>>}, {})}
Instances(lits) ==
    UNION {IF Args(l[2]) = <<>> THEN {l} ELSE {<<l[1], f>> : f \in FullInstantiation(l[2])} : l \in lits}

\* The tables are filled on demand in the code.
NewAnalysis ==
    LET lifted == [m \in DOMAIN htn.methods |-> LiftedFactChanges(m)]
    IN [pos |-> htn.init, neg |-> {}, initialized |-> {}, relevant |-> {}, cache |-> <<>>,
        full |-> [m \in DOMAIN htn.methods |-> Instances(lifted[m])], lifted |-> lifted]

ResetReachability(an) == [an EXCEPT !.pos = htn.init, !.neg = {}, !.initialized = {}]

IsReachable(an, lit) ==
    IF lit[1] THEN lit[2] \in an.neg \/ lit[2] \notin htn.init ELSE lit[2] \in an.pos
Opposite(lit) == <<~lit[1], lit[2]>>
IsInvariant(an, lit) == ~IsReachable(an, Opposite(lit))
AddReachable(an, lit) ==
    IF lit[1] THEN [an EXCEPT !.neg = @ \cup {lit[2]}] ELSE [an EXCEPT !.pos = @ \cup {lit[2]}]
AddRelevant(an, fact) == [an EXCEPT !.relevant = @ \cup {fact}]
AddInitialized(an, fact) ==
    [an EXCEPT !.initialized = @ \cup {fact},
               !.neg = IF IsReachable(an, <<TRUE, fact>>) THEN @ \cup {fact} ELSE @]

\* A q-fact is reachable when some decoding is; lifted conditions are not
\* checked.
PreconditionReachable(an, lit) ==
    CASE ~IsFullyGround(lit[2]) -> TRUE
      [] HasQConstants(lit[2]) -> \E d \in Decodings(lit[2], <<>>) : IsReachable(an, <<lit[1], d>>)
      [] OTHER -> IsReachable(an, lit)
HasValidPreconditions(an, pre) == \A l \in pre : PreconditionReachable(an, l)

-----------------------------------------------------------------------------
(* Possible fact changes.  The cache is keyed by the signature alone.      *)

ComputeFactChanges(an, sig, table) ==
    LET placeholders == [i \in DOMAIN Args(sig) |-> Placeholder(i)]
    IN SubstLits(table[sig[1]], Substitution(placeholders, Args(sig)))
PossibleFactChanges(an, sig) ==
    CASE IsAction(sig) -> TableAction(sig).eff
      [] sig \in DOMAIN an.cache -> an.cache[sig]
      [] OTHER -> ComputeFactChanges(an, sig, an.full)
Remember(an, sig, table) ==
    IF IsAction(sig) \/ sig \in DOMAIN an.cache THEN an
    ELSE [an EXCEPT !.cache = (sig :> ComputeFactChanges(an, sig, table)) @@ @]
EraseCached(an, sig) == [an EXCEPT !.cache = [s \in DOMAIN @ \ {sig} |-> @[s]]]

-----------------------------------------------------------------------------
(* getReducedArgumentDomains: for each argument the constants some         *)
(* reachable decoding of a precondition has at it; empty when a            *)
(* precondition cannot hold.                                               *)

ReducedArgumentDomains(an, sig, pre) ==
    LET args == Args(sig)
        sorts == GetSorts(sig[1])
        index(t) == {i \in DOMAIN args : args[i] = t /\ \A j \in 1..(i - 1) : args[j] # t}
        isGround(l) == ~HasQConstants(l[2]) /\ IsFullyGround(l[2])
        preSorts(l) == [k \in DOMAIN Args(l[2]) |->
                          LET i == index(Args(l[2])[k]) IN IF i = {} THEN "" ELSE sorts[CHOOSE x \in i : TRUE]]
        decodings(l) == IF isGround(l) THEN {l[2]} ELSE Decodings(l[2], preSorts(l))
        valid(l) == {d \in decodings(l) : IsReachable(an, <<l[1], d>>)}
        occurs(l, i) == {k \in DOMAIN Args(l[2]) : i \in index(Args(l[2])[k])}
        domain(i) ==
          IF \A l \in pre : occurs(l, i) = {} THEN htn.sorts[sorts[i]]
          ELSE UNION {{Args(d)[k] : d \in valid(l), k \in occurs(l, i)} : l \in pre}
    IN IF \E l \in pre : decodings(l) # {} /\ valid(l) = {} THEN <<>>
       ELSE [i \in DOMAIN args |-> domain(i)]

-----------------------------------------------------------------------------
(* Mined preconditions.                                                    *)

FrameArgs(n) == [i \in 1..n |-> <<"c" \o ToString(i - 1)>>]
FreeArg == <<"??_", "">>
Freed(sig) == <<sig[1], [i \in DOMAIN Args(sig) |-> IF IsVariable(Args(sig)[i]) THEN FreeArg ELSE Args(sig)[i]]>>

\* A frame is [pre, eff] over the arguments c0, c1, ...; the result so far is
\* the frames already computed and the recursive calls met.
Frame(frames, sig) ==
    LET f == frames[sig[1]]
        s == Substitution(FrameArgs(Len(Args(sig))), Args(sig))
    IN [pre |-> SubstLits(f.pre, s), eff |-> SubstLits(f.eff, s)]

Absorbed(pre, effects) ==
    \E e \in effects : e[1] = pre[1] /\ (IsUnifiable(e[2], pre[2]) \/ IsUnifiable(pre[2], e[2]))

\* getFactFrame: an action has its own conditions and effects; a method called
\* again below itself its own conditions and everything it may change, lifted;
\* any other method adds up its subtasks: of the conditions all children at a
\* subtask share, those no earlier effect may provide.
RECURSIVE WithFrame(_, _, _, _)
WithFrame(an, res, open, sig) ==
    LET op == <<sig[1], FrameArgs(Len(Args(sig)))>>
        add(r, frame) == [r EXCEPT !.frames = (sig[1] :> frame) @@ @]
        atOffset(acc, task) ==
          LET children == {Freed(c) : c \in ChildrenOfSubtask(task)}
              known == FoldLeft(LAMBDA r, c : WithFrame(an, r, open \cup {op}, c),
                                acc.res, SetToSeq(children))
              child(c) == Frame(known.frames, c)
              shared == {p \in UNION {child(c).pre : c \in children} :
                           \A c \in children : p \in child(c).pre}
          IN [res |-> known,
              pre |-> acc.pre \cup {p \in shared : ~Absorbed(p, acc.eff)},
              eff |-> acc.eff \cup UNION {child(c).eff : c \in children}]
        whole == FoldLeft(atOffset, [res |-> res, pre |-> ToReduction(op).pre, eff |-> {}],
                          ToReduction(op).subtasks)
    IN CASE sig[1] \in DOMAIN res.frames -> res
         [] IsAction(op) -> add(res, [pre |-> ToAction(op).pre, eff |-> ToAction(op).eff])
         [] op \in open ->
              add([res EXCEPT !.recursive = @ \cup {op}],
                  [pre |-> ToReduction(op).pre, eff |-> ComputeFactChanges(an, op, an.lifted)])
         [] OTHER -> add(whole.res, [pre |-> whole.pre, eff |-> whole.eff])

\* PreconditionInference::infer over all methods but the initial one, in one
\* order of the hash map. The recursive calls leave their lifted changes in
\* the cache.
InferFrames(an) ==
    FoldLeft(LAMBDA r, m : WithFrame(an, r, {}, <<m, htn.methods[m].args>>),
             [frames |-> <<>>, recursive |-> {}],
             SetToSeq(DOMAIN htn.methods \ {htn.initRed}))
MinedPreconditions(frames, m) ==
    {l \in Frame(frames, <<m, htn.methods[m].args>>).pre : FreeArg \notin ToSet(Args(l[2]))}
\* With mode 1 they are checked when a method is instantiated, with mode 2
\* they are preconditions like any other.
AddMined(r, mined, mode) ==
    IF mode = 1 THEN [r EXCEPT !.extra = @ \cup (mined \ r.pre)] ELSE [r EXCEPT !.pre = @ \cup mined]
MinedNetwork(inferred, mode) ==
    [htn EXCEPT !.methods =
        [m \in DOMAIN @ |-> IF m = htn.initRed THEN @[m]
                            ELSE AddMined(@[m], MinedPreconditions(inferred.frames, m), mode)]]
MinedCache(an, inferred) == FoldSet(LAMBDA op, a : Remember(a, op, a.lifted), an, inferred.recursive)
=============================================================================
