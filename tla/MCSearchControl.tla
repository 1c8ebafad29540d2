-------------------------- MODULE MCSearchControl --------------------------
(***************************************************************************)
(* Small instances of SearchControl: the planning problems are all ways in *)
(* which plans of each length can first appear at some layer; the command  *)
(* lines are chosen per question.                                          *)
(***************************************************************************)
EXTENDS SearchControl

CONSTANTS MCParams  \* the command lines of a run

Never == LayerBound + 1

\* first[n]: the first layer with a plan of length n.
FromFirst(first, low, dead) ==
  [lengths |-> [l \in Layers |-> {n \in Lengths : first[n] <= l}],
   lower   |-> [l \in Layers |-> low],
   dead    |-> dead]

MCProblems ==
  LET firsts == [Lengths -> Layers \cup {Never}]
      NoPlanAtAll(f) == \A n \in Lengths : f[n] = Never
  IN {FromFirst(f, low, IF NoPlanAtAll(f) THEN dead ELSE Never) :
        f \in firsts, low \in {0, 1}, dead \in {1, Never}}

\* The first layer with a plan (Never if there is none).
FirstLayer(prob) ==
  CHOOSE l \in Layers \cup {Never} :
    /\ l # Never => prob.lengths[l] # {}
    /\ \A k \in Layers : k < l => prob.lengths[k] = {}

\* Lower bounds are bounds; and the search has to end within the layers of
\* the model, by -D or by a plan (one layer later if a limit can strike).
Fits(p, prob) ==
  LET extras == IF p.el > 0 THEN p.el ELSE 0
      start  == IF FirstLayer(prob) < p.d THEN p.d ELSE FirstLayer(prob)
  IN /\ \A l \in Layers : \A n \in prob.lengths[l] : prob.lower[l] <= n
     /\ IF p.D > 0 THEN p.D + extras <= LayerBound
        ELSE /\ p.el >= 0
             /\ \/ start + extras + (IF p.stl THEN 1 ELSE 0) <= LayerBound
                \/ prob.dead < LayerBound /\ p.cs /\ ~p.stl

MCInstances ==
  {inst \in [params : MCParams, problem : MCProblems] :
     Fits(inst.params, inst.problem)}

\* The default command line (util/params.cpp).
Default == [d |-> 0, D |-> 0, el |-> 0, of |-> 0, cs |-> FALSE,
            stl |-> FALSE, T |-> FALSE, smt |-> FALSE, wf |-> FALSE,
            cleanup |-> FALSE]

\* Every combination of extra layers and optimisation factor, with the
\* options of the search that matter for it.
SafetyParams ==
  {[Default EXCEPT !.el = el, !.of = of, !.D = D, !.T = T, !.stl = stl] :
     el \in {0, 1}, of \in {-1, 0, 1}, D \in {0, 2}, T \in BOOLEAN,
     stl \in BOOLEAN}
  \cup {[Default EXCEPT !.el = -1, !.of = of, !.D = 3, !.stl = stl] :
     of \in {0, 1}, stl \in BOOLEAN}
  \cup {[Default EXCEPT !.d = d, !.cs = cs, !.D = D, !.stl = stl] :
     d \in {0, 1}, cs \in BOOLEAN, D \in {0, 1, 2}, stl \in BOOLEAN}
  \cup {[Default EXCEPT !.smt = TRUE, !.D = 2],
        [Default EXCEPT !.wf = TRUE, !.cleanup = TRUE, !.D = 2]}

\* Command lines that reach every solve and every limit, with a depth limit.
LivenessParams ==
  {[Default EXCEPT !.el = el, !.of = 1, !.D = 2, !.T = TRUE] : el \in {-1, 0, 1}}
  \cup {[Default EXCEPT !.cs = TRUE, !.stl = TRUE, !.D = 2]}

\* One command line per divergence.
ExtraLayerLimit == {[Default EXCEPT !.el = 1, !.stl = TRUE, !.D = 1]}
WriteFormula    == {[Default EXCEPT !.wf = TRUE, !.D = 2]}
AnytimeSearch   == {[Default EXCEPT !.el = -1, !.D = 3]}
FinalLayerOnly  == {[Default EXCEPT !.el = 1, !.D = 2]}
SmtOptimizer    == {[Default EXCEPT !.smt = TRUE, !.of = -1, !.D = 2]}
=============================================================================
