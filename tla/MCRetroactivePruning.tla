------------------------ MODULE MCRetroactivePruning ------------------------
(***************************************************************************)
(* Small planning domains for RetroactivePruning.  Every operation is a    *)
(* name; actions have one repetition each.                                 *)
(***************************************************************************)
EXTENDS RetroactivePruning

Repetitions(actions) ==
  [a \in {x[1] : x \in actions} \cup {x[2] : x \in actions} |->
     IF \E x \in actions : x[1] = a
     THEN (CHOOSE x \in actions : x[1] = a)[2] ELSE a]

\* Two top level reductions that share a subtask; its methods share the
\* subtask v; one method has a second subtask, which the others pad.
Shared ==
  [init     |-> {"i", "j"},
   subtasks |-> [i |-> <<"t", "u">>, j |-> <<"t">>, m |-> <<"v">>,
                 k |-> <<"v", "w">>],
   fits     |-> [t |-> {"m", "k"}, u |-> {"b"}, v |-> {"a", "c"}, w |-> {"b"}],
   repeat   |-> Repetitions({<<"a", "a'">>, <<"b", "b'">>, <<"c", "c'">>,
                             <<"blank", "blank'">>, <<"goal", "goal'">>}),
   checked  |-> {"b", "b'", "c"},
   effects  |-> {"a", "a'", "c"},
   dominated |-> {}]

\* A recursive method, and a method that has no subtasks.
Recursive ==
  [init     |-> {"i"},
   subtasks |-> [i |-> <<"t">>, r |-> <<"s", "t">>, e |-> <<>>],
   fits     |-> [t |-> {"r", "e"}, s |-> {"a"}],
   repeat   |-> Repetitions({<<"a", "a'">>, <<"blank", "blank'">>,
                             <<"goal", "goal'">>}),
   checked  |-> {"a"},
   effects  |-> {"a", "a'"},
   dominated |-> {}]

\* m1 is dominated by m2: afterwards j has children that i does not have.
Merging ==
  [init     |-> {"i", "j"},
   subtasks |-> [i |-> <<"t1">>, j |-> <<"t2">>, m1 |-> <<"v">>, m2 |-> <<"v">>,
                 y |-> <<"w">>],
   fits     |-> [t1 |-> {"m1"}, t2 |-> {"m2", "y"}, v |-> {"a"}, w |-> {"b"}],
   repeat   |-> Repetitions({<<"a", "a'">>, <<"b", "b'">>, <<"blank", "blank'">>,
                             <<"goal", "goal'">>}),
   checked  |-> {"a"},
   effects  |-> {},
   dominated |-> {<<"m1", "m2">>}]

\* The goal may become unreachable.
Unreachable == [Recursive EXCEPT !.checked = {"goal", "goal'"}]

AllDomains == {Shared, Recursive, Merging, Unreachable}
MergingDomain == {Merging}
SharedDomain  == {Shared}
GoalDomain    == {Unreachable}
=============================================================================
