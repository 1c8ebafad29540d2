------------------------------ MODULE MCPlanning ------------------------------
(***************************************************************************)
(* Small problems for the runs of module Planning.                         *)
(***************************************************************************)
EXTENDS Planning

A == <<"a">>
B == <<"b">>
C == <<"c">>
X == <<"x", "">>
Y == <<"y", "">>
Z == <<"z", "">>
W == <<"w", "">>
Yes(name, args) == <<FALSE, <<name, args>>>>
No(name, args) == <<TRUE, <<name, args>>>>

Primitive(name, variables, prec, eff) ==
    [name |-> name, vars |-> variables, prec |-> prec, constraints |-> {}, eff |-> eff]
Method(name, task, args, variables, steps) ==
    [name |-> name, at |-> task, atargs |-> args, vars |-> variables, constraints |-> {},
     steps |-> steps, order |-> [i \in 1..(Len(steps) - 1) |-> <<steps[i][1], steps[i + 1][1]>>]]
\* The parser turns a constant of a task network into a variable of a sort of
\* its own.
Only(c) == "only_" \o c[1]
Of(c) == <<"v_" \o c[1], "">>
Consts == <<A, B, C>>
Top(steps) == Method("top_method", "top", <<>>, [i \in 1..3 |-> <<Of(Consts[i]), Only(Consts[i])>>], steps)
Problem(sorts, preds, primitives, methods, steps, init, goal) ==
    [sorts |-> sorts @@ [s \in {Only(c) : c \in ToSet(Consts)} |-> {CHOOSE c \in ToSet(Consts) : Only(c) = s}],
     preds |-> preds, primitives |-> primitives, methods |-> methods \cup {Top(steps)},
     methodPreconditions |-> {a.name : a \in {b \in primitives : b.eff = {} /\ b.prec # {}}},
     top |-> "top_method", init |-> init, goal |-> goal]

\* Travelling: go there step by step, or stay when already there.
Move == Primitive("move", <<<<X, "place">>, <<Y, "place">>>>, {Yes("at", <<X>>), Yes("road", <<X, Y>>)},
                  {No("at", <<X>>), Yes("at", <<Y>>)})
IsAt == Primitive("is_at", <<<<X, "place">>>>, {Yes("at", <<X>>)}, {})
Direct == Method("direct", "go", <<Y>>, <<<<X, "place">>, <<Y, "place">>>>, <<<<"1", "move", <<X, Y>>>>>>)
Stay == Method("stay", "go", <<X>>, <<<<X, "place">>>>, <<<<"1", "is_at", <<X>>>>>>)
Via == Method("via", "go", <<Y>>, <<<<X, "place">>, <<Y, "place">>, <<Z, "place">>>>,
              <<<<"1", "move", <<X, Z>>>>, <<"2", "go", <<Y>>>>>>)
Travel(roads, start, steps, goal) ==
    Problem([place |-> {A, B, C}], [at |-> <<"place">>, road |-> <<"place", "place">>],
            {Move, IsAt}, {Direct, Stay, Via}, steps,
            {<<"at", <<start>>>>} \cup {<<"road", r>> : r \in roads}, goal)
Line == {<<A, B>>, <<B, C>>}
Ring == Line \cup {<<C, A>>}


\* Lamps: a negative condition, a task with three methods, one of them empty.
Lamp == "lamp"
SwitchOn == Primitive("switch_on", <<<<X, Lamp>>>>, {No("on", <<X>>)}, {Yes("on", <<X>>)})
SwitchOff == Primitive("switch_off", <<<<X, Lamp>>>>, {Yes("on", <<X>>)}, {No("on", <<X>>)})
IsOn == Primitive("is_on", <<<<X, Lamp>>>>, {Yes("on", <<X>>)}, {})
TurnOn == Method("turn_on", "light", <<X>>, <<<<X, Lamp>>>>, <<<<"1", "switch_on", <<X>>>>>>)
Reset == Method("reset", "light", <<X>>, <<<<X, Lamp>>>>,
                <<<<"1", "switch_off", <<X>>>>, <<"2", "switch_on", <<X>>>>>>)
KeepOn == Method("keep_on", "light", <<X>>, <<<<X, Lamp>>>>, <<<<"1", "is_on", <<X>>>>>>)
Borrow == Method("borrow", "show", <<>>, <<<<X, Lamp>>>>, <<<<"1", "light", <<X>>>>, <<"2", "switch_off", <<X>>>>>>)
Lamps(on, steps, goal) ==
    Problem([lamp |-> {A, B}], [on |-> <<Lamp>>], {SwitchOn, SwitchOff, IsOn},
            {TurnOn, Reset, KeepOn, Borrow}, steps, {<<"on", <<c>>>> : c \in on}, goal)

\* Vehicles: a task of a wider sort than its methods, sorts that overlap, and
\* an effect that undoes another one when both vehicles are the same.
Start == Primitive("start", <<<<X, "vehicle">>, <<Y, "vehicle">>>>, {Yes("ready", <<Y>>), No("broken", <<X>>)},
                   {No("ready", <<X>>), Yes("ready", <<Y>>), Yes("used", <<X>>)})
Push == Primitive("push", <<<<X, "vehicle">>>>, {}, {Yes("used", <<X>>), No("ready", <<X>>)})
WithCar == Method("with_car", "use", <<X>>, <<<<X, "car">>, <<Y, "bus">>>>, <<<<"1", "start", <<X, Y>>>>>>)
WithBus == Method("with_bus", "use", <<X>>, <<<<X, "bus">>, <<Y, "bus">>>>,
                  <<<<"1", "start", <<X, Y>>>>, <<"2", "start", <<Y, X>>>>>>)
ByHand == Method("by_hand", "use", <<X>>, <<<<X, "car">>>>, <<<<"1", "push", <<X>>>>, <<"2", "push", <<X>>>>>>)
AnyTrip == Method("any_trip", "trip", <<>>, <<<<X, "vehicle">>>>, <<<<"1", "use", <<X>>>>>>)
Vehicles(broken, goal) ==
    Problem([vehicle |-> {A, B, C}, car |-> {A, B}, bus |-> {B, C}],
            [ready |-> <<"vehicle">>, used |-> <<"vehicle">>, broken |-> <<"vehicle">>],
            {Start, Push}, {WithCar, WithBus, ByHand, AnyTrip}, <<<<"1", "trip", <<>>>>>>,
            {<<"ready", <<B>>>>} \cup {<<"broken", <<c>>>> : c \in broken}, goal)

\* Repairs: a task none of whose methods may be possible, at a depth where no
\* mined condition says so.
Fuse == Primitive("new_fuse", <<<<X, "part">>>>, {Yes("fuse", <<X>>)}, {Yes("works", <<X>>)})
Wire == Primitive("new_wire", <<<<X, "part">>>>, {Yes("wire", <<X>>)}, {Yes("works", <<X>>)})
Hide == Primitive("hide", <<<<X, "part">>>>, {}, {No("fuse", <<X>>)})
MendFuse == Method("mend_fuse", "mend", <<X>>, <<<<X, "part">>>>, <<<<"1", "new_fuse", <<X>>>>>>)
MendWire == Method("mend_wire", "mend", <<X>>, <<<<X, "part">>>>, <<<<"1", "new_wire", <<X>>>>>>)
Repair == Method("repair", "fix", <<>>, <<<<X, "part">>>>, <<<<"1", "hide", <<X>>>>, <<"2", "mend", <<X>>>>>>)
Conceal == Method("conceal", "fix", <<>>, <<<<X, "part">>>>, <<<<"1", "hide", <<X>>>>, <<"2", "hide", <<X>>>>>>)
Repairs(fuses, wires) ==
    Problem([part |-> {A, B}], [fuse |-> <<"part">>, wire |-> <<"part">>, works |-> <<"part">>],
            {Fuse, Wire, Hide}, {MendFuse, MendWire, Repair, Conceal}, <<<<"1", "fix", <<>>>>>>,
            {<<"fuse", <<c>>>> : c \in fuses} \cup {<<"wire", <<c>>>> : c \in wires}, {})

\* Picks: the same action below several methods, for different objects.
Take == Primitive("take", <<<<X, "thing">>>>, {}, {Yes("held", <<X>>)})
Mark == Primitive("mark", <<<<X, "thing">>>>, {}, {Yes("seen", <<X>>)})
TakeSmall == Method("take_small", "pick", <<>>, <<<<X, "thing">>>>,
                    <<<<"1", "is_small", <<X>>>>, <<"2", "take", <<X>>>>, <<"3", "mark", <<X>>>>>>)
TakeAny == Method("take_any", "pick", <<>>, <<<<X, "thing">>>>, <<<<"1", "take", <<X>>>>, <<"2", "take", <<X>>>>>>)
IsSmall == Primitive("is_small", <<<<X, "thing">>>>, {Yes("small", <<X>>)}, {})
Picks(small, goal) ==
    Problem([thing |-> {A, B, C}], [held |-> <<"thing">>, seen |-> <<"thing">>, small |-> <<"thing">>],
            {Take, Mark, IsSmall}, {TakeSmall, TakeAny}, <<<<"1", "pick", <<>>>>>>,
            {<<"small", <<c>>>> : c \in small}, goal)

\* Pairs: conditions over two q-constants, an inequality, a subtask listed
\* before its predecessor, and one task for things of two nested sorts, so
\* that one of its operations dominates the other.
Equal(s, t) == Yes(DummyEqual, <<s, t>>)
Unequal(s, t) == No(DummyEqual, <<s, t>>)
Swap == Primitive("swap", <<<<X, "thing">>, <<Y, "thing">>>>, {Yes("linked", <<X, Y>>)},
                  {No("linked", <<X, Y>>), Yes("linked", <<Y, X>>)})
Link == Primitive("link", <<<<X, "thing">>, <<Y, "thing">>>>, {No("linked", <<X, Y>>)}, {Yes("linked", <<X, Y>>)})
Turn == Method("turn", "join", <<X>>, <<<<X, "thing">>, <<Y, "thing">>>>,
               <<<<"1", "link", <<X, Y>>>>, <<"2", "swap", <<X, Y>>>>>>)
Loop == [Method("loop", "join", <<X>>, <<<<X, "thing">>, <<Y, "thing">>>>,
                <<<<"2", "swap", <<X, Y>>>>, <<"1", "link", <<Y, X>>>>>>)
           EXCEPT !.order = <<<<"1", "2">>>>, !.constraints = {Unequal(Y, X)}]
JoinSome == Method("join_some", "pair", <<>>, <<<<X, "small">>>>, <<<<"1", "join", <<X>>>>>>)
JoinAny == Method("join_any", "pair", <<>>, <<<<X, "thing">>>>, <<<<"1", "join", <<X>>>>, <<"2", "join", <<X>>>>>>)
Pairs(linked, goal) ==
    Problem([thing |-> {A, B, C}, small |-> {A, B}], [linked |-> <<"thing", "thing">>],
            {Swap, Link}, {Turn, Loop, JoinSome, JoinAny}, <<<<"1", "pair", <<>>>>>>,
            {<<"linked", r>> : r \in linked}, goal)

\* Aliasing: a method that uses a task for two things, one that uses it twice
\* for the same thing of a narrower or of the same sort.
Use == Primitive("use", <<<<X, "thing">>, <<Y, "thing">>>>, {}, {Yes("done", <<X, Y>>)})
Two == Method("two", "work", <<>>, <<<<X, "thing">>, <<Y, "thing">>>>, <<<<"1", "use", <<X, Y>>>>, <<"2", "use", <<X, Y>>>>>>)
One(sort) == Method("one", "work", <<>>, <<<<X, sort>>>>, <<<<"1", "use", <<X, X>>>>, <<"2", "use", <<X, X>>>>>>)
Aliased(sort, goal) ==
    Problem([thing |-> {A, B, C}, small |-> {A, B}], [done |-> <<"thing", "thing">>],
            {Use}, {Two, One(sort)}, <<<<"1", "work", <<>>>>>>, {}, goal)

\* Mining: the second step of a method needs what the first one provides when
\* both are about the same thing.
Provide == Primitive("provide", <<<<X, "thing">>>>, {}, {Yes("there", <<X>>)})
Need == Primitive("need", <<<<X, "thing">>>>, {Yes("there", <<X>>)}, {Yes("used", <<X>>)})
Both == Method("both", "serve", <<>>, <<<<X, "thing">>, <<Y, "thing">>>>, <<<<"1", "provide", <<X>>>>, <<"2", "need", <<Y>>>>>>)
Provided(there, goal) ==
    Problem([thing |-> {A, B}], [there |-> <<"thing">>, used |-> <<"thing">>], {Provide, Need}, {Both},
            <<<<"1", "serve", <<>>>>>>, {<<"there", <<c>>>> : c \in there}, goal)

\* Recursion: a method without parameters calls itself, and what it brings
\* about is needed afterwards.
More == Method("more", "prepare", <<>>, <<>>, <<<<"1", "some", <<>>>>, <<"2", "prepare", <<>>>>>>)
Enough == Method("enough", "prepare", <<>>, <<>>, <<>>)
SomeThing == Method("some_thing", "some", <<>>, <<<<X, "thing">>>>, <<<<"1", "provide", <<X>>>>>>)
Prepared(goal) ==
    Problem([thing |-> {A, B}], [there |-> <<"thing">>, used |-> <<"thing">>], {Provide, Need},
            {More, Enough, SomeThing}, <<<<"1", "prepare", <<>>>>, <<"2", "need", <<Of(A)>>>>>>, {}, goal)

\* Crossing: two effects of one action that meet when two of its arguments
\* are the same.
Cross == Primitive("cross", <<<<X, "thing">>, <<Y, "thing">>, <<Z, "thing">>, <<W, "thing">>>>, {},
                   {Yes("linked", <<X, Z>>), Yes("linked", <<Y, W>>)})
Crossing(goal) ==
    Problem([thing |-> {A, B}], [linked |-> <<"thing", "thing">>], {Cross},
            {Method("any_cross", "tie", <<>>, Cross.vars, <<<<"1", "cross", <<X, Y, Z, W>>>>>>)},
            <<<<"1", "tie", <<>>>>>>, {}, goal)

\* Repetition: an action on one thing twice, below a method with a condition
\* that relates the thing to another one.
Pair == Primitive("pair", <<<<X, "thing">>, <<Y, "thing">>, <<Z, "thing">>>>, {Yes("road", <<X, Z>>)}, {Yes("linked", <<X, Y>>)})
Repeating(roads, goal) ==
    Problem([thing |-> {A, B, C}], [linked |-> <<"thing", "thing">>, road |-> <<"thing", "thing">>], {Pair},
            {Method("pair_up", "tie", <<>>, <<<<X, "thing">>, <<Z, "thing">>>>, <<<<"1", "pair", <<X, X, Z>>>>>>)},
            <<<<"1", "tie", <<>>>>>>, {<<"road", r>> : r \in roads}, goal)

\* The options switched on and the mode of mining. The default threshold is
\* beyond what small problems reach; with three the digits take over as soon
\* as pairs would not do, where there is a SAT solver.
With(on, mp) ==
    [o \in {"psr", "aar", "edo", "nps", "ip", "srfa", "tc", "p", "smt"} |-> o \in on]
    @@ [mp |-> mp, bamot |-> IF "smt" \in on THEN 50 ELSE 3]
OnByDefault == {"psr", "aar", "edo", "srfa", "tc", "p"}
DefaultOptions == {[With(OnByDefault, 2) EXCEPT !.bamot = 50]}
\* The defaults for both solvers, and every value of an option together with
\* every value of every other one; ip stays off.
SomeOptions ==
    {With(OnByDefault, 2), With(OnByDefault \cup {"smt"}, 2),
     With({"psr", "aar", "srfa", "tc"}, 2),
     With({"edo", "nps", "smt"}, 1),
     With({"psr", "edo", "tc", "p", "smt"}, 0),
     With({"aar", "nps", "srfa", "p"}, 1),
     With({"aar", "edo", "srfa"}, 0),
     With({"aar", "nps", "tc", "p", "smt"}, 2),
     With({"psr", "edo", "nps", "p"}, 2),
     With({"nps", "srfa", "smt"}, 0),
     With({"psr", "edo", "srfa", "tc"}, 1)}

SomeProblems ==
    {Travel(Line, A, <<<<"1", "go", <<Of(C)>>>>>>, {Yes("at", <<C>>)}),
     Travel(Ring, A, <<<<"1", "go", <<Of(B)>>>>, <<"2", "go", <<Of(A)>>>>>>, {})}
    \cup {Lamps(on, <<<<"1", "show", <<>>>>, <<"2", "light", <<Of(A)>>>>>>, {}) : on \in SUBSET {A, B}}
    \cup {Vehicles(broken, {Yes("used", <<c>>)}) : broken \in SUBSET {A, C}, c \in {A, B}}
    \cup {Repairs(fuses, wires) : fuses \in {{}, {A, B}}, wires \in {{}, {B}}}
    \cup {Picks(small, {Yes("held", <<C>>)}) : small \in SUBSET {A, B, C}}
    \cup {Pairs(linked, {goal}) : linked \in {{}, {<<A, B>>}, {<<A, B>>, <<C, B>>}},
                                  goal \in {Yes("linked", <<B, A>>), No("linked", <<A, B>>)}}

\* With -smt, an action and a predicate of one name are one constant of z3.
There == Primitive("there", <<<<X, "thing">>>>, {}, {Yes("there", <<X>>)})
Bring == Method("bring", "serve", <<>>, <<<<X, "thing">>>>, <<<<"1", "there", <<X>>>>, <<"2", "need", <<X>>>>>>)
Twice == Method("twice", "serve", <<>>, <<<<X, "thing">>>>, <<<<"1", "there", <<X>>>>, <<"2", "there", <<X>>>>>>)
Namesakes(goal) ==
    Problem([thing |-> {A, B}], [there |-> <<"thing">>, used |-> <<"thing">>], {There, Need}, {Bring, Twice},
            <<<<"1", "serve", <<>>>>>>, {}, goal)
SmtOptions == {With(OnByDefault \cup {"smt"}, 2)}
ImplicitOptions == {With(OnByDefault \cup {"ip"}, 2)}
NamesakeProblems == {Namesakes({})}

\* One problem each on which domination, mining, the cache of fact changes, a
\* literal tree or a constraint over a repeated q-constant goes wrong.
DominatedProblems == {Aliased("small", {})}
MinedProblems == {Provided({}, {})}
CachedProblems == {Prepared({})}
CrossedProblems == {Crossing({})}
RepeatedProblems == {Repeating(Ring, {})}
=============================================================================
