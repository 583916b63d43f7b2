---------------------------- MODULE MCChangeLens ----------------------------
(***************************************************************************)
(* Two source files of an assembly: methods, a call, conditions that can   *)
(* and cannot be told apart; base commits with a manifest, with a project  *)
(* shown by Git and with no baseline.                                      *)
(***************************************************************************)
EXTENDS ChangeLensProperties, TLC

Condition(m, n) == [method |-> m, text |-> "ready", at |-> n]

Code == [
    a  |-> [symbols |-> {"A"}, calls |-> {<<"A", "B">>}, conditions |-> {}],
    b  |-> [symbols |-> {"B"}, calls |-> {}, conditions |-> {}],
    ab |-> [symbols |-> {"A", "B"}, calls |-> {<<"A", "B">>}, conditions |-> {}],
    a1 |-> [symbols |-> {"A"}, calls |-> {}, conditions |-> {Condition("A", 1)}],
    a2 |-> [symbols |-> {"A"}, calls |-> {}, conditions |-> {Condition("A", 1), Condition("A", 2)}]]

Manifest(digests) == [kind |-> "MANIFEST", lists |-> {}, digests |-> digests]
Project(lists) == [kind |-> "PROJECT", lists |-> lists, digests |-> Nothing]

Tree(one, two, baseline, live) ==
    [p \in Places |-> CASE p = 1 -> one [] p = 2 -> two [] p = Baseline -> baseline
                        [] p = Live -> live]

Sealed == Manifest(1 :> "a2" @@ 2 :> "b")
Both   == Project({1, 2})

SomeLive == {None, {1}, {1, 2}}

\* A clean worktree, with or without the ignored project, ...
Clean == {[base |-> Tree(t[1], t[2], t[3], None), tree |-> Tree(t[1], t[2], t[3], l)] :
            t \in {<<"a2", "b", Sealed>>, <<"a", "b", Both>>, <<"a1", Absent, Both>>,
                   <<"ab", Absent, Both>>, <<"a", Absent, Absent>>},
            l \in SomeLive}

\* ... a worktree in which a class was split off, and one in which a file was renamed.
Dirty == {[base |-> Tree("ab", Absent, Absent, None), tree |-> Tree("a", "b", Absent, None)],
          [base |-> Tree("a1", Absent, Project({1}), None),
           tree |-> Tree(Absent, "a1", Project({2}), None)]}

SomeStarts == Clean \cup Dirty

SomeBaselines == {Manifest(1 :> "a1" @@ 2 :> "b"), Sealed, Project({1}), Project({2}), Both}

Renamed == [old |-> "A", new |-> "B", kind |-> "RENAMED"]
Kept == [old |-> "ready", new |-> "ready", kind |-> "RENAMED"]
SomeHints == {<<>>, <<Renamed>>, <<Kept>>, <<Renamed, Kept>>}
=============================================================================
