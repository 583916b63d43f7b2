--------------------------- MODULE MCExplainChange ---------------------------
(***************************************************************************)
(* A gallery of changes, none of which is edited while it is explained; an *)
(* assembly whose output is attested while editors and Unity work; and     *)
(* projects Unity may have generated.                                      *)
(***************************************************************************)
EXTENDS ExplainProperties

LOCAL INSTANCE TLC

(***************************************************************************)
(* Labels in the order of their texts, and what the story reads off them.  *)
(***************************************************************************)
Word(compact, recipe, tokens) ==
    [compact |-> compact, recipe |-> recipe, says |-> [k \in {} |-> ""], tokens |-> tokens,
     owner |-> "Auth", contains |-> {}, role |-> FALSE, bonus |-> 0]

SomeWords == <<
    Word("Auth", None, {"auth"}),                                            \* 1  a type
    [Word("Check", None, {"auth", "check"}) EXCEPT !.contains = {"Login"}],  \* 2  its methods
    [Word("Save", "persistence", {"auth", "save"}) EXCEPT
        !.says = [k \in {"persistence"} |-> "saves"]],                       \* 3
    [Word("Store", "persistence", {"auth", "save"}) EXCEPT
        !.says = [k \in {"persistence"} |-> "saves"]],                       \* 4
    [Word("Login", None, {"login"}) EXCEPT !.role = TRUE, !.owner = "Login"],\* 5  a type
    [Word("Run", "runtime", {"login", "run"}) EXCEPT !.owner = "Login"],     \* 6  its method
    Word("AuthTests", None, {"auth", "tests"}),                              \* 7  a type
    Word("Runs", None, {"auth", "runs"}),                                    \* 8  its method
    Word("ready", None, {}),                                                 \* 9  a condition
    Word("token", None, {"token"}),                                          \* 10 a state
    [Word("Load", "persistence", {"auth", "load"}) EXCEPT
        !.says = [k \in {"persistence"} |-> "loads"]],                       \* 11 a method
    Word("missing", None, {}) >>                                             \* 12 what is thrown

D(kind, label) == [kind |-> kind, label |-> label, line |-> 0]
Ready(line)    == [kind |-> "CONDITION", label |-> 9, line |-> line]
Gives(line)    == [kind |-> "RETURN", label |-> 9, line |-> line]
Missing(line)  == [kind |-> "THROW", label |-> 12, line |-> line]
R(rel, src, dst) == [rel |-> rel, src |-> src, dst |-> dst]
Code(nodes, relations) == [nodes |-> nodes, relations |-> relations]

Auth == D("TYPE", 1)       Check == D("METHOD", 2)
Saver == D("METHOD", 3)    Storer == D("METHOD", 4)
Login == D("TYPE", 5)      Run == D("METHOD", 6)
Tests == D("TYPE", 7)      Runs == D("METHOD", 8)
Token == D("STATE", 10)    Loader == D("METHOD", 11)

SomeCode == [
    check |-> Code({Auth, Check, Token}, {R("WRITES_STATE", Check, Token)}),
    save  |-> Code({Auth, Check, Saver, Ready(4)},
                   {R("DIRECT_CALL", Check, Saver), R("BRANCHES_TO", Check, Ready(4))}),
    store |-> Code({Auth, Check, Storer, Ready(4), Ready(7)},
                   {R("DIRECT_CALL", Check, Storer), R("BRANCHES_TO", Storer, Ready(4)),
                    R("BRANCHES_TO", Storer, Ready(7))}),
    both  |-> Code({Auth, Check, Saver, Storer, Missing(5), Gives(6)},
                   {R("THROWS_FROM", Saver, Missing(5)), R("RETURNS_FROM", Saver, Gives(6)),
                    R("DIRECT_CALL", Check, Saver), R("DIRECT_CALL", Saver, Storer),
                    R("DIRECT_CALL", Storer, Saver)}),
    load  |-> Code({Saver, Loader}, {}),
    cache |-> Code({Saver, Loader}, {R("DIRECT_CALL", Loader, Saver)}),
    login |-> Code({Login, Run}, {R("DIRECT_CALL", Run, Check)}),
    run   |-> Code({Run}, {}),
    tests |-> Code({Tests, Runs}, {R("DIRECT_CALL", Runs, Check)})]

SomeAreas == <<"SERVER", "CLIENT", "TEST", "GENERATED", "RUNTIME", "PROTOCOL", "SERVER", "EDITOR">>

Bounds == [relationships |-> 5, chains |-> 3, hops |-> 2, cards |-> 2, flow |-> 3, stage |-> 2,
           decisions |-> 2, mapItems |-> 2, mapChanges |-> 2, scenarios |-> 3, before |-> 3,
           after |-> 4, links |-> 3, changes |-> 7, impacts |-> 1]

(***************************************************************************)
(* What Unity generated.                                                   *)
(***************************************************************************)
Engine == "UnityEngine.CoreModule"
Uses(name) == [name |-> name, output |-> TRUE, inside |-> TRUE]
Project(compiles, uses) ==
    [defines |-> {"UNITY_EDITOR"}, references |-> {Engine}, compiles |-> compiles, uses |-> uses]
Asmdef(name, path) ==
    [name |-> name, path |-> path, noEngine |-> FALSE, include |-> {}, exclude |-> {},
     constraints |-> {}, versions |-> {}]

GamePaths == 1..6
OfGame == 7
OfUsed == 8
Definitions == {Asmdef("Game", OfGame), Asmdef("Model", Definition)}

Alone == [projects |-> "Game" :> Project({GamePaths}, {}) @@ "Model" :> Project({{OfUsed}}, {}),
          asmdefs |-> Definitions, version |-> 5, packages |-> [p \in {} |-> 0],
          libraries |-> {Engine}, files |-> {}, outputs |-> {}]
Linked == [Alone EXCEPT
    !.projects = "Game" :> Project({GamePaths}, {Uses("Model")})
                 @@ "Model" :> Project({{OfUsed}}, {Uses("Core")})]

(***************************************************************************)
(* Starts.                                                                 *)
(***************************************************************************)
Files(game, used, definition) ==
    [p \in GamePaths |-> IF p \in DOMAIN game THEN game[p] ELSE Absent]
    @@ OfGame :> "definition" @@ OfUsed :> used @@ Definition :> definition

Bare(files) == [files |-> files, compile |-> None, provenance |-> None]
OnDisk(snapshot, output, newer) ==
    snapshot @@ [outputs |-> Used :> output @@ Core :> 1, newer |-> newer]

Built(used, definition) ==
    [sources |-> OfUsed :> used, definition |-> definition, core |-> 1]

Explain(tell, save) == [kind |-> "explain", story |-> tell, analysis |-> save]
Render(tell)        == [kind |-> "render", story |-> tell, analysis |-> FALSE]
Plain(kind)         == [kind |-> kind, story |-> FALSE, analysis |-> FALSE]

Change(old, new, unity, intent, hints) ==
    [base |-> Bare(Files(old, "m1", "d1")), unity |-> unity, intent |-> intent, hints |-> hints,
     disk |-> OnDisk(Bare(Files(new, "m1", "d1")), Built("m1", "d1"), FALSE), moves |-> 0, commands |-> 1,
     requests |-> {Explain(FALSE, FALSE)}]

At(one, two, three) == [p \in 1..3 |-> CASE p = 1 -> one [] p = 2 -> two [] p = 3 -> three]

\* Services, a client and tests that come, go and change together, ...
One == {Absent, "check", "save", "store", "both"}
Two == {Absent, "login", "run"}
Test == {Absent, "tests"}
Together == {Change(At(o, p, q), At(n, m, r), Alone, None, <<>>) :
                o \in One, n \in One, p \in Two, m \in Two, q \in Test, r \in Test}

\* ... a file that moves from area to area beside another one, ...
Moves == {Change(i :> c @@ j :> d, k :> c @@ j :> e, Alone, None, <<>>) :
             i \in GamePaths, k \in GamePaths, j \in {2, 5}, c \in {"store", "login"},
             d \in {Absent, "check"}, e \in {"check", "run"}}

\* ... and a rename that a reviewer confirms, with and without a source of intent, in a
\* project that is complete and in one that is not.
Cached == {Change(1 :> c, 1 :> d, u, None, <<>>) :
              c \in {"load", "cache", "save"}, d \in {"load", "cache", "both"},
              u \in {Alone, Linked}}
Saved == [old |-> 3, new |-> 4, kind |-> "RENAMED"]
Renamed == {Change(At("save", p, Absent), At("store", m, Absent), u, i, <<Saved>>) :
               p \in Two, m \in Two, u \in {Alone, Linked},
               i \in {None, [entries |-> {"request"}]}}

\* Commands that are killed between their writes.
Quiet == Change(1 :> "check", 1 :> "save", Alone, None, <<>>)
Bundles == {[Quiet EXCEPT !.commands = 3,
                          !.requests = {Explain(t, s) : t \in BOOLEAN, s \in BOOLEAN}
                                       \cup {Render(t) : t \in BOOLEAN}]}

\* An attested output while editors and Unity work.
Sealed(used, definition) ==
    [files      |-> Files(1 :> "check", used, definition),
     compile    |-> [sources |-> OfUsed :> used],
     provenance |-> [compile |-> [sources |-> OfUsed :> used], inputs |-> 1,
                     output |-> Built(used, definition), definition |-> definition]]
Unsealed == [Sealed("m1", "d1") EXCEPT !.provenance = None]
Evidence ==
    {[base |-> Sealed("m1", "d1"), unity |-> Linked, intent |-> None, hints |-> <<>>,
      disk |-> OnDisk(s, Built("m1", "d1"), FALSE), moves |-> 3, commands |-> 3,
      requests |-> {Explain(FALSE, FALSE), Plain("compile"), Plain("provenance")}] :
        s \in {Unsealed, Sealed("m1", "d1")}}
    \cup {[base |-> b, unity |-> Linked, intent |-> None, hints |-> <<>>,
           disk |-> OnDisk(Sealed("m2", "d1"), o, o # Built("m2", "d1")), moves |-> 1, commands |-> 1,
           requests |-> {Explain(FALSE, FALSE)}] :
             b \in {Sealed("m1", "d1"), Sealed("m2", "d1"), [Sealed("m1", "d1") EXCEPT !.compile = None]},
             o \in {None, Built("m1", "d1"), Built("m2", "d1")}}

\* Definitions and projects of every kind for the explained assembly.
Term(define, negated) == [define |-> define, negated |-> negated]
From(at, closed)      == [low |-> [at |-> at, closed |-> closed], high |-> None]
UpTo(e, at, closed)   == [e EXCEPT !.high = [at |-> at, closed |-> closed]]
Version(resource, expression) ==
    [resource |-> resource, expression |-> expression, define |-> "FEATURE"]
GameIs(asmdef) == [Alone EXCEPT !.asmdefs = {asmdef, Asmdef("Model", Definition)}]
Plainly == Asmdef("Game", OfGame)
Feature == [Plainly EXCEPT !.constraints = {{Term("FEATURE", FALSE)}}]

Platforms ==
    {[GameIs([Plainly EXCEPT !.include = i, !.exclude = x]) EXCEPT !.projects["Game"].defines = d] :
        i \in {{}, {"Editor"}, {"Android", "WindowsStandalone64"}}, x \in {{}, {"Editor"}, {"iOS"}},
        d \in {{}, {"UNITY_EDITOR"}, {"UNITY_ANDROID"}, {"UNITY_STANDALONE_WIN", "UNITY_64"}}}
Constraints ==
    {GameIs([Plainly EXCEPT !.constraints = c]) :
        c \in SUBSET {None, {Term("UNITY_EDITOR", TRUE)}, {Term("UNITY_EDITOR", FALSE), Term("X", FALSE)}}}
Versions ==
    {[GameIs([Feature EXCEPT !.versions = {Version(r, e)}]) EXCEPT !.version = v, !.packages = p] :
        r \in {"Unity", "net"}, v \in {None, 5}, p \in {None, "net" :> 5, "web" :> 5},
        e \in {From(5, TRUE), From(5, FALSE), UpTo(From(4, TRUE), 5, FALSE),
               UpTo(From(5, TRUE), 5, TRUE), UpTo(From(6, TRUE), 5, TRUE)}}
References ==
    {[Linked EXCEPT !.projects["Game"].uses = u, !.projects["Model"].uses = m] :
        u \in {{}, {Uses("Core")}, {Uses("Game")}, {[Uses("Model") EXCEPT !.output = FALSE]},
               {[Uses("Model") EXCEPT !.inside = FALSE]}, {Uses("Model"), Uses("Core")}},
        m \in {{}, {Uses("Game")}}}
Others == {[Alone EXCEPT !.asmdefs = @ \cup {Asmdef("Game", OfUsed)}],
           [Alone EXCEPT !.asmdefs = {}], [Alone EXCEPT !.libraries = {}],
           [Alone EXCEPT !.projects = "Model" :> Project({{OfUsed}}, {})],
           [Alone EXCEPT !.projects["Game"].compiles = {{1}, {2}}]}
Settings == {[Quiet EXCEPT !.unity = u, !.requests = @ \cup {Plain("graph")}] :
                u \in Platforms \cup Constraints \cup Versions \cup References \cup Others}

SomeStarts == Settings \cup Together \cup Moves \cup Renamed \cup Cached \cup Bundles \cup Evidence
SomeContents == [p \in {OfUsed, Definition} |->
                    IF p = OfUsed THEN {"m1", "m2"} ELSE {"d1", "d2"}]
=============================================================================
