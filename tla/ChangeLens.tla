----------------------------- MODULE ChangeLens -----------------------------
(***************************************************************************)
(* The commands "analyze-change" and "roslyn-input" of Change Lens on a    *)
(* worktree that editors, Unity and exporters go on changing: snapshots    *)
(* are read file by file, checked again, analysed and reported.            *)
(*                                                                         *)
(* A digest is the content it is taken of.  Git objects are immutable, so  *)
(* the OLD lane is a function of the base commit.  The index holds what    *)
(* the base commit holds: nothing is staged.  Source paths are numbers,    *)
(* in the order of their names; the baseline sorts before them.            *)
(***************************************************************************)
EXTENDS GraphDiff, Functions

CONSTANTS
    Sources,      \* the C# paths of the assembly
    Contents,     \* what a source file may hold
    Declares,     \* the declarations of each content
    Baselines,    \* generated projects and compile manifests
    LiveProjects, \* what the generated project ignored by Git may list, and None
    Starts,       \* the base commits, each with a worktree it may start from
    HintLists,    \* the mapping hints a user may pass
    MaxEdits,     \* the bound on changes of the worktree
    Baseline,     \* the path of the visible project or the manifest
    Live,         \* the path of the ignored project
    Absent, None

ASSUME SourcesAreNumbers == Sources \subseteq Nat \ {0} /\ IsFiniteSet(Sources)
\* Who calls, and who branches, is declared in the same file.
ASSUME CodeIsClosed ==
    \A c \in Contents :
        /\ \A call \in Declares[c].calls : call[1] \in Declares[c].symbols
        /\ \A branch \in Declares[c].conditions : branch.method \in Declares[c].symbols
ASSUME HintsAreLists == \A hints \in HintLists : Len(hints) \in Nat
ASSUME PathsDistinct == Baseline # Live /\ {Baseline, Live} \cap Sources = {}

VARIABLES
    base,    \* the tree of the base commit
    tree,    \* the worktree
    past,    \* per path, the contents it had and lost since the command began
    seen,    \* the worktrees there were since the command began
    edits,
    request, \* the command, its hints and --allow-syntax-partial
    pc,      \* the step of the command
    todo,    \* the paths still to read in this step, None before they are listed
    got,     \* what the step read so far
    binding, \* the NEW snapshot
    renames, \* old path to new path
    scope,   \* the sources the command is about: named, and present when looked for
    report

lensVars == <<base, tree, past, seen, edits, request, pc, todo, got, binding,
              renames, scope, report>>

environment == <<base, tree, past, seen, edits, request>>

Paths  == Sources \cup {Baseline}
Places == Paths \cup {Live}

Possible(p) ==
    CASE p \in Sources  -> Contents \cup {Absent}
      [] p = Baseline   -> Baselines \cup {Absent}
      [] p = Live       -> LiveProjects

ASSUME StartsAreTrees ==
    \A s \in Starts : DOMAIN s.tree = Places /\ \A p \in Places : s.tree[p] \in Possible(p)
ASSUME NoneIsNoList == \A l \in SUBSET Paths : None # l
ASSUME NoneIsNoScope == \A n, q \in SUBSET Sources : None # [named |-> n, present |-> q]

\* The generated project on disk, shown by Git or ignored by it.
DiskProject(t) ==
    IF t[Baseline] # Absent /\ t[Baseline].kind = "PROJECT" THEN t[Baseline].lists ELSE t[Live]

Nothing == [p \in {} |-> Absent]

\* The files of a tree that Git shows.
Visible(t) == Restrict(t, {p \in Paths : t[p] # Absent})

(***************************************************************************)
(* What a snapshot determines.                                             *)
(***************************************************************************)
\* The sources a baseline names.
Listed(b) == IF b.kind = "PROJECT" THEN b.lists ELSE DOMAIN b.digests

ASSUME ProjectsNameSources ==
    /\ \A l \in LiveProjects : l # None => l \subseteq Sources
    /\ \A b \in Baselines : Listed(b) \subseteq Sources

Compiled(snapshot) == Listed(snapshot[Baseline]) \cap DOMAIN snapshot

\* A manifest holds when each source it names is bound with the digest it gives.
ManifestHolds(snapshot) ==
    snapshot[Baseline].kind = "MANIFEST" =>
        \A p \in DOMAIN snapshot[Baseline].digests :
            p \in DOMAIN snapshot /\ snapshot[p] = snapshot[Baseline].digests[p]

\* detect_renames: a removed file and the one added file of the same bytes.  A
\* baseline has its own path and is never the twin of a source.
ExactRenames(old, new) ==
    LET twins(o) == {n \in (DOMAIN new \ DOMAIN old) \ {Baseline} : new[n] = old[o]}
        moved    == {o \in (DOMAIN old \ DOMAIN new) \ {Baseline} : Cardinality(twins(o)) = 1}
    IN  [o \in moved |-> CHOOSE n \in twins(o) : TRUE]

\* The worker: a symbol is one node, at its first file; every condition is a node of
\* its file and position; conditions and resolved calls are relations.  A symbol
\* declared twice or a call not resolved is a compiler error.
SymbolId(s) == <<"METHOD", s, <<0, 0>>>>
Declaring(s, sources) == {p \in DOMAIN sources : s \in Declares[sources[p]].symbols}
Resolved(s, sources) == Cardinality(Declaring(s, sources)) = 1

Graph(sources, complete) ==
    LET parts      == [p \in DOMAIN sources |-> Declares[sources[p]]]
        symbols    == UNION {parts[p].symbols : p \in DOMAIN parts}
        calls      == UNION {parts[p].calls : p \in DOMAIN parts}
        conditions == UNION {{<<p, c>> : c \in parts[p].conditions} : p \in DOMAIN parts}
        Home(s)    == CHOOSE p \in Declaring(s, sources) :
                          \A q \in Declaring(s, sources) : p <= q
        clean      == /\ \A s \in symbols : Resolved(s, sources)
                      /\ \A c \in calls : Resolved(c[2], sources)
    IN  [nodes  |-> {[kind |-> "METHOD", label |-> s, at |-> <<0, 0>>, path |-> Home(s)] :
                        s \in symbols}
                    \cup {[kind |-> "CONDITION", label |-> x[2].text,
                           at |-> <<x[1], x[2].at>>, path |-> x[1]] : x \in conditions},
         edges  |-> {[rel |-> "DIRECT_CALL", src |-> SymbolId(c[1]), dst |-> SymbolId(c[2])] :
                        c \in {d \in calls : Resolved(d[2], sources)}}
                    \cup {[rel |-> "BRANCHES_TO", src |-> SymbolId(x[2].method),
                           dst |-> <<"CONDITION", x[2].text, <<x[1], x[2].at>>>>] :
                              x \in conditions},
         status |-> IF complete /\ clean THEN "COMPLETE" ELSE "PARTIAL"]

(***************************************************************************)
(* The worktree.  A path never returns to a content it had: re-reading     *)
(* cannot tell a restored file from an untouched one.                      *)
(***************************************************************************)
LensInit ==
    /\ \E s \in Starts : base = s.base /\ tree = s.tree
    /\ past = [p \in Places |-> {}]
    /\ seen = {tree}
    /\ edits = 0
    /\ request = None
    /\ pc = "ended" /\ todo = None /\ got = Nothing
    /\ binding = Nothing /\ renames = Nothing /\ scope = None
    /\ report = None

Edit ==
    /\ edits < MaxEdits
    /\ edits' = edits + 1
    /\ \E p \in Places : \E c \in Possible(p) \ (past[p] \cup {tree[p]}) :
        /\ tree' = [tree EXCEPT ![p] = c]
        /\ past' = [past EXCEPT ![p] = @ \cup {tree[p]}]
        /\ seen' = seen \cup {tree'}
    /\ UNCHANGED <<base, request, pc, todo, got, binding, renames, scope, report>>

(***************************************************************************)
(* A step reads a set of paths one at a time.                              *)
(***************************************************************************)
Go(next) ==
    /\ pc' = next
    /\ todo' = None
    /\ got' = Nothing

End(result) ==
    /\ Go("ended")
    /\ binding' = Nothing /\ renames' = Nothing /\ scope' = None
    /\ report' = result
    /\ UNCHANGED environment

Fail == End(None)

Snapshots == {"resolve", "renames", "precheck", "postcheck", "final"}
Probes    == {"context", "context1", "context2"}
Rereads   == {"manifest", "materialise", "sources", "scoped", "rescoped"}

\* Paths are read by name; ls-files lists the untracked ones before those of the index.
Position(p) == IF p = Baseline THEN 0 ELSE p
Before(p, q) ==
    IF pc \in Snapshots /\ (base[p] = Absent) # (base[q] = Absent)
    THEN base[p] = Absent
    ELSE Position(p) <= Position(q)
NextPath(p) == p \in todo /\ \A q \in todo : Before(p, q)

\* ls-files names the files there are and those of the index.
Shown == {p \in Paths : tree[p] # Absent \/ base[p] # Absent}

\* is_current: the tree and the manifest hash of a fresh snapshot are the bound ones.
Current_Bound == DOMAIN binding \subseteq DOMAIN got /\ Restrict(got, DOMAIN binding) = binding
Current == got = binding

List ==
    /\ todo = None
    /\ \/ /\ pc \in Snapshots
          /\ todo' = Shown
       \/ /\ pc \in Probes \cup {"live"}
          /\ DiskProject(tree) # None
          /\ pc \in {"context1", "context2"} => DiskProject(tree) = scope.named
          /\ todo' = DiskProject(tree)
    /\ scope' = IF pc = "context" THEN [named |-> DiskProject(tree), present |-> {}] ELSE scope
    /\ UNCHANGED <<environment, pc, got, binding, renames, report>>

\* A path that is gone when its turn comes is skipped.
Read ==
    /\ pc \in Snapshots \cup Probes \cup {"live", "changed"}
    /\ todo # None
    /\ \E p \in {q \in todo : NextPath(q)} :
        /\ todo' = todo \ {p}
        /\ got' = IF tree[p] = Absent THEN got
                  ELSE [q \in DOMAIN got \cup {p} |-> IF q = p THEN tree[p] ELSE got[q]]
    /\ UNCHANGED <<environment, pc, binding, renames, scope, report>>

\* read_bound_bytes: a bound file must still be there with the bytes it was bound with.
StillBound_There(p) == p \in DOMAIN binding /\ tree[p] # Absent
StillBound(p) == p \in DOMAIN binding /\ tree[p] = binding[p]

Reread ==
    /\ pc \in Rereads
    /\ \E p \in {q \in todo : NextPath(q)} :
        IF StillBound(p)
        THEN /\ todo' = todo \ {p}
             /\ UNCHANGED <<environment, pc, got, binding, renames, scope, report>>
        ELSE Fail

GoReread(next, paths) ==
    /\ pc' = next
    /\ todo' = paths
    /\ got' = Nothing

ReadAll(step) == pc = step /\ todo = {}

(***************************************************************************)
(* analyze-change: baselines on both sides, or an explicit partial report. *)
(***************************************************************************)
Begin ==
    /\ pc = "ended"
    /\ \/ /\ \E hints \in HintLists, partial \in BOOLEAN :
              request' = [command |-> "analyze-change", hints |-> hints, partial |-> partial]
          /\ pc' = "preflight"
       \/ /\ request' = [command |-> "roslyn-input", hints |-> <<>>, partial |-> FALSE]
          /\ pc' = "resolve"
    /\ past' = [p \in Places |-> {}]
    /\ seen' = {tree}
    /\ report' = None
    /\ UNCHANGED <<base, tree, edits, todo, got, binding, renames, scope>>

Preflight ==
    /\ pc = "preflight"
    /\ LET ready == base[Baseline] # Absent /\ tree[Baseline] # Absent
       IN  \/ /\ ready
              /\ Go("resolve")
              /\ UNCHANGED <<environment, binding, renames, scope, report>>
           \/ /\ ~ready /\ request.partial
              /\ Go("difference")
              /\ UNCHANGED <<environment, binding, renames, scope, report>>
           \/ /\ ~ready /\ ~request.partial
              /\ Fail

SnapshotResolved ==
    /\ ReadAll("resolve")
    /\ binding' = got
    /\ Go(IF request.command = "analyze-change" THEN "renames" ELSE "context")
    /\ UNCHANGED <<environment, renames, scope, report>>

RenamesDetected ==
    /\ ReadAll("renames")
    /\ renames' = ExactRenames(Visible(base), got)
    /\ Go("assemble")
    /\ UNCHANGED <<environment, binding, scope, report>>

\* assemble(OLD) reads immutable objects only.
AssembleOld ==
    /\ pc = "assemble"
    /\ IF ManifestHolds(Visible(base)) /\ Compiled(Visible(base)) # {}
       THEN /\ Go("precheck")
            /\ UNCHANGED <<environment, binding, renames, scope, report>>
       ELSE Fail

\* assemble(NEW), after _assert_current: a manifest is held against the bound sources.
Prechecked ==
    /\ ReadAll("precheck")
    /\ IF ~Current \/ (request.command = "analyze-change" /\ Baseline \notin DOMAIN binding)
       THEN Fail
       ELSE /\ IF request.command = "roslyn-input" THEN Go("context1")
               ELSE IF binding[Baseline].kind = "PROJECT"
                    THEN GoReread("materialise", DOMAIN binding)
                    ELSE GoReread("manifest", {Baseline} \cup Listed(binding[Baseline]))
            /\ UNCHANGED <<environment, binding, renames, scope, report>>

ManifestRead ==
    /\ ReadAll("manifest")
    /\ IF ManifestHolds(binding)
       THEN /\ Go("live")
            /\ UNCHANGED <<environment, binding, renames, scope, report>>
       ELSE Fail

\* The live project, if there is one, must still export the same manifest.
LiveMatches ==
    /\ pc = "live"
    /\ \/ /\ todo = None /\ DiskProject(tree) = None
          /\ GoReread("materialise", DOMAIN binding)
          /\ UNCHANGED <<environment, binding, renames, scope, report>>
       \/ /\ todo = {} /\ got = binding[Baseline].digests
          /\ GoReread("materialise", DOMAIN binding)
          /\ UNCHANGED <<environment, binding, renames, scope, report>>
       \/ /\ todo = {} /\ got # binding[Baseline].digests
          /\ Fail

Materialised ==
    /\ ReadAll("materialise")
    /\ IF Compiled(binding) # {}
       THEN /\ GoReread("sources", Compiled(binding))
            /\ UNCHANGED <<environment, binding, renames, scope, report>>
       ELSE Fail

SourcesRead ==
    /\ ReadAll("sources")
    /\ Go(IF request.command = "analyze-change" THEN "postcheck" ELSE "context2")
    /\ UNCHANGED <<environment, binding, renames, scope, report>>

Postchecked ==
    /\ ReadAll("postcheck")
    /\ IF Current
       THEN /\ Go("worker")
            /\ UNCHANGED <<environment, binding, renames, scope, report>>
       ELSE Fail

\* The lanes of a strict and of a partial analysis.
Lane(snapshot) ==
    [sources  |-> Restrict(snapshot, Compiled(snapshot)),
     complete |-> Listed(snapshot[Baseline]) \subseteq DOMAIN snapshot]

SyntaxLane(snapshot) == [sources |-> snapshot, complete |-> FALSE]

Strict == request.command = "analyze-change" /\ scope = None

OldLane == IF Strict THEN Lane(Visible(base))
           ELSE SyntaxLane(Restrict(base, {p \in scope.named : base[p] # Absent}))
NewLane == IF Strict THEN Lane(binding) ELSE SyntaxLane(binding)

GraphsDiff == Diff(Graph(OldLane.sources, OldLane.complete),
                   Graph(NewLane.sources, NewLane.complete), renames, request.hints)

\* Both workers and the comparison; a worker may time out, crash or answer nonsense.
Analyse ==
    /\ pc = "worker"
    /\ \/ Fail
       \/ /\ HintsResolve(Graph(OldLane.sources, OldLane.complete),
                          Graph(NewLane.sources, NewLane.complete), request.hints)
          /\ IF Strict THEN Go("final") ELSE GoReread("rescoped", DOMAIN binding)
          /\ UNCHANGED <<environment, binding, renames, scope, report>>

ReportOf(mode, status) ==
    [mode |-> mode, status |-> status, new |-> binding, renames |-> renames, scope |-> scope,
     compared |-> <<OldLane.sources, NewLane.sources>>, diff |-> GraphsDiff]

Publish ==
    /\ ReadAll("final") /\ Strict
    /\ IF Current
       THEN End(ReportOf("strict",
                IF GraphsDiff.status = "COMPLETE" /\ OldLane.complete /\ NewLane.complete
                THEN "FRESH" ELSE "PARTIAL"))
       ELSE Fail

(***************************************************************************)
(* --allow-syntax-partial: only the C# files that changed.                 *)
(***************************************************************************)
Difference ==
    /\ pc = "difference"
    /\ Go("untracked")
    /\ scope' = [named   |-> {p \in Sources : base[p] # Absent /\ tree[p] # base[p]},
                 present |-> {}]
    /\ UNCHANGED <<environment, binding, renames, report>>

Untracked ==
    /\ pc = "untracked"
    /\ LET named == scope.named \cup {p \in Sources : base[p] = Absent /\ tree[p] # Absent}
       IN  IF named = {} THEN Fail
           ELSE /\ scope' = [scope EXCEPT !.named = named]
                /\ GoReread("changed", named)
                /\ UNCHANGED <<environment, binding, renames, report>>

\* The renames git diff finds need a staged path; no exact match is looked for here.
ChangedRead ==
    /\ ReadAll("changed")
    /\ binding' = got
    /\ GoReread("scoped", DOMAIN got)
    /\ UNCHANGED <<environment, renames, scope, report>>

ScopedRead ==
    /\ ReadAll("scoped")
    /\ IF OldLane.sources = Nothing /\ NewLane.sources = Nothing THEN Fail
       ELSE /\ Go("worker")
            /\ UNCHANGED <<environment, binding, renames, scope, report>>

PublishPartial ==
    /\ ReadAll("rescoped")
    /\ End(ReportOf("partial", "PARTIAL"))

(***************************************************************************)
(* roslyn-input: a snapshot and the live Unity context, built three times. *)
(***************************************************************************)
ContextBuilt ==
    /\ ReadAll("context")
    /\ scope' = [scope EXCEPT !.present = DOMAIN got]
    /\ Go("precheck")
    /\ UNCHANGED <<environment, binding, renames, report>>

NoProject ==
    /\ pc \in Probes /\ todo = None
    /\ \/ DiskProject(tree) = None
       \/ pc # "context" /\ DiskProject(tree) # scope.named
    /\ Fail

ContextRechecked ==
    /\ pc \in {"context1", "context2"} /\ todo = {}
    /\ IF DOMAIN got # scope.present \/ scope.present = {} THEN Fail
       ELSE /\ IF pc = "context1" THEN GoReread("sources", scope.present) ELSE Go("final")
            /\ UNCHANGED <<environment, binding, renames, scope, report>>

EmitInput ==
    /\ ReadAll("final") /\ request.command = "roslyn-input"
    /\ IF Current
       THEN End([mode |-> "input", new |-> binding, scope |-> scope])
       ELSE Fail

LensNext ==
    \/ Edit \/ Begin \/ Preflight \/ List \/ Read \/ Reread
    \/ SnapshotResolved \/ RenamesDetected \/ AssembleOld \/ Prechecked
    \/ ManifestRead \/ LiveMatches \/ Materialised \/ SourcesRead \/ Postchecked
    \/ Analyse \/ Publish
    \/ Difference \/ Untracked \/ ChangedRead \/ ScopedRead \/ PublishPartial
    \/ ContextBuilt \/ NoProject \/ ContextRechecked \/ EmitInput

LensSpec == LensInit /\ [][LensNext]_lensVars
=============================================================================
