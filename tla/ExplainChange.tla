---------------------------- MODULE ExplainChange ----------------------------
(***************************************************************************)
(* The command line of Change Lens around an analysis: "explain" binds the *)
(* worktree, takes the attested outputs it can, analyses both revisions,   *)
(* tells the story and writes a page, the story and the analysis;          *)
(* "render-report" tells a saved analysis again; "unity-context" shows the *)
(* assembly graph; the exporters run as well.  One command runs at a time, *)
(* beside editors and Unity.                                               *)
(*                                                                         *)
(* The snapshot is one step here: how it is read file by file is the       *)
(* subject of ChangeLens.                                                  *)
(***************************************************************************)
EXTENDS BuildProvenance, GraphDiff

CONSTANTS
    Game,      \* the assembly whose change is explained
    Declares,  \* of each content: its nodes [kind, label, line] and relations [rel, src, dst]
    Area, Words, Limit \* what the story reads off labels and paths, and its bounds

FirstStep == [explain |-> "bind", render |-> "read-analysis", graph |-> "read-projects",
              compile |-> "read-compile", provenance |-> "hold-manifest"]

ASSUME RequestsAreCommands ==
    \A s \in Starts : \A r \in s.requests : r.kind \in DOMAIN FirstStep
ASSUME NoneIsNoRisk == None # "partial"

\* There are finitely many files, and what is compiled to the explained assembly is bound
\* and is code: a lane is compiled from a copy of its bound files.
ASSUME CodeIsFinite ==
    \A c \in DOMAIN Declares : IsFiniteSet(Declares[c].nodes) /\ IsFiniteSet(Declares[c].relations)
ASSUME SourcesAreCode ==
    \A s \in Starts : Game \in DOMAIN s.unity.projects =>
        LET compiled == UNION s.unity.projects[Game].compiles
            code     == DOMAIN Declares \cup {Absent}
        IN  /\ compiled \cap s.unity.files = {}
            /\ \A files \in {s.base.files, s.disk.files} :
                  IsFiniteSet(DOMAIN files) /\ \A p \in compiled \cap DOMAIN files : files[p] \in code
            /\ \A p \in compiled \cap DOMAIN Contents : Contents[p] \subseteq code
ASSUME LimitsAre ==
    /\ Limit \in [{"relationships", "chains", "hops", "cards", "flow", "stage", "decisions", "mapItems",
                   "mapChanges", "scenarios", "before", "after", "links", "changes", "impacts"} -> Nat \ {0}]
    /\ Limit.before + Limit.after <= 7 \* the slots of a storyboard
ASSUME HintsAreList == \A s \in Starts : Len(s.hints) \in Nat

VARIABLES
    binding,  \* the NEW snapshot
    attested, \* per revision, the output taken for the reference to Used, or None
    analysis,
    story,
    out,      \* the page, the story and the analysis on disk
    result,   \* of the last command: None when it failed
    issued    \* commands so far

explainVars == <<binding, attested, analysis, story, out, result, issued>>
vars == <<diskVars, command, pc, draft, explainVars>>

Story == INSTANCE ChangeStory

(***************************************************************************)
(* The worker: a symbol is one node, at its first file; a condition, a     *)
(* return or a throw is a node of its file and line.  A relation with an   *)
(* end that no one file declares is left out and, like a symbol declared   *)
(* twice, an error.                                                        *)
(***************************************************************************)
Positioned == {"CONDITION", "RETURN", "THROW"}
Position(p, d) == IF d.kind \in Positioned THEN <<p, d.line>> ELSE <<0, 0>>

GraphOf(files, complete) ==
    LET declared == UNION {{<<p, d>> : d \in Declares[files[p]].nodes} : p \in DOMAIN files}
        HomesOf(d) == {x[1] : x \in {y \in declared : y[2] = d}}
        First(S)   == CHOOSE p \in S : \A q \in S : p <= q
        Symbol(d)  == d.kind \notin Positioned
        NodeOf(p, d) == [kind |-> d.kind, label |-> d.label, at |-> Position(p, d),
                         path |-> IF Symbol(d) THEN First(HomesOf(d)) ELSE p]
        Ends(p, d) == IF Symbol(d) THEN Cardinality(HomesOf(d)) = 1 ELSE <<p, d>> \in declared
        stated     == UNION {{<<p, r>> : r \in Declares[files[p]].relations} : p \in DOMAIN files}
        resolved   == {x \in stated : Ends(x[1], x[2].src) /\ Ends(x[1], x[2].dst)}
        IdOf(p, d) == <<d.kind, d.label, Position(p, d)>>
    IN  [nodes  |-> {NodeOf(x[1], x[2]) : x \in declared},
         edges  |-> {[rel |-> x[2].rel, src |-> IdOf(x[1], x[2].src),
                      dst |-> IdOf(x[1], x[2].dst)] : x \in resolved},
         status |-> IF /\ complete /\ resolved = stated
                       /\ \A x \in declared : Symbol(x[2]) => Cardinality(HomesOf(x[2])) = 1
                    THEN "COMPLETE" ELSE "PARTIAL"]

\* A lane is compiled from a copy of its bound files, where nothing has been built.
ContextOf(files, output) ==
    Unity!Context(RootOf(files, {}), Game, IF output = None THEN {} ELSE {Used})

LaneReady(files, output) ==
    /\ Unity!Buildable(RootOf(files, {}), Game)
    /\ LET context == ContextOf(files, output)
       IN  context.asmdef # None /\ context.applies # "EXCLUDED" /\ context.sources # {}

LaneGraph(files, context) ==
    GraphOf(Restrict(files, context.sources),
            context.completeness = "COMPLETE" /\ "UnityEngine.CoreModule" \in start.unity.libraries)

\* detect_renames: a removed source and the one added source of the same bytes.
Renames(old, new) ==
    LET twins(o) == {n \in DOMAIN new \ DOMAIN old : new[n] = old[o]}
        moved    == {o \in DOMAIN old \ DOMAIN new : Cardinality(twins(o)) = 1}
    IN  [o \in moved |-> CHOOSE n \in twins(o) : TRUE]

Analysis ==
    LET old     == Present(start.base.files)
        new     == Present(binding.files)
        oldUnity == ContextOf(start.base.files, attested.old)
        newUnity == ContextOf(binding.files, attested.new)
        before  == LaneGraph(old, oldUnity)
        after   == LaneGraph(new, newUnity)
        diff    == Diff(before, after, Renames(old, new), start.hints)
    IN  [old |-> before, new |-> after, diff |-> diff, files |-> [old |-> old, new |-> new],
         contexts |-> [old |-> oldUnity, new |-> newUnity], attested |-> attested,
         number |-> issued,
         status |-> IF /\ diff.status = "COMPLETE"
                       /\ oldUnity.completeness = "COMPLETE" /\ newUnity.completeness = "COMPLETE"
                    THEN "FRESH" ELSE "PARTIAL"]

(***************************************************************************)
(* Commands.                                                               *)
(***************************************************************************)
NoOutputs == [old |-> None, new |-> None]

ExplainInit ==
    /\ start \in Starts
    /\ disk = start.disk
    /\ building = None /\ torn = FALSE /\ past = {} /\ moves = 0
    /\ command = None /\ pc = "ended" /\ draft = None
    /\ binding = None /\ attested = NoOutputs /\ analysis = None /\ story = None
    /\ out = [page |-> None, story |-> None, analysis |-> None]
    /\ result = None /\ issued = 0

Begin ==
    /\ pc = "ended" /\ issued < start.commands
    /\ issued' = issued + 1
    /\ command' \in start.requests
    /\ Step(FirstStep[command'.kind])
    /\ past' = {}
    /\ result' = None
    /\ UNCHANGED <<start, disk, building, torn, moves, draft, binding, attested,
                   analysis, story, out>>

Clear == binding' = None /\ attested' = NoOutputs /\ analysis' = None /\ story' = None

\* Every guard that does not hold ends a command with an error, and a command may be
\* killed between any two steps.
Stop ==
    /\ pc # "ended"
    /\ Step("ended") /\ draft' = None /\ Clear
    /\ result' = None
    /\ UNCHANGED <<diskVars, command, out, issued>>

Bind ==
    /\ pc = "bind"
    /\ binding' = [files |-> disk.files, compile |-> disk.compile,
                   provenance |-> disk.provenance]
    /\ Step("attest-old")
    /\ UNCHANGED <<diskVars, command, draft, attested, analysis, story, out, result, issued>>

\* The base commit is past: an output that differs is left out.
OldOutput == IF OutputStatus(start.base) = "exact" THEN disk.outputs[Used] ELSE None
AttestOld ==
    /\ pc = "attest-old"
    /\ OutputStatus(start.base) # "stale"
    /\ attested' = [attested EXCEPT !.old = OldOutput]
    /\ LaneReady(start.base.files, attested'.old)
    /\ Step("attest-new")
    /\ UNCHANGED <<diskVars, command, draft, binding, analysis, story, out, result, issued>>

\* In the worktree a different output is an error, and an equal one is exported again.
AttestNew_ByHash ==
    /\ pc = "attest-new"
    /\ OutputStatus(binding) \in {"none", "exact"}
    /\ attested' = [attested EXCEPT !.new =
                       IF OutputStatus(binding) = "exact" THEN disk.outputs[Used] ELSE None]
    /\ Step("analyse")
    /\ UNCHANGED <<diskVars, command, draft, binding, analysis, story, out, result, issued>>
AttestNew ==
    /\ pc = "attest-new"
    /\ OutputStatus(binding) \in {"none", "exact"}
    /\ Step(IF OutputStatus(binding) = "exact" THEN "hold-manifest" ELSE "analyse")
    /\ UNCHANGED <<diskVars, command, draft, binding, attested, analysis, story, out, result, issued>>

CompareProvenance ==
    /\ pc = "compare-provenance"
    /\ draft = binding.provenance
    /\ attested' = [attested EXCEPT !.new = binding.provenance.output]
    /\ draft' = None
    /\ Step("analyse")
    /\ UNCHANGED <<diskVars, command, binding, analysis, story, out, result, issued>>

\* The workers read the outputs they were given again; the snapshot is checked last.
Exact(output) == output # None => disk.outputs[Used] = output
Current ==
    /\ Present(disk.files) = Present(binding.files)
    /\ disk.compile = binding.compile /\ disk.provenance = binding.provenance

Analyse ==
    /\ pc = "analyse"
    /\ LaneReady(binding.files, attested.new)
    /\ Exact(attested.old) /\ Exact(attested.new)
    /\ HintsResolve(LaneGraph(Present(start.base.files),
                              ContextOf(start.base.files, attested.old)),
                    LaneGraph(Present(binding.files), ContextOf(binding.files, attested.new)),
                    start.hints)
    /\ analysis' = Analysis
    /\ Step("check-current")
    /\ UNCHANGED <<diskVars, command, draft, binding, attested, story, out, result, issued>>

CheckCurrent ==
    /\ pc = "check-current"
    /\ Current
    /\ Step("tell")
    /\ UNCHANGED <<diskVars, command, draft, binding, attested, analysis, story, out, result, issued>>

\* render-report takes the analysis a former command saved.
ReadAnalysis ==
    /\ pc = "read-analysis" /\ out.analysis # None
    /\ analysis' = out.analysis
    /\ Step("tell")
    /\ UNCHANGED <<diskVars, command, draft, binding, attested, story, out, result, issued>>

Tell ==
    /\ pc = "tell"
    /\ \E graph \in {Story!View(analysis)} : story' = Story!Facts(analysis, start.intent, graph)
    /\ Step("draw")
    /\ UNCHANGED <<diskVars, command, draft, binding, attested, analysis, out, result, issued>>

Draw ==
    /\ pc = "draw"
    /\ \E map \in {Story!MapOf(story)} : story' = Story!Presented(story, map)
    /\ Step("write-page")
    /\ UNCHANGED <<diskVars, command, draft, binding, attested, analysis, out, result, issued>>

\* Each file is written beside its place and renamed over it: the page, then the
\* story and, of "explain", the analysis, if they were asked for.
After_Either(written) ==
    IF written = "page" /\ command.analysis THEN "write-analysis"
    ELSE IF written = "page" /\ command.story THEN "write-story"
    ELSE "done"
After(written) ==
    IF written = "page" /\ command.story THEN "write-story"
    ELSE IF written # "analysis" /\ command.analysis THEN "write-analysis"
    ELSE "done"

Write(file, content) ==
    /\ out' = [out EXCEPT ![file] = content]
    /\ Step(After(file))
    /\ UNCHANGED <<diskVars, command, draft, binding, attested, analysis, story, result, issued>>

WritePage     == pc = "write-page" /\ Write("page", analysis.number)
WriteStory    == pc = "write-story" /\ Write("story", analysis.number)
WriteAnalysis == pc = "write-analysis" /\ Write("analysis", analysis)

Done ==
    /\ pc = "done"
    /\ result' = [kind |-> "story", number |-> analysis.number]
    /\ Step("ended") /\ Clear
    /\ UNCHANGED <<diskVars, command, draft, out, issued>>

\* unity-context --graph: read only.
ShowGraph ==
    /\ pc = "read-projects"
    /\ \A name \in Unity!AssembliesFrom(LiveRoot, Game) \cap DOMAIN start.unity.projects :
          Unity!Buildable(LiveRoot, name)
    /\ result' = [kind |-> "graph", graph |-> Unity!AssemblyGraph(LiveRoot, Game)]
    /\ Step("ended")
    /\ UNCHANGED <<diskVars, command, draft, binding, attested, analysis, story, out, issued>>

ExplainStep ==
    \/ Bind \/ AttestOld \/ AttestNew \/ CompareProvenance \/ Analyse \/ CheckCurrent
    \/ ReadAnalysis \/ Tell \/ Draw \/ WritePage \/ WriteStory \/ WriteAnalysis \/ Done \/ ShowGraph

ExplainNext ==
    \/ ProvenanceStep /\ UNCHANGED explainVars
    \/ Begin \/ Stop \/ ExplainStep

ExplainSpec == ExplainInit /\ [][ExplainNext]_vars
=============================================================================
