-------------------------- MODULE ExplainProperties --------------------------
(***************************************************************************)
(* What a story tells of an analysis, and what the files of Change Lens    *)
(* can be relied on for.                                                   *)
(***************************************************************************)
EXTENDS ExplainChange

\* The story is complete.
Told == story # None /\ pc # "draw"

Context(x) == x.change = "UNCHANGED_CONTEXT"
AreaOf(n)  == Area[n.path]

\* Nothing that changed is left out of the list of changes of change-story.json, however
\* nodes were paired, renamed, moved or marked through their relations, unless the list
\* is at its cap (change_story.py 950-983).
NothingHidden ==
    Told /\ Len(story.changes) < Limit.changes =>
        \A n \in story.graph.nodes :
            ~Context(n) => \E i \in DOMAIN story.changes : n \in story.changes[i].nodes

\* Every relation a lane shows is on one of its chains, or the lane says that chains were
\* cut, as long as its relations form no cycle: one that is entered from nowhere has no
\* chain (change_story.py 894-948; docs/CHANGE_STORY.en.md).
Acyclic(edges) ==
    LET ends == {e.src : e \in edges} \cup {e.dst : e \in edges}
    IN  \A S \in SUBSET ends :
            S # {} => \E n \in S : \A e \in edges : e.dst = n => e.src \notin S

ChainsDisclosed ==
    Told => \A lane \in {story.lanes.old, story.lanes.new} :
        Acyclic(Range(lane.relationships)) /\ "chains" \notin lane.limitations =>
            \A e \in Range(lane.relationships) : \E c \in Range(lane.chains) : e \in Range(c)

\* The storyboard loses no item of its scenario and shows none twice, and its arrows are
\* relations that changed, between the slots of their ends, in the picture of their own
\* revision only (change_story.py 460-599).
ArrowsAreRelations ==
    Told => LET scenario == story.scenarios[1]
                slots    == story.board.slots
            IN  /\ \A side \in {"before", "after"} : \A n \in Range(scenario[side]) :
                      Cardinality({i \in DOMAIN slots : n \in slots[i][side]}) = 1
                /\ \A c \in Range(story.board.connectors) :
                      /\ c.edge \in story.graph.edges /\ ~Context(c.edge)
                      /\ c.edge.src \in slots[c.src].before \cup slots[c.src].after
                      /\ c.edge.dst \in slots[c.dst].before \cup slots[c.dst].after
                      /\ "BEFORE" \in c.views => c.edge.role = "OLD"
                      /\ "AFTER" \in c.views => c.edge.role = "NEW"

\* When a symbol that is neither test nor generated code changed, no scenario is told
\* about these: they "cannot displace the primary business flow" (change_story.py
\* 1494-1501, docs/CHANGE_STORY.en.md).
TestsNeverDisplace ==
    Told /\ (\E n \in story.graph.nodes : /\ ~Context(n)
                                          /\ n.kind \in {"TYPE", "METHOD", "STATE", "EVENT"}
                                          /\ AreaOf(n) \notin {"TEST", "GENERATED"}) =>
        \A scenario \in Range(story.scenarios) :
            \A n \in Range(scenario.before) \cup Range(scenario.after) :
                AreaOf(n) \notin {"TEST", "GENERATED"}

\* A story of incomplete evidence says so wherever it is read: as its first risk, on the
\* map, as the state of the mission and as one of its steps, and states nothing as
\* confirmed; one of complete evidence has none of these marks (change_story.py 602-795,
\* 1378-1414, 2139-2176).
PartialIsSaid ==
    Told => LET partial == story.status = "PARTIAL"
            IN  /\ partial = (story.risks # <<>> /\ story.risks[1] = "partial")
                /\ partial = (story.map.risk = "partial")
                /\ partial = (story.mission.state = "PARTIAL")
                /\ partial = ("EVIDENCE_BOUNDARY" \in Range(story.mission.steps))
                /\ partial = (\A c \in story.claims : c.confidence # "CONFIRMED_STATIC")

\* Complete evidence rests on no output of another assembly, not even an attested one: a
\* FRESH analysis has no reference that is compiled against, on either side, and a
\* COMPLETE assembly graph is one applicable assembly (unity_context.py 259-436;
\* docs/IMPLEMENTATION_PLAN.en.md, CL-AC-012).
FreshStandsAlone ==
    /\ analysis # None /\ analysis.status = "FRESH" =>
          \A c \in {analysis.contexts.old, analysis.contexts.new} :
              c.applies = "APPLICABLE" /\ \A u \in c.uses : ~u.use.output
    /\ result # None /\ result.kind = "graph" /\ result.graph.completeness = "COMPLETE" =>
          result.graph.assemblies = {Game}

\* An output that the worktree's analysis took as attested was compiled of the sources
\* and the definition that the analysis binds, although the exporter, the analysis, the
\* editors and Unity run side by side and nothing locks a file; unless a file changed
\* while Unity was compiling (build_provenance.py 259-331; revision_analysis.py 448-551).
AttestedIsCompiled ==
    Told /\ binding # None /\ analysis.attested.new # None /\ ~torn =>
        BuiltOf(analysis.attested.new, start.unity, binding.files)

\* A saved analysis is never ahead of the page, whichever write a command was killed
\* before, and after a command that succeeded the files it was asked for are of one
\* analysis (cli.py 282-323).
BundleAgrees ==
    /\ out.analysis # None => out.page # None /\ out.analysis.number <= out.page
    /\ result # None /\ result.kind = "story" =>
          /\ out.page = result.number
          /\ command.story => out.story = result.number
          /\ command.analysis => out.analysis.number = result.number
=============================================================================
