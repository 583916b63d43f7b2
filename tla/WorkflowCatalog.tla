--------------------------- MODULE WorkflowCatalog ---------------------------
(***************************************************************************)
(* The workflow definitions of WorkflowCatalog, MvpWorkflowCatalog and     *)
(* DirectWorkflowService, and what WorkflowDefinition.Validate demands of  *)
(* any of them.  A definition is a record; handler names, contracts, roles *)
(* and deadlines are left out, a node's retry allowance is kept.           *)
(***************************************************************************)
EXTENDS Naturals, Sequences, FiniteSets

Risks == {"Fast", "Standard", "Critical"}

Complete == "$complete"

Elements(seq) == {seq[i] : i \in DOMAIN seq}

\* Success leads from each node to the next of the sequence, from the last one out.
Successors(seq) ==
    {[from |-> seq[i], outcome |-> "Succeeded",
      target |-> IF i < Len(seq) THEN seq[i + 1] ELSE Complete] : i \in DOMAIN seq}

Reworks(nodes, target) ==
    {[from |-> n, outcome |-> "ReworkRequired", target |-> target] : n \in nodes}

\* Only "codex" writes the workspace; no node of the catalogs may be retried.
Flow(kind, seq, extra, reworks, target, budget) ==
    [kind     |-> kind,
     entry    |-> seq[1],
     nodes    |-> Elements(seq) \cup extra,
     routes   |-> Successors(seq) \cup Reworks(reworks, target),
     required |-> seq,
     writes   |-> Elements(seq) \cap {"codex"},
     retries  |-> [n \in Elements(seq) \cup extra |-> 0],
     budget   |-> budget,
     target   |-> target]

UnlessFast(risk, nodes) == IF risk = "Fast" THEN {} ELSE nodes

FirstSequence(risk) ==
    CASE risk = "Fast"     -> <<"codex", "test", "diff", "deliver">>
      [] risk = "Standard" -> <<"grounding", "plan", "codex", "test", "review", "deliver">>
      [] risk = "Critical" -> <<"grounding", "architecture", "plan", "codex", "test",
                                "independent-verify", "review", "human", "deliver">>

FirstFlow(risk) ==
    Flow("first", FirstSequence(risk), {},
         UnlessFast(risk, Elements(FirstSequence(risk))
                            \cap {"review", "independent-verify", "test"}), "codex", 3)

MvpSequence(risk) ==
    CASE risk = "Fast"     -> <<"codex", "test", "deliver">>
      [] risk = "Standard" -> <<"grounding", "plan", "codex", "test", "review", "deliver">>
      [] risk = "Critical" -> <<"grounding", "plan", "codex", "test", "review", "human",
                                "deliver">>

MvpFlow(risk) == Flow("mvp", MvpSequence(risk), {}, UnlessFast(risk, {"review"}), "codex", 2)

ThinSequence(risk) ==
    CASE risk = "Fast"     -> <<"codex", "test", "deliver">>
      [] risk = "Standard" -> <<"prepare", "codex", "test", "review", "deliver">>
      [] risk = "Critical" -> <<"prepare", "codex", "test", "review", "human", "deliver">>

ThinFlow(risk) == Flow("thin", ThinSequence(risk), {}, UnlessFast(risk, {"review"}), "codex", 2)

\* Preparation happened in the discussion; a failed test goes back to the primary.
FusionFlow(risk) ==
    LET NotPrepare(n) == n # "prepare"
    IN  Flow("fusion", SelectSeq(ThinSequence(risk), NotPrepare), {},
             UnlessFast(risk, {"review"}) \cup {"test"}, "codex", 2)

DirectSequence(risk) ==
    IF risk = "Fast" THEN <<"submitted", "test", "deliver">>
                     ELSE <<"submitted", "test", "review", "deliver">>

DirectFlow(risk) ==
    Flow("direct", DirectSequence(risk), {"primary-rework"},
         UnlessFast(risk, {"review"}) \cup {"test"}, "primary-rework", 1)

Catalog ==
    UNION {{FirstFlow(r), MvpFlow(r), ThinFlow(r), FusionFlow(r), DirectFlow(r)} : r \in Risks}

\* A route is ambiguous when two of them leave a node on one outcome.
Deterministic(routes) ==
    \A r, q \in routes : r.from = q.from /\ r.outcome = q.outcome => r = q

Valid(d) ==
    /\ d.entry \in d.nodes
    /\ d.target \in d.nodes
    /\ d.required \in Seq(d.nodes) \ {<<>>} /\ d.budget \in Nat
    /\ d.retries \in [d.nodes -> Nat] /\ ("human" \in d.nodes => d.retries["human"] = 0)
    /\ \A r \in d.routes : r.from \in d.nodes /\ r.target \in d.nodes \cup {Complete}
    /\ Deterministic(d.routes)

MayRework(d, node) == \E r \in d.routes : r.from = node /\ r.outcome = "ReworkRequired"

\* WorkflowDefinition.Next throws where there is no route.
HasNext(d, node) == \E r \in d.routes : r.from = node /\ r.outcome = "Succeeded"

NextNode(d, node) ==
    (CHOOSE r \in d.routes : r.from = node /\ r.outcome = "Succeeded").target

(***************************************************************************)
(* What the catalogs' definitions have beyond that: success leads through  *)
(* the required steps in their order and nowhere else, and findings never  *)
(* lead forward.                                                           *)
(***************************************************************************)
InOrder(d) ==
    LET Steps == DOMAIN d.required
    IN  /\ d.entry = d.required[1]
        /\ \A i \in Steps : d.required[i] \notin {"", Complete}
        /\ \A i, j \in Steps : d.required[i] = d.required[j] => i = j
        /\ {r \in d.routes : r.outcome = "Succeeded"} = Successors(d.required)
        /\ \A r \in d.routes : r.outcome = "ReworkRequired" =>
              \E i \in Steps : /\ r.from = d.required[i]
                              /\ \A j \in Steps : d.required[j] = d.target => j <= i

\* Nothing but review, the Owner's decision and delivery follows the tests, and all of them
\* do: so it is in every catalog but the first.
TestsLead(d) ==
    \E t \in DOMAIN d.required :
        /\ d.required[t] = "test"
        /\ d.nodes \cap {"review", "human", "deliver"} =
              {d.required[i] : i \in (t + 1)..Len(d.required)}

\* Every definition of the three catalogs is one the coordinator accepts.
ASSUME CatalogIsValid == \A d \in Catalog : Valid(d)
ASSUME CatalogIsInOrder == \A d \in Catalog : InOrder(d)
ASSUME CatalogTests ==
    \A r \in Risks : \A d \in {MvpFlow(r), ThinFlow(r), FusionFlow(r), DirectFlow(r)} : TestsLead(d)
=============================================================================
