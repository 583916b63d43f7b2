----------------------------- MODULE ChangeStory -----------------------------
(***************************************************************************)
(* ChangeStoryBuilder.build (Change Lens): a revision analysis is told to  *)
(* a reader, as bounded lanes of relations, cards, scenarios, a map, a     *)
(* daily brief, a verification mission and a storyboard.                   *)
(*                                                                         *)
(* Labels and paths are numbers in the order of their texts.  What the     *)
(* builder reads off a text is given by Words and Area; the wording it     *)
(* prints is left out.  A file declares in the order of its labels.        *)
(***************************************************************************)
EXTENDS GraphDiff, Integers, SequencesExt

CONSTANTS
    Area,  \* of each path
    Words, \* of each label: compact, recipe, says, tokens, owner, contains, role, bonus
    Limit, \* the bounds of the report, by name
    None

(***************************************************************************)
(* The analysis as one graph: nodes and relations of both revisions, each  *)
(* with its change.                                                        *)
(***************************************************************************)
NodeOf(role, n, change) ==
    [role |-> role, kind |-> n.kind, label |-> n.label, at |-> n.at, path |-> n.path,
     change |-> change]

EdgesOf(role, edges, changed, change, nodes) ==
    LET EndOf(id) == CHOOSE n \in nodes : n.role = role /\ Id(n) = id
    IN  {[role |-> role, rel |-> e.rel, src |-> EndOf(e.src), dst |-> EndOf(e.dst),
          change |-> IF e \in changed THEN change ELSE "UNCHANGED_CONTEXT"] : e \in edges}

IsContext(x) == x.change = "UNCHANGED_CONTEXT"
AreaOf(n)    == Area[n.path]
Compact(n)   == Words[n.label].compact

\* Sorting by a tuple of numbers, and the first of a list.  The lists are recursive functions
\* of sets, about which ExplainProofs proves; SelectSeq and FoldLeft take operators.
Precedes(s, t) == \E i \in DOMAIN s : (\A j \in 1..(i - 1) : s[j] = t[j]) /\ s[i] < t[i]
Least(T, key) ==
    LET least == {x \in T : \A y \in T : ~Precedes(key[y], key[x])}
    IN  CHOOSE x \in T : least # {} => x \in least
Sorted(S, key) ==
    LET sorted[n \in 0..Cardinality(S)] ==
            IF n = 0 THEN <<>>
            ELSE LET lesser == sorted[n - 1] IN Append(lesser, Least(S \ Range(lesser), key))
    IN  sorted[Cardinality(S)]
Ordered(S, Key(_)) == Sorted(S, [x \in S |-> Key(x)])
First(n, s) == IF Len(s) <= n THEN s ELSE SubSeq(s, 1, n)

\* A list without what is not in T, or fails a test.
Only(s, T) ==
    LET places == Sorted({i \in DOMAIN s : s[i] \in T}, [i \in DOMAIN s |-> <<i>>])
    IN  [j \in DOMAIN places |-> s[places[j]]]
Where(s, Test(_)) == Only(s, {x \in Range(s) : Test(x)})

\* Walk a list, taking what is not Known yet, until there are "limit" of them.
Unlike(s, limit, alike) ==
    LET taken[n \in 0..Len(s)] ==
            IF n = 0 THEN <<>>
            ELSE LET before == taken[n - 1]
                 IN  IF Len(before) >= limit \/ \E y \in Range(before) : <<y, s[n]>> \in alike
                     THEN before ELSE Append(before, s[n])
    IN  taken[Len(s)]
Distinct(s, limit, Known(_, _)) ==
    Unlike(s, limit, {p \in Range(s) \X Range(s) : Known(p[1], p[2])})

SideRank(n)  == IF n.role = "OLD" THEN 0 ELSE 1
RelationRank == [AWAITS |-> 0, BRANCHES_TO |-> 1, DIRECT_CALL |-> 2, RETURNS_FROM |-> 3,
                 THROWS_FROM |-> 4, WRITES_STATE |-> 5]
AreaRank     == [CONFIGURATION |-> 0, SERVER |-> 1, PROTOCOL |-> 2, EDITOR |-> 3,
                 CLIENT |-> 4, RUNTIME |-> 5, TEST |-> 6, GENERATED |-> 7]
AreasOf(nodes) == Ordered({AreaOf(n) : n \in nodes}, LAMBDA area : <<AreaRank[area]>>)

NodeKey(n) == <<n.label, n.at[1], n.at[2], SideRank(n)>>
EdgeKey(e) == <<e.src.path, e.src.at[2], e.src.label, RelationRank[e.rel]>>
              \o NodeKey(e.dst)

(***************************************************************************)
(* What the reader should look at: changed nodes by score.                 *)
(***************************************************************************)
Changed(g) == {e \in g.edges : ~IsContext(e)}

ChangeScore == [ADDED |-> 12, REMOVED |-> 11, UPDATED |-> 10, MOVED |-> 9,
                UNCHANGED_CONTEXT |-> -8]
KindScore(kind) ==
    CASE kind = "METHOD" -> 7
      [] kind = "TYPE" -> 5
      [] kind \in {"STATE", "EVENT"} -> 3
      [] kind = "CONDITION" -> 1
      [] kind \in {"RETURN", "THROW"} -> 0
AreaScore(area) ==
    CASE area = "GENERATED" -> -12
      [] area = "TEST" -> -7
      [] area \in {"CONFIGURATION", "SERVER", "PROTOCOL", "CLIENT"} -> 3
      [] OTHER -> 0

Score(n) == ChangeScore[n.change] + KindScore(n.kind) + Words[n.label].bonus
            + AreaScore(AreaOf(n))

Degree(g, n) == Cardinality({e \in Changed(g) : e.src = n})
                + Cardinality({e \in Changed(g) : e.dst = n})
AtMost(i, cap) == IF i < cap THEN i ELSE cap
AtLeast0(i)    == IF i < 0 THEN 0 ELSE i
Total(s)       == FoldLeft(LAMBDA sum, i : sum + i, 0, s)
FullScore(g, n) == Score(n) + AtMost(Degree(g, n), 5)

FocusNodes(g) ==
    Ordered({n \in g.nodes : ~IsContext(n)},
            LAMBDA n : <<-FullScore(g, n), AreaRank[AreaOf(n)]>> \o NodeKey(n))

Relate(a) ==
    LET Old(n) == NodeOf("OLD", n, a.diff.labels.old[n])
        New(n) == NodeOf("NEW", n, a.diff.labels.new[n])
        nodes  == {Old(n) : n \in a.old.nodes} \cup {New(n) : n \in a.new.nodes}
    IN  [nodes    |-> nodes,
         edges    |-> EdgesOf("OLD", a.old.edges, a.diff.removed, "REMOVED", nodes)
                      \cup EdgesOf("NEW", a.new.edges, a.diff.added, "ADDED", nodes),
         mappings |-> {[old |-> Old(m.old), new |-> New(m.new), kind |-> m.kind] :
                          m \in a.diff.mappings}]

\* A record with the fields of another.
Joined(r, s) == [f \in DOMAIN r \cup DOMAIN s |-> IF f \in DOMAIN r THEN r[f] ELSE s[f]]

View(a) == LET g == Relate(a) IN Joined(g, [focus |-> FocusNodes(g)])

(***************************************************************************)
(* The lanes: relations of a revision and the chains they form.            *)
(***************************************************************************)
Relationships(g, role) ==
    Ordered({e \in g.edges : e.role = role /\ ~(IsContext(e) /\ IsContext(e.src)
                                                  /\ IsContext(e.dst))}, EdgeKey)

Roots(edges) ==
    LET sources == {e.src : e \in edges}
        entries == sources \ {e.dst : e \in edges}
    IN  IF entries = {} THEN sources ELSE entries

\* A walk never returns to a node; it ends where it cannot go on or after Limit.hops.
StartAt(root)     == [at |-> root, met |-> {root}, path |-> <<>>, key |-> NodeKey(root)]
Onward(edges, w)  == {e \in edges : e.src = w.at /\ e.dst \notin w.met}
Follow(w, e)      == [at |-> e.dst, met |-> w.met \cup {e.dst}, path |-> Append(w.path, e),
                      key |-> w.key \o <<RelationRank[e.rel]>> \o NodeKey(e.dst)]

Walks(edges) ==
    LET reach[i \in 0..Limit.hops] ==
            IF i = 0 THEN {StartAt(root) : root \in Roots(edges)}
            ELSE UNION {{Follow(w, e) : e \in Onward(edges, w)} : w \in reach[i - 1]}
    IN  {w \in UNION {reach[i] : i \in 1..Limit.hops} :
            Onward(edges, w) = {} \/ Len(w.path) = Limit.hops}

\* Depth first from the roots, the first Limit.chains of them.
Chains(edges) ==
    LET walks == Ordered(Walks(edges), LAMBDA w : w.key)
    IN  [chains    |-> [i \in DOMAIN First(Limit.chains, walks) |-> walks[i].path],
         truncated |-> \/ Len(walks) > Limit.chains
                       \/ \E w \in Range(walks) : Onward(edges, w) # {}]

LaneOf_CountOnly(g, role) ==
    LET shown == First(Limit.relationships, Relationships(g, role))
        walk  == Chains(Range(shown))
    IN  [relationships |-> shown, chains |-> walk.chains,
         limitations   |-> IF Len(walk.chains) >= Limit.chains THEN {"chains"} ELSE {}]
LaneOf(g, role) ==
    LET all   == Relationships(g, role)
        shown == First(Limit.relationships, all)
        walk  == Chains(Range(shown))
    IN  [relationships |-> shown, chains |-> walk.chains,
         limitations   |-> (IF shown # all THEN {"relationships"} ELSE {})
                           \cup (IF walk.truncated THEN {"chains"} ELSE {})]

(***************************************************************************)
(* Cards, steps and decisions.                                             *)
(***************************************************************************)
Product(n)  == AreaOf(n) \notin {"TEST", "GENERATED"}
Callable(n) == n.kind \in {"METHOD", "TYPE"}
Subject(n)  == n.kind \in {"METHOD", "TYPE", "EVENT", "STATE"}
Detail(n)   == n.kind \in {"CONDITION", "RETURN"}
Decision(n) == Detail(n) \/ n.kind = "THROW"
FileOrder(n) == <<n.path>> \o NodeKey(n)

\* The words the change is about: those of added declarations, or of any new one.
TopicTokens(g) ==
    LET Collect(s, cap, Wanted(_)) ==
            FoldLeft(LAMBDA tokens, n : IF Cardinality(tokens) >= cap \/ ~Wanted(n) THEN tokens
                                        ELSE tokens \cup Words[n.label].tokens, {}, s)
        typesFirst == Ordered(Range(g.focus),
                              LAMBDA n : <<IF n.kind = "TYPE" THEN 0 ELSE 1, -Score(n)>> \o NodeKey(n))
        added == Collect(typesFirst, 12, LAMBDA n : /\ n.role = "NEW" /\ n.change = "ADDED"
                                                    /\ Callable(n) /\ Product(n))
    IN  IF added # {} THEN added
        ELSE Collect(g.focus, 8, LAMBDA n : n.role = "NEW" /\ Callable(n))

OnTopic(n, topic, least) == Cardinality(Words[n.label].tokens \cap topic) >= least

\* One card per area, the heaviest areas first; generated code only when alone.
ChangeCards(g, topic) ==
    LET focus    == g.focus
        In(area) == Where(focus, LAMBDA n : AreaOf(n) = area)
        Weight(area) == Total([i \in DOMAIN First(8, In(area)) |-> AtLeast0(Score(In(area)[i]))])
        all      == {AreaOf(n) : n \in Range(focus)}
        areas    == IF all \ {"GENERATED"} # {} THEN all \ {"GENERATED"} ELSE all
        ranked   == Ordered(areas, LAMBDA area : <<-Weight(area), AreaRank[area]>>)
        About(area) ==
            LET named == Where(In(area), LAMBDA n :
                                      OnTopic(n, topic, IF area = "TEST" THEN 1 ELSE 2))
                nodes == IF named # <<>> THEN named ELSE In(area)
                listed == IF area # "EDITOR" THEN nodes
                          ELSE Ordered(Range(nodes), LAMBDA n :
                                  <<IF n.kind = "TYPE" THEN 0 ELSE 1, -Score(n)>> \o NodeKey(n))
                chosen == Distinct(Where(listed, LAMBDA n : ~Detail(n)), 3,
                                   LAMBDA x, y : x.label = y.label)
            IN  IF chosen # <<>> THEN chosen ELSE First(2, nodes)
        card(area) == [area |-> area, nodes |-> Range(About(area))]
    IN  {card(area) : area \in Range(First(Limit.cards, ranked))}

\* A changed file whose type is named by what changed elsewhere.
ContextCards(g, files, taken) ==
    LET named  == UNION {Words[n.label].contains : n \in {x \in g.nodes : ~IsContext(x)}}
        around == {m \in g.mappings :
                      /\ m.new.kind = "TYPE"
                      /\ AreaOf(m.new) \notin taken \cup {"GENERATED"}
                      /\ files.old[m.old.path] # files.new[m.new.path]
                      /\ Compact(m.new) \in named}
        areas  == {AreaOf(m.new) : m \in around}
        FirstOf(area) == CHOOSE n \in {m.new : m \in around} :
                            /\ AreaOf(n) = area
                            /\ \A m \in around : AreaOf(m.new) = area => n.label <= m.new.label
    IN  {[area |-> area, nodes |-> {FirstOf(area)}] : area \in areas}

Cards(g, files) ==
    LET own == ChangeCards(g, TopicTokens(g))
    IN  First(Limit.cards,
              Ordered(own \cup ContextCards(g, files, {c.area : c \in own}),
                      LAMBDA c : <<AreaRank[c.area]>>))

\* Along the areas, the named declarations of one revision.
FlowSteps(g, role) ==
    LET topic == TopicTokens(g)
        Cap(area) == IF role = "NEW" /\ area = "SERVER" THEN 4
                     ELSE IF role = "NEW" /\ area = "EDITOR" THEN 6 ELSE 2
        In(area) == Where(g.focus, LAMBDA n :
                        /\ n.role = role /\ AreaOf(n) = area /\ Subject(n)
                        /\ OnTopic(n, topic, 2))
        TwoPerOwner(s) == FoldLeft(LAMBDA kept, n :
            IF Len(Where(kept, LAMBDA x : Words[x.label].owner = Words[n.label].owner)) >= 2
            THEN kept ELSE Append(kept, n), <<>>, s)
        Chosen(area) ==
            Distinct(IF area = "EDITOR" THEN TwoPerOwner(In(area)) ELSE In(area), Cap(area),
                     LAMBDA x, y : Compact(x) = Compact(y))
        areas == AreasOf({n \in g.nodes : ~IsContext(n) /\ n.role = role /\ Product(n)})
    IN  First(Limit.flow, FoldLeft(LAMBDA s, area : s \o Ordered(Range(Chosen(area)), FileOrder),
                                   <<>>, areas))

\* Per area, what to look at first and the changed relations inside it.
DeepStages(g) ==
    LET focus    == Where(g.focus, LAMBDA n : AreaOf(n) # "GENERATED")
        In(area) == Where(focus, LAMBDA n : AreaOf(n) = area /\ ~Detail(n))
        Inside(area) == {e \in Changed(g) : AreaOf(e.src) = area /\ AreaOf(e.dst) = area}
        stage(area) ==
            [area |-> area,
             items |-> Distinct(In(area), Limit.stage,
                                LAMBDA x, y : x.role = y.role /\ x.label = y.label),
             relationships |-> First(8, Ordered(Inside(area), LAMBDA e :
                <<IF e.rel = "DIRECT_CALL" THEN 0 ELSE 1, e.src.label, e.dst.label>> \o EdgeKey(e)))]
        areas == Where(AreasOf(Range(focus)), LAMBDA area : In(area) # <<>>)
    IN  [i \in DOMAIN areas |-> stage(areas[i])]

\* Conditions, returns and throws the new revision adds, each under the first of what leads to it.
DecisionPoints(g) ==
    LET added    == Where(g.focus, LAMBDA n :
                        n.role = "NEW" /\ n.change = "ADDED" /\ Decision(n) /\ Product(n))
        Leads(n) == Ordered({e \in g.edges : e.role = "NEW" /\ e.change = "ADDED" /\ e.dst = n},
                            LAMBDA e : <<RelationRank[e.rel]>> \o NodeKey(e.src))
        point(n) == [node |-> n, under |-> IF Leads(n) = <<>> THEN None ELSE Leads(n)[1]]
    IN  First(Limit.decisions, [i \in DOMAIN added |-> point(added[i])])

\* At most four, the missing compile context before all others.
RiskCards(status, cards) ==
    LET areas == {c.area : c \in Range(cards)}
        when(condition, risk) == IF condition THEN <<risk>> ELSE <<>>
    IN  First(4, when(status = "PARTIAL", "partial")
                 \o when({"SERVER", "CLIENT"} \subseteq areas, "cross-runtime")
                 \o when("PROTOCOL" \in areas, "protocol")
                 \o when("CONFIGURATION" \in areas, "configuration"))

(***************************************************************************)
(* The map on the first screen.                                            *)
(***************************************************************************)
Renaming(m) == m.kind \in {"RENAMED", "MOVED", "RENAMED_AND_MOVED"}

MapFocus(g) == Where(g.focus, LAMBDA n : AreaOf(n) # "GENERATED")

MapShape(g) ==
    LET focus == Range(MapFocus(g))
        areas == {AreaOf(n) : n \in focus}
        old   == \E n \in focus : n.role = "OLD"
        new   == \E n \in focus : n.role = "NEW"
    IN  CASE areas = {} -> "PARALLEL"
          [] areas = {"TEST"} -> "TEST_ONLY"
          [] areas \subseteq {"CONFIGURATION", "PROTOCOL"} -> "CONFIG_PROTOCOL"
          [] OTHER -> IF old /\ new THEN "MODIFIED" ELSE IF new THEN "ADDED" ELSE "REMOVED"

\* Types with a role in their name, then by score, each short name once; a condition
\* only when nothing else came first.
Picked(nodes, limit) ==
    LET Main(n) == n.kind = "TYPE" /\ Words[n.label].role
        ranked  == Ordered(nodes, LAMBDA n : <<IF Main(n) THEN 0 ELSE 1, -Score(n)>> \o NodeKey(n))
    IN  Distinct(ranked, limit, LAMBDA x, y : Detail(y) \/ Compact(x) = Compact(y))

Item(role, change, refs) == [role |-> role, change |-> change, refs |-> refs]
ContextItem(role, refs)  == Item(role, "CONTEXT", refs)
NodeItems(role, s)       == [i \in DOMAIN s |-> Item(role, s[i].change, {s[i]})]

\* What changed, for two-sided changes first as pairs, then as additions.
MapChanges(g, shape) ==
    LET OfRole(role) == {n \in Range(MapFocus(g)) : n.role = role}
        told(m)  == /\ Renaming(m) \/ ~IsContext(m.old)
                    /\ Renaming(m) \/ Compact(m.old) # Compact(m.new)
        pairs    == First(Limit.mapChanges, Ordered({m \in g.mappings : told(m)},
                                                    LAMBDA m : NodeKey(m.old)))
        paired   == [i \in DOMAIN pairs |->
                        Item("CHANGE", IF Renaming(pairs[i]) THEN pairs[i].kind ELSE pairs[i].old.change,
                             {pairs[i].old, pairs[i].new})]
        added    == Picked({n \in OfRole("NEW") : n.change = "ADDED"}, Limit.mapChanges)
        listed   == IF shape # "MODIFIED" THEN <<>>
                    ELSE First(Limit.mapChanges, paired \o NodeItems("CHANGE", added))
        other    == NodeItems("CHANGE", Picked(IF OfRole("NEW") # {} THEN OfRole("NEW") ELSE OfRole("OLD"),
                                               Limit.mapChanges))
    IN  IF listed # <<>> THEN listed
        ELSE IF other # <<>> THEN other
        ELSE <<ContextItem("CHANGE", {})>>

VisualMap(g, cards, risks) ==
    LET focus   == Range(MapFocus(g))
        shape   == MapShape(g)
        changes == MapChanges(g, shape)
        core    == UNION {c.refs : c \in Range(changes)}
        Side(role, items) == NodeItems(items, Picked({n \in focus : n.role = role}, Limit.mapItems))
        OrContext(items, role, refs) == IF items = <<>> THEN <<ContextItem(role, refs)>> ELSE items
        before  == Side("OLD", "BEFORE")
        after   == Side("NEW", "AFTER")
    IN  [shape   |-> shape,
         mode    |-> IF \E e \in Changed(g) : e.src \in focus /\ e.dst \in focus
                     THEN "VERIFIED_FLOW" ELSE "PARALLEL_FACTS",
         before  |-> IF shape \in {"TEST_ONLY", "ADDED"} THEN <<ContextItem("BEFORE", {})>>
                     ELSE IF shape = "MODIFIED" THEN before ELSE OrContext(before, "BEFORE", {}),
         changes |-> changes,
         after   |-> IF shape \in {"TEST_ONLY", "ADDED", "REMOVED"} THEN <<ContextItem("AFTER", core)>>
                     ELSE IF shape = "MODIFIED" THEN after ELSE OrContext(after, "AFTER", core),
         impact  |-> {c.area : c \in Range(cards)},
         risk    |-> IF risks = <<>> THEN None ELSE risks[1]]

(***************************************************************************)
(* Scenarios: changes grouped by the question a reader asks.  The key of a *)
(* recipe or of an area names the group; "runtime" is the key of both.     *)
(***************************************************************************)
AreaKey == [CONFIGURATION |-> "configuration", SERVER |-> "server", PROTOCOL |-> "protocol",
            EDITOR |-> "editor", CLIENT |-> "client", RUNTIME |-> "runtime",
            TEST |-> "test", GENERATED |-> "generated"]
KeysInOrder == <<"authoring", "client", "configuration", "editor", "generated",
                 "guided-authoring", "persistence", "preview", "protocol", "runtime",
                 "server", "test", "validation">>
KeyRank(key) == CHOOSE i \in DOMAIN KeysInOrder : KeysInOrder[i] = key

Recipe(n)      == Words[n.label].recipe
ScenarioKey(n) == IF Recipe(n) # None THEN Recipe(n) ELSE AreaKey[AreaOf(n)]

\* Rules are tried for a recipe's key, then the phrase of the area, then the name.
Says(key, n) ==
    CASE key \in DOMAIN Words[n.label].says -> Words[n.label].says[key]
      [] key \in Range(AreaKey) -> key
      [] OTHER -> Compact(n)

Candidates_Tests(g) ==
    Where(g.focus, LAMBDA n : AreaOf(n) # "GENERATED" /\ Subject(n))
Candidates(g) ==
    LET focus    == Where(g.focus, LAMBDA n : AreaOf(n) # "GENERATED" /\ Subject(n))
        business == Where(focus, LAMBDA n : AreaOf(n) # "TEST")
    IN  IF business # <<>> THEN business ELSE focus

\* A bucket takes its name and its weight from the node that opens it.
Buckets(g) ==
    LET nodes   == Candidates(g)
        With(key) == Where(nodes, LAMBDA n : ScenarioKey(n) = key)
        bucket(key) == [key |-> key, specific |-> Recipe(With(key)[1]) # None,
                        nodes |-> Range(With(key))]
        all     == {bucket(key) : key \in {ScenarioKey(n) : n \in Range(nodes)}}
        claimed == {AreaKey[AreaOf(n)] : n \in UNION {b.nodes : b \in {x \in all : x.specific}}}
    IN  IF all = {} THEN {[key |-> "runtime", specific |-> FALSE, nodes |-> {}]}
        ELSE {b \in all : b.specific \/ b.key \notin claimed}

Weight(b) ==
    LET ranked == Ordered(b.nodes, LAMBDA n : <<-Score(n)>> \o NodeKey(n))
        scores == [i \in DOMAIN ranked |-> AtLeast0(Score(ranked[i]))]
        outright == {n \in b.nodes : n.change \in {"ADDED", "REMOVED"}}
    IN  (IF b.specific THEN 40 ELSE 0) + Total(First(6, scores))
        + 25 * AtMost(Cardinality({n \in outright : Callable(n)}), 4)
        + 2 * AtMost(Cardinality(outright), 6)

Ranking(g) == First(Limit.scenarios,
                    Ordered(Buckets(g), LAMBDA b : <<-Weight(b), KeyRank(b.key)>>))

PickSide(g, b, role, limit) ==
    Distinct(Ordered({n \in b.nodes : n.role = role}, LAMBDA n : <<-FullScore(g, n)>> \o NodeKey(n)),
             limit, LAMBDA x, y : Compact(x) = Compact(y) \/ Says(b.key, x) = Says(b.key, y))

Unique(s) == Distinct(s, Len(s), LAMBDA x, y : x = y)

Scenario(g, b) ==
    LET before == PickSide(g, b, "OLD", Limit.before)
        after  == PickSide(g, b, "NEW", Limit.after)
        shown  == Range(before) \cup Range(after)
        links  == First(Limit.links, Ordered({e \in Changed(g) : e.src \in shown /\ e.dst \in shown},
                                             LAMBDA e : <<SideRank(e.src)>> \o EdgeKey(e)))
        labels == Unique([i \in DOMAIN (after \o before) |-> Says(b.key, (after \o before)[i])])
    IN  [key |-> b.key, before |-> before, after |-> after, relationships |-> links,
         mode  |-> IF links # <<>> THEN "VERIFIED_FLOW" ELSE "PARALLEL_FACTS",
         shape |-> IF before # <<>> /\ after # <<>> THEN "MODIFIED"
                   ELSE IF after # <<>> THEN "ADDED"
                   ELSE IF before # <<>> THEN "REMOVED" ELSE "PARALLEL",
         takeaways |-> IF labels = <<>> THEN <<b.key>> ELSE First(3, labels)]

ScenarioLens(g) ==
    LET ranked == Ranking(g) IN [i \in DOMAIN ranked |-> Scenario(g, ranked[i])]

(***************************************************************************)
(* The brief and the mission: at most three checks, one a boundary or a    *)
(* regression.                                                             *)
(***************************************************************************)
Checks_Both(status, primary) ==
    First(3, <<"PRIMARY_BEHAVIOR">>
             \o (IF primary.relationships # <<>> THEN <<"RELATIONSHIP_PATH">> ELSE <<>>)
             \o (IF Len(primary.takeaways) > 1 THEN <<"SECONDARY_BEHAVIOR">> ELSE <<>>)
             \o (IF status = "PARTIAL" THEN <<"EVIDENCE_BOUNDARY">> ELSE <<"REGRESSION">>))
Checks(status, primary) ==
    <<"PRIMARY_BEHAVIOR">>
    \o (CASE primary.relationships # <<>> -> <<"RELATIONSHIP_PATH">>
          [] primary.relationships = <<>> /\ Len(primary.takeaways) > 1 -> <<"SECONDARY_BEHAVIOR">>
          [] OTHER -> <<>>)
    \o (IF status = "PARTIAL" THEN <<"EVIDENCE_BOUNDARY">> ELSE <<"REGRESSION">>)

DailyBrief(status, primary, map) ==
    [scenario |-> primary.key, shape |-> primary.shape, impact |-> map.impact,
     checks |-> First(3, Checks(status, primary))]

\* Each check becomes a step; the first one is acted out in the area of the first item.
Mission(status, primary, brief) ==
    LET items == primary.after \o primary.before
    IN  [steps |-> brief.checks,
         place |-> IF items = <<>> THEN "CLIENT" ELSE AreaOf(items[1]),
         state |-> IF status = "PARTIAL" THEN "PARTIAL" ELSE "SUGGESTED"]

(***************************************************************************)
(* The storyboard: a slot per label, the arrows between them.              *)
(***************************************************************************)
\* What a slot holds of each revision: one node or none.
Slot(old, new) ==
    [before |-> old, after |-> new,
     change |-> CASE old = {} -> "ADDED"
                  [] old # {} /\ new = {} -> "REMOVED"
                  [] OTHER -> (CHOOSE n \in new : TRUE).change]

Slots(sc) ==
    LET Same(o, n) == Says(sc.key, o) = Says(sc.key, n)
        Match(o) == {n \in Range(sc.after) : Same(o, n)}
        paired   == [i \in DOMAIN sc.before |-> Slot({sc.before[i]}, Match(sc.before[i]))]
        left     == Where(sc.after, LAMBDA n : \A o \in Range(sc.before) : ~Same(o, n))
    IN  First(7, paired \o [i \in DOMAIN left |-> Slot({}, {left[i]})])

\* In which views an arrow is drawn: its ends tell.
ViewsOf_Slots(sc, slots, e) ==
    LET Holds(side, n) == \E i \in DOMAIN slots : slots[i][side] # {} /\ n \in slots[i].before \cup slots[i].after
    IN  {"DELTA"} \cup (IF Holds("before", e.src) /\ Holds("before", e.dst) THEN {"BEFORE"} ELSE {})
                  \cup (IF Holds("after", e.src) /\ Holds("after", e.dst) THEN {"AFTER"} ELSE {})
ViewsOf(sc, slots, e) ==
    CASE {e.src, e.dst} \subseteq Range(sc.before) -> {"BEFORE", "DELTA"}
      [] {e.src, e.dst} \subseteq Range(sc.after) -> {"DELTA", "AFTER"}
      [] OTHER -> {"DELTA"}

Connectors(sc, slots) ==
    LET SlotOf(n) == {i \in DOMAIN slots : n \in slots[i].before \cup slots[i].after}
        placed    == Where(sc.relationships, LAMBDA e : SlotOf(e.src) # {} /\ SlotOf(e.dst) # {})
        arrow(e)  == [edge |-> e, src |-> CHOOSE i \in SlotOf(e.src) : TRUE,
                      dst |-> CHOOSE i \in SlotOf(e.dst) : TRUE, views |-> ViewsOf(sc, slots, e)]
    IN  IF sc.mode # "VERIFIED_FLOW" THEN <<>>
        ELSE First(6, [i \in DOMAIN placed |-> arrow(placed[i])])

VisualStory(sc) ==
    LET slots == Slots(sc)
        Numbers(side) == {i \in DOMAIN slots : slots[i][side] # {}}
        Focus(side)   == IF Numbers(side) # {} THEN Numbers(side) ELSE DOMAIN slots
    IN  [slots |-> slots, connectors |-> Connectors(sc, slots),
         beats |-> [BEFORE |-> Focus("before"), DELTA |-> DOMAIN slots, AFTER |-> Focus("after"),
                    VERIFY |-> IF Numbers("after") # {} THEN Numbers("after") ELSE Focus("before")]]

(***************************************************************************)
(* The canvas: a chapter per scenario and the ten-second capsule.          *)
(***************************************************************************)
Chapter(sc) ==
    LET items    == sc.before \o sc.after
        count(S) == Len(Where(items, LAMBDA n : n.change \in S))
    IN  [key |-> sc.key, delta |-> items,
         relationships |-> IF sc.mode = "VERIFIED_FLOW" THEN Range(sc.relationships) ELSE {},
         focus   |-> IF sc.after # <<>> THEN sc.after[1]
                     ELSE IF sc.before # <<>> THEN sc.before[1] ELSE None,
         added   |-> count({"ADDED"}), removed |-> count({"REMOVED"}),
         changed |-> count({"UPDATED", "MOVED"})]

Verdict(sc) ==
    LET Labels(side)    == {Says(sc.key, n) : n \in Range(side)}
        oldOnly         == Labels(sc.before) \ Labels(sc.after)
        newOnly         == Labels(sc.after) \ Labels(sc.before)
        removed         == {n \in Range(sc.before) : Says(sc.key, n) \in oldOnly /\ n.change = "REMOVED"}
        added           == {n \in Range(sc.after) : Says(sc.key, n) \in newOnly /\ n.change = "ADDED"}
    IN  CASE sc.shape \in {"ADDED", "REMOVED"} -> sc.shape
          [] sc.shape \notin {"ADDED", "REMOVED"} /\ removed # {} /\ added # {} -> "REPLACED"
          [] OTHER ->
              IF oldOnly # {} /\ newOnly # {} THEN "REFOCUSED"
              ELSE IF added # {} THEN "EXTENDED"
              ELSE IF removed # {} THEN "REDUCED"
              ELSE IF newOnly # {} THEN "NEWLY_FOCUSED"
              ELSE IF oldOnly # {} THEN "NO_LONGER_FOCUSED"
              ELSE IF sc.before \o sc.after # <<>> THEN "REORGANISED" ELSE "ADJUSTED"

(***************************************************************************)
(* Claims keep what the code shows apart from what was said and inferred.  *)
(***************************************************************************)
SourceClaims(intent) ==
    IF intent = None THEN {} ELSE {[layer |-> "SOURCE_EVIDENCE", confidence |-> "UNKNOWN",
                                    of |-> entry] : entry \in intent.entries}

Claims(a, g, intent) ==
    LET added(rel) == {e \in g.edges : e.role = "NEW" /\ e.change = "ADDED" /\ e.rel = rel}
        moved      == {m \in g.mappings : m.kind \in {"MOVED", "RENAMED_AND_MOVED"}}
        inferred(evidence) == [layer |-> "INTENT_INFERENCE", confidence |-> "INFERRED", of |-> evidence]
    IN  {[layer |-> "CODE_FACT", of |-> "summary",
          confidence |-> IF a.diff.status = "COMPLETE" THEN "CONFIRMED_STATIC" ELSE "STRUCTURAL"]}
        \cup {[layer |-> "CODE_FACT", confidence |-> "MAPPED", of |-> m] : m \in {x \in g.mappings : Renaming(x)}}
        \cup {inferred(added(rel)) : rel \in {r \in DOMAIN RelationRank \ {"DIRECT_CALL"} : added(r) # {}}}
        \cup (IF moved = {} THEN {} ELSE {inferred(moved)})
        \cup SourceClaims(intent)

Impacts(g) ==
    LET hit == {e \in Changed(g) : e.dst.kind \in {"STATE", "EVENT", "TYPE"}}
    IN  First(Limit.impacts, Ordered({e.dst : e \in hit}, NodeKey))

\* Pairs that are to be told, then what was added or removed alone.
Entries(g, pairs) ==
    LET paired == UNION {{m.old, m.new} : m \in g.mappings}
        single == {n \in g.nodes \ paired : n.change \in {"ADDED", "REMOVED"}}
        Both(m) == [kind |-> IF Renaming(m) THEN m.kind ELSE m.old.change, nodes |-> {m.old, m.new}]
        Alone(n) == [kind |-> n.change, nodes |-> {n}]
        told    == Ordered(pairs, LAMBDA m : NodeKey(m.old))
        rest    == Ordered(single, NodeKey)
    IN  First(Limit.changes, [i \in DOMAIN told |-> Both(told[i])]
                             \o [i \in DOMAIN rest |-> Alone(rest[i])])

ChangesOf_Named(g) == Entries(g, {m \in g.mappings : Renaming(m)})
ChangesOf(g)       == Entries(g, {m \in g.mappings : Renaming(m) \/ ~IsContext(m.old)})

(***************************************************************************)
(* build, in two parts: what the analysis shows, and how it is presented.  *)
(***************************************************************************)
Facts(a, intent, g) ==
    LET lanes == [old |-> LaneOf(g, "OLD"), new |-> LaneOf(g, "NEW")]
    IN  [graph |-> g, status |-> a.status, lanes |-> lanes, changes |-> ChangesOf(g),
         claims |-> Claims(a, g, intent), impacts |-> Impacts(g), cards |-> Cards(g, a.files),
         stages |-> DeepStages(g), decisions |-> DecisionPoints(g),
         flows |-> [old |-> FlowSteps(g, "OLD"), new |-> FlowSteps(g, "NEW")],
         scenarios |-> ScenarioLens(g),
         limitations |-> lanes.old.limitations \cup lanes.new.limitations
                         \cup (IF SourceClaims(intent) = {} THEN {"no intent evidence"} ELSE {})]

MapOf(facts) == VisualMap(facts.graph, facts.cards, RiskCards(facts.status, facts.cards))

Presented(facts, map) ==
    LET primary == facts.scenarios[1]
        brief   == DailyBrief(facts.status, primary, map)
    IN  Joined(facts, [risks    |-> RiskCards(facts.status, facts.cards), map |-> map, brief |-> brief,
                       mission  |-> Mission(facts.status, primary, brief),
                       board    |-> VisualStory(primary),
                       chapters |-> [i \in DOMAIN facts.scenarios |-> Chapter(facts.scenarios[i])],
                       verdict  |-> Verdict(primary)])
=============================================================================
