------------------------------ MODULE GraphDiff ------------------------------
(***************************************************************************)
(* AnalyzerGraphDiffer.compare (Change Lens): the nodes of two graphs are  *)
(* paired, then their relations, and what changed is carried to the paired *)
(* nodes that touch it.                                                    *)
(*                                                                         *)
(* A node is [kind, label, at, path]; kind, label and the position "at"    *)
(* make its id (a symbol has no position: its qualified name is its        *)
(* identity), path is the file of its location.  A relation is             *)
(* [rel, src, dst] between ids.  A graph is [nodes, edges, status].        *)
(***************************************************************************)
EXTENDS Naturals, Sequences, FiniteSets

SymbolKinds == {"TYPE", "METHOD"}

Id(n) == <<n.kind, n.label, n.at>>

\* A group of candidates with one key is used when it holds one of each side:
\* the pairs that share neither of their sides with another pair.
OnlyPairs(candidates) ==
    {p \in candidates :
        \A q \in candidates : (q[1] = p[1] \/ q[2] = p[2]) => q = p}

Pair(old, new, kind, change) == [old |-> old, new |-> new, kind |-> kind, change |-> change]
OldOf(mappings) == {m.old : m \in mappings}
NewOf(mappings) == {m.new : m \in mappings}

\* The same type or method on both sides, wherever it is declared.
SameSymbol(old, new) ==
    {p \in old.nodes \X new.nodes :
        p[1].kind \in SymbolKinds /\ Id(p[1]) = Id(p[2])}

StableMappings(old, new) ==
    {IF p[1].path # p[2].path THEN Pair(p[1], p[2], "MOVED", "MOVED")
                              ELSE Pair(p[1], p[2], "SAME_SYMBOL", "UNCHANGED_CONTEXT") :
        p \in OnlyPairs(SameSymbol(old, new))}

\* A reviewed hint names one still unpaired label on each side.
Labelled_Anyone(nodes, label, mapped) == {n \in nodes : n.label = label}
Labelled(nodes, label, mapped) == {n \in nodes \ mapped : n.label = label}

HintChange(hint) ==
    IF hint.kind \in {"MOVED", "RENAMED_AND_MOVED"} THEN "MOVED" ELSE "UPDATED"

AddHint(old, new, mappings, hint) ==
    mappings \cup {Pair(o, n, hint.kind, HintChange(hint)) :
                      o \in Labelled(old.nodes, hint.old, OldOf(mappings)),
                      n \in Labelled(new.nodes, hint.new, NewOf(mappings))}

\* The mappings before the first hint, after the first, and so on.
Hinting(old, new, hints) ==
    LET after[k \in 0..Len(hints)] ==
            IF k = 0 THEN StableMappings(old, new)
                     ELSE AddHint(old, new, after[k - 1], hints[k])
    IN  after

HintedMappings(old, new, hints) == Hinting(old, new, hints)[Len(hints)]

\* compare raises unless every hint finds exactly one node on each side.
HintsResolve(old, new, hints) ==
    \A i \in 1..Len(hints) :
        LET before == Hinting(old, new, hints)[i - 1]
        IN  /\ \E o \in old.nodes : Labelled(old.nodes, hints[i].old, OldOf(before)) = {o}
            /\ \E n \in new.nodes : Labelled(new.nodes, hints[i].new, NewOf(before)) = {n}

\* What is left is compared by kind, label and file, renames followed.
NewPath(path, renames) == IF path \in DOMAIN renames THEN renames[path] ELSE path

SameStructure(old, new, mappings, renames) ==
    {p \in (old.nodes \ OldOf(mappings)) \X (new.nodes \ NewOf(mappings)) :
        /\ p[1].kind = p[2].kind
        /\ p[1].label = p[2].label
        /\ NewPath(p[1].path, renames) = p[2].path}

StructuralMappings(old, new, mappings, renames) ==
    {Pair(p[1], p[2], "HEURISTIC", "UNCHANGED_CONTEXT") :
        p \in OnlyPairs(SameStructure(old, new, mappings, renames))}

\* A relation is kept when it links the counterparts of the nodes it linked.
SameRelation(old, new, mappings) ==
    {p \in old.edges \X new.edges :
        /\ p[1].rel = p[2].rel
        /\ \E m \in mappings : Id(m.old) = p[1].src /\ Id(m.new) = p[2].src
        /\ \E m \in mappings : Id(m.old) = p[1].dst /\ Id(m.new) = p[2].dst}

Endpoints_Callers(edges) == {e.src : e \in edges}
Endpoints(edges) == {e.src : e \in edges} \cup {e.dst : e \in edges}

ChangeOf(n, side, mappings, unpaired) ==
    IF \E m \in mappings : m[side] = n
    THEN (CHOOSE m \in mappings : m[side] = n).change
    ELSE unpaired

\* One call of _propagate_edge_changes: the paired context nodes of this side that
\* touch a relation not kept become UPDATED, and their counterparts with them.
Propagate(labels, own, peer, changed, mappings) ==
    LET hit == {n \in DOMAIN labels[own] :
                   /\ Id(n) \in Endpoints(changed)
                   /\ labels[own][n] = "UNCHANGED_CONTEXT"
                   /\ \E m \in mappings : m[own] = n}
        met == {n \in DOMAIN labels[peer] :
                   /\ labels[peer][n] = "UNCHANGED_CONTEXT"
                   /\ \E m \in mappings : m[peer] = n /\ m[own] \in hit}
    IN  [labels EXCEPT
            ![own]  = [n \in DOMAIN @ |-> IF n \in hit THEN "UPDATED" ELSE @[n]],
            ![peer] = [n \in DOMAIN @ |-> IF n \in met THEN "UPDATED" ELSE @[n]]]

\* Candidates that are left because they share a side with others.
Ambiguous_Symbols(old, new, renames, hinted, mappings) ==
    SameSymbol(old, new) # OnlyPairs(SameSymbol(old, new))

Ambiguous(old, new, renames, hinted, mappings) ==
    \E candidates \in {SameSymbol(old, new), SameStructure(old, new, hinted, renames),
                       SameRelation(old, new, mappings)} :
        candidates # OnlyPairs(candidates)

Diff(old, new, renames, hints) ==
    LET hinted     == HintedMappings(old, new, hints)
        mappings   == hinted \cup StructuralMappings(old, new, hinted, renames)
        kept       == OnlyPairs(SameRelation(old, new, mappings))
        removed    == old.edges \ {p[1] : p \in kept}
        added      == new.edges \ {p[2] : p \in kept}
        labels     == [old |-> [n \in old.nodes |-> ChangeOf(n, "old", mappings, "REMOVED")],
                       new |-> [n \in new.nodes |-> ChangeOf(n, "new", mappings, "ADDED")]]
    IN  [mappings |-> mappings,
         labels   |-> Propagate(Propagate(labels, "old", "new", removed, mappings),
                                "new", "old", added, mappings),
         removed  |-> removed,
         added    |-> added,
         status   |-> IF old.status = "COMPLETE" /\ new.status = "COMPLETE" 
                            /\ ~Ambiguous(old, new, renames, hinted, mappings)
                      THEN "COMPLETE" ELSE "PARTIAL"]
=============================================================================
