--------------------------- MODULE GraphDiffProofs ---------------------------
(***************************************************************************)
(* What GraphDiff promises of any two graphs, renames and hints: each node *)
(* is paired once, a change is carried to both nodes of a pair, and a node *)
(* that is not paired was added or removed.                                *)
(***************************************************************************)
EXTENDS GraphDiff, FiniteSetTheorems, WellFoundedInduction, TLAPS

(***************************************************************************)
(* Induction: a set of numbers has a least one.                            *)
(***************************************************************************)
LEMMA LeastNumber ==
    ASSUME NEW T \in SUBSET Nat, T # {}
    PROVE  \E m \in T : \A k \in T : m <= k
<1> DEFINE R == {x \in Nat \X Nat : x[1] < x[2]}
<1>1. IsWellFoundedOn(R, Nat)
  BY NatLessThanWellFounded DEF OpToRel
<1>2. PICK m \in T : \A k \in T : <<k, m>> \notin R
  BY <1>1, WFMin
<1>3. ASSUME NEW k \in T PROVE m <= k
  <2>1. ~(<<k, m>>[1] < <<k, m>>[2])
    BY <1>2
  <2> QED
    BY <2>1
<1> QED
  BY <1>3

(***************************************************************************)
(* The comparison pairs each node once.                                    *)
(***************************************************************************)

\* The mappings after the hints, one by one, are those that the definition says.
LEMMA HintingIs ==
    ASSUME NEW old, NEW new, NEW hints, Len(hints) \in Nat
    PROVE  /\ Hinting(old, new, hints)[0] = StableMappings(old, new)
           /\ \A k \in 1..Len(hints) :
                 Hinting(old, new, hints)[k] =
                     AddHint(old, new, Hinting(old, new, hints)[k - 1], hints[k])
<1> DEFINE N == Len(hints)
           Next(m, k) == AddHint(old, new, m, hints[k])
           First == StableMappings(old, new)
           IsAfter(f, n) == f[0] = First /\ \A k \in 1..n : f[k] = Next(f[k - 1], k)
           Undefined == {n \in Nat : ~\E f : IsAfter(f, n)}
<1> HIDE DEF Next, First
<1>1. Undefined = {}
  <2> SUFFICES ASSUME Undefined # {} PROVE FALSE
    OBVIOUS
  <2>1. PICK m \in Undefined : \A k \in Undefined : m <= k
    BY LeastNumber
  <2>2. m # 0
    <3>1. IsAfter([k \in 0..0 |-> First], 0)
      OBVIOUS
    <3> QED
      BY <2>1, <3>1
  <2>3. PICK f : IsAfter(f, m - 1)
    BY <2>1, <2>2
  <2> DEFINE g == [k \in 0..m |-> IF k = m THEN Next(f[m - 1], m) ELSE f[k]]
  <2>4. IsAfter(g, m)
    BY <2>1, <2>2, <2>3
  <2> QED
    BY <2>1, <2>4
<1>2. PICK f : IsAfter(f, N)
  BY <1>1
<1> DEFINE after == [k \in 0..N |-> f[k]]
<1>3. after = [k \in 0..N |-> IF k = 0 THEN First ELSE Next(after[k - 1], k)]
  BY <1>2
<1> HIDE DEF after
<1> DEFINE Body(h) == [k \in 0..N |-> IF k = 0 THEN First ELSE Next(h[k - 1], k)]
           H == CHOOSE h : h = Body(h)
<1>4. H = Body(H)
  BY <1>3
<1>5. Hinting(old, new, hints) = H
  BY DEF Hinting, Next, First
<1> HIDE DEF H
<1>6. H[0] = First /\ \A k \in 1..N : H[k] = Next(H[k - 1], k)
  BY <1>4
<1> QED
  BY <1>5, <1>6 DEF Next, First

\* Mappings that pair nodes of the two graphs, each with one node of the other.
Exclusive(old, new, mappings) ==
    /\ \A m \in mappings : m.old \in old.nodes /\ m.new \in new.nodes
    /\ \A m, k \in mappings : (m.old = k.old \/ m.new = k.new) => m = k

LEMMA StableExclusive ==
    ASSUME NEW old, NEW new
    PROVE  Exclusive(old, new, StableMappings(old, new))
<1> DEFINE MappingOf(p) == IF p[1].path # p[2].path THEN Pair(p[1], p[2], "MOVED", "MOVED")
                           ELSE Pair(p[1], p[2], "SAME_SYMBOL", "UNCHANGED_CONTEXT")
           Candidates == OnlyPairs(SameSymbol(old, new))
<1>1. StableMappings(old, new) = {MappingOf(p) : p \in Candidates}
  BY DEF StableMappings
<1>2. \A p : MappingOf(p).old = p[1] /\ MappingOf(p).new = p[2]
  BY DEF Pair
<1>3. /\ \A p \in Candidates : p[1] \in old.nodes /\ p[2] \in new.nodes
      /\ \A p, q \in Candidates : (q[1] = p[1] \/ q[2] = p[2]) => q = p
  BY DEF OnlyPairs, SameSymbol
<1> HIDE DEF MappingOf, Candidates
<1> QED
  BY <1>1, <1>2, <1>3 DEF Exclusive

\* A hint that finds one unpaired node on each side adds one pair.
LEMMA HintExclusive ==
    ASSUME NEW old, NEW new, NEW mappings, NEW hint, NEW o \in old.nodes, NEW n \in new.nodes,
           Exclusive(old, new, mappings),
           Labelled(old.nodes, hint.old, OldOf(mappings)) = {o},
           Labelled(new.nodes, hint.new, NewOf(mappings)) = {n}
    PROVE  Exclusive(old, new, AddHint(old, new, mappings, hint))
<1> DEFINE added == Pair(o, n, hint.kind, HintChange(hint))
<1>1. AddHint(old, new, mappings, hint) = mappings \cup {added}
  BY DEF AddHint
<1>2. o \notin OldOf(mappings) /\ n \notin NewOf(mappings)
  BY DEF Labelled
<1>3. added.old = o /\ added.new = n
  BY DEF Pair
<1> HIDE DEF added
<1> QED
  BY <1>1, <1>2, <1>3 DEF Exclusive, OldOf, NewOf

LEMMA HintingExclusive ==
    ASSUME NEW old, NEW new, NEW hints, Len(hints) \in Nat, HintsResolve(old, new, hints)
    PROVE  Exclusive(old, new, HintedMappings(old, new, hints))
<1> DEFINE H == Hinting(old, new, hints)
           Shared == {k \in Nat : k <= Len(hints) /\ ~Exclusive(old, new, H[k])}
<1>1. Shared = {}
  <2> SUFFICES ASSUME Shared # {} PROVE FALSE
    OBVIOUS
  <2>1. PICK m \in Shared : \A k \in Shared : m <= k
    BY LeastNumber
  <2>2. m # 0
    BY <2>1, HintingIs, StableExclusive
  <2>3. m \in 1..Len(hints) /\ m - 1 \in Nat /\ Exclusive(old, new, H[m - 1])
    BY <2>1, <2>2
  <2>4. H[m] = AddHint(old, new, H[m - 1], hints[m])
    BY <2>3, HintingIs
  <2>5. \E o \in old.nodes : Labelled(old.nodes, hints[m].old, OldOf(H[m - 1])) = {o}
    BY <2>3 DEF HintsResolve
  <2>6. \E n \in new.nodes : Labelled(new.nodes, hints[m].new, NewOf(H[m - 1])) = {n}
    BY <2>3 DEF HintsResolve
  <2>7. Exclusive(old, new, H[m])
    BY <2>3, <2>4, <2>5, <2>6, HintExclusive
  <2> QED
    BY <2>1, <2>7
<1> QED
  BY <1>1 DEF HintedMappings

\* Structure pairs what is left.
LEMMA StructureExclusive ==
    ASSUME NEW old, NEW new, NEW mappings, NEW rename, Exclusive(old, new, mappings)
    PROVE  Exclusive(old, new, mappings \cup StructuralMappings(old, new, mappings, rename))
<1> DEFINE MappingOf(p) == Pair(p[1], p[2], "HEURISTIC", "UNCHANGED_CONTEXT")
           Candidates == OnlyPairs(SameStructure(old, new, mappings, rename))
<1>1. StructuralMappings(old, new, mappings, rename) = {MappingOf(p) : p \in Candidates}
  BY DEF StructuralMappings
<1>2. \A p : MappingOf(p).old = p[1] /\ MappingOf(p).new = p[2]
  BY DEF Pair
<1>3. /\ \A p \in Candidates : /\ p[1] \in old.nodes /\ p[1] \notin OldOf(mappings)
                              /\ p[2] \in new.nodes /\ p[2] \notin NewOf(mappings)
      /\ \A p, q \in Candidates : (q[1] = p[1] \/ q[2] = p[2]) => q = p
  BY DEF OnlyPairs, SameStructure
<1> HIDE DEF MappingOf, Candidates
<1> QED
  BY <1>1, <1>2, <1>3 DEF Exclusive, OldOf, NewOf

(***************************************************************************)
(* Changes are carried to both nodes of a pair.                            *)
(***************************************************************************)

\* The two nodes of every pair are labelled alike.
Alike(labels, mappings) == \A m \in mappings : labels.old[m.old] = labels.new[m.new]

\* The labels of the nodes that are not paired stay what they were.
AloneStay(old, new, mappings, labels, after) ==
    /\ \A n \in old.nodes \ OldOf(mappings) : after.old[n] = labels.old[n]
    /\ \A n \in new.nodes \ NewOf(mappings) : after.new[n] = labels.new[n]

\* The labels of the first step: what the pair says.
LEMMA ChangesAlike ==
    ASSUME NEW old, NEW new, NEW mappings, Exclusive(old, new, mappings), NEW m \in mappings
    PROVE  /\ ChangeOf(m.old, "old", mappings, "REMOVED") = m.change
           /\ ChangeOf(m.new, "new", mappings, "ADDED") = m.change
<1>1. (CHOOSE k \in mappings : k["old"] = m.old) = m
  <2>1. \E k \in mappings : k["old"] = m.old
    OBVIOUS
  <2>2. \A k \in mappings : k["old"] = m.old => k = m
    BY DEF Exclusive
  <2> QED
    BY <2>1, <2>2
<1>2. (CHOOSE k \in mappings : k["new"] = m.new) = m
  <2>1. \E k \in mappings : k["new"] = m.new
    OBVIOUS
  <2>2. \A k \in mappings : k["new"] = m.new => k = m
    BY DEF Exclusive
  <2> QED
    BY <2>1, <2>2
<1> QED
  BY <1>1, <1>2 DEF ChangeOf

\* What one propagation does, from the OLD side and from the NEW side: labels stay alike,
\* context stays context only where it was, and no pair of context touches what changed.
LEMMA PropagateOld ==
    ASSUME NEW old, NEW new, NEW mappings, Exclusive(old, new, mappings), NEW changed,
           NEW labels, labels = [old |-> labels.old, new |-> labels.new],
           DOMAIN labels.old = old.nodes, DOMAIN labels.new = new.nodes,
           Alike(labels, mappings),
           NEW after, after = Propagate(labels, "old", "new", changed, mappings)
    PROVE  /\ after = [old |-> after.old, new |-> after.new]
           /\ DOMAIN after.old = old.nodes /\ DOMAIN after.new = new.nodes
           /\ Alike(after, mappings)
           /\ AloneStay(old, new, mappings, labels, after)
           /\ \A m \in mappings : after.old[m.old] = "UNCHANGED_CONTEXT" =>
                 /\ labels.old[m.old] = "UNCHANGED_CONTEXT"
                 /\ Id(m.old) \notin Endpoints(changed)
<1> DEFINE hit == {n \in DOMAIN labels.old :
                      /\ Id(n) \in Endpoints(changed)
                      /\ labels.old[n] = "UNCHANGED_CONTEXT"
                      /\ \E m \in mappings : m.old = n}
           met == {n \in DOMAIN labels.new :
                      /\ labels.new[n] = "UNCHANGED_CONTEXT"
                      /\ \E m \in mappings : m.new = n /\ m.old \in hit}
<1>1. /\ after.old = [n \in DOMAIN labels.old |-> IF n \in hit THEN "UPDATED" ELSE labels.old[n]]
      /\ after.new = [n \in DOMAIN labels.new |-> IF n \in met THEN "UPDATED" ELSE labels.new[n]]
      /\ after = [old |-> after.old, new |-> after.new]
  BY DEF Propagate
<1>2. ASSUME NEW m \in mappings
      PROVE  /\ m.old \in DOMAIN labels.old /\ m.new \in DOMAIN labels.new
             /\ m.old \in hit <=> m.new \in met
  BY <1>2 DEF Exclusive, Alike
<1>3. \A m \in mappings : m.old \in hit <=> labels.old[m.old] = "UNCHANGED_CONTEXT"
                                              /\ Id(m.old) \in Endpoints(changed)
  BY <1>2
<1>4. (\A n \in hit : n \in OldOf(mappings)) /\ (\A n \in met : n \in NewOf(mappings))
  BY DEF OldOf, NewOf
<1> HIDE DEF hit, met
<1>5. AloneStay(old, new, mappings, labels, after)
  BY <1>1, <1>4 DEF AloneStay
<1>6. Alike(after, mappings)
  BY <1>1, <1>2 DEF Alike
<1>7. \A m \in mappings : after.old[m.old] = "UNCHANGED_CONTEXT" =>
          labels.old[m.old] = "UNCHANGED_CONTEXT" /\ Id(m.old) \notin Endpoints(changed)
  BY <1>1, <1>2, <1>3
<1> QED
  BY <1>1, <1>5, <1>6, <1>7

LEMMA PropagateNew ==
    ASSUME NEW old, NEW new, NEW mappings, Exclusive(old, new, mappings), NEW changed,
           NEW labels, labels = [old |-> labels.old, new |-> labels.new],
           DOMAIN labels.old = old.nodes, DOMAIN labels.new = new.nodes,
           Alike(labels, mappings),
           NEW after, after = Propagate(labels, "new", "old", changed, mappings)
    PROVE  /\ after = [old |-> after.old, new |-> after.new]
           /\ DOMAIN after.old = old.nodes /\ DOMAIN after.new = new.nodes
           /\ Alike(after, mappings)
           /\ AloneStay(old, new, mappings, labels, after)
           /\ \A m \in mappings : after.new[m.new] = "UNCHANGED_CONTEXT" =>
                 /\ labels.new[m.new] = "UNCHANGED_CONTEXT"
                 /\ Id(m.new) \notin Endpoints(changed)
<1> DEFINE hit == {n \in DOMAIN labels.new :
                      /\ Id(n) \in Endpoints(changed)
                      /\ labels.new[n] = "UNCHANGED_CONTEXT"
                      /\ \E m \in mappings : m.new = n}
           met == {n \in DOMAIN labels.old :
                      /\ labels.old[n] = "UNCHANGED_CONTEXT"
                      /\ \E m \in mappings : m.old = n /\ m.new \in hit}
<1>1. /\ after.new = [n \in DOMAIN labels.new |-> IF n \in hit THEN "UPDATED" ELSE labels.new[n]]
      /\ after.old = [n \in DOMAIN labels.old |-> IF n \in met THEN "UPDATED" ELSE labels.old[n]]
      /\ after = [old |-> after.old, new |-> after.new]
  BY DEF Propagate
<1>2. ASSUME NEW m \in mappings
      PROVE  /\ m.old \in DOMAIN labels.old /\ m.new \in DOMAIN labels.new
             /\ m.new \in hit <=> m.old \in met
  BY <1>2 DEF Exclusive, Alike
<1>3. \A m \in mappings : m.new \in hit <=> labels.new[m.new] = "UNCHANGED_CONTEXT"
                                              /\ Id(m.new) \in Endpoints(changed)
  BY <1>2
<1>4. (\A n \in hit : n \in NewOf(mappings)) /\ (\A n \in met : n \in OldOf(mappings))
  BY DEF OldOf, NewOf
<1> HIDE DEF hit, met
<1>5. AloneStay(old, new, mappings, labels, after)
  BY <1>1, <1>4 DEF AloneStay
<1>6. Alike(after, mappings)
  BY <1>1, <1>2 DEF Alike
<1>7. \A m \in mappings : after.new[m.new] = "UNCHANGED_CONTEXT" =>
          labels.new[m.new] = "UNCHANGED_CONTEXT" /\ Id(m.new) \notin Endpoints(changed)
  BY <1>1, <1>2, <1>3
<1> QED
  BY <1>1, <1>5, <1>6, <1>7

\* The comparison, for any two graphs, renames and hints that it accepts.
LEMMA DiffPairs ==
    ASSUME NEW old, NEW new, NEW rename, NEW hints, Len(hints) \in Nat,
           HintsResolve(old, new, hints), NEW d, d = Diff(old, new, rename, hints)
    PROVE  /\ Exclusive(old, new, d.mappings)
           /\ Alike(d.labels, d.mappings)
           /\ \A n \in old.nodes \ OldOf(d.mappings) : d.labels.old[n] = "REMOVED"
           /\ \A n \in new.nodes \ NewOf(d.mappings) : d.labels.new[n] = "ADDED"
           /\ \A m \in d.mappings : d.labels.old[m.old] = "UNCHANGED_CONTEXT" =>
                 /\ Id(m.old) \notin Endpoints(d.removed)
                 /\ Id(m.new) \notin Endpoints(d.added)
<1> DEFINE hinted == HintedMappings(old, new, hints)
           mappings == hinted \cup StructuralMappings(old, new, hinted, rename)
           labels == [old |-> [n \in old.nodes |-> ChangeOf(n, "old", mappings, "REMOVED")],
                      new |-> [n \in new.nodes |-> ChangeOf(n, "new", mappings, "ADDED")]]
           between == Propagate(labels, "old", "new", d.removed, mappings)
           after == Propagate(between, "new", "old", d.added, mappings)
<1>1. d.mappings = mappings /\ d.labels = after
  BY DEF Diff
<1>2. Exclusive(old, new, mappings)
  BY HintingExclusive, StructureExclusive
<1>3. /\ labels = [old |-> labels.old, new |-> labels.new]
      /\ DOMAIN labels.old = old.nodes /\ DOMAIN labels.new = new.nodes
      /\ \A n \in old.nodes : labels.old[n] = ChangeOf(n, "old", mappings, "REMOVED")
      /\ \A n \in new.nodes : labels.new[n] = ChangeOf(n, "new", mappings, "ADDED")
  OBVIOUS
<1> HIDE DEF labels, mappings
<1>4. ASSUME NEW m \in mappings PROVE labels.old[m.old] = labels.new[m.new]
  <2>1. m.old \in old.nodes /\ m.new \in new.nodes
    BY <1>2 DEF Exclusive
  <2>2. /\ ChangeOf(m.old, "old", mappings, "REMOVED") = m.change
        /\ ChangeOf(m.new, "new", mappings, "ADDED") = m.change
    BY <1>2, ChangesAlike
  <2> QED
    BY <1>3, <2>1, <2>2
<1>5. /\ between = [old |-> between.old, new |-> between.new]
      /\ DOMAIN between.old = old.nodes /\ DOMAIN between.new = new.nodes
      /\ Alike(between, mappings)
      /\ AloneStay(old, new, mappings, labels, between)
      /\ \A m \in mappings : between.old[m.old] = "UNCHANGED_CONTEXT" =>
            Id(m.old) \notin Endpoints(d.removed)
  BY <1>2, <1>3, <1>4, PropagateOld DEF Alike
<1> HIDE DEF between
<1>6. /\ Alike(after, mappings)
      /\ AloneStay(old, new, mappings, between, after)
      /\ \A m \in mappings : after.new[m.new] = "UNCHANGED_CONTEXT" =>
            /\ between.new[m.new] = "UNCHANGED_CONTEXT"
            /\ Id(m.new) \notin Endpoints(d.added)
  BY <1>2, <1>5, PropagateNew
<1> HIDE DEF after
<1>7. ASSUME NEW m \in mappings, after.old[m.old] = "UNCHANGED_CONTEXT"
      PROVE  Id(m.old) \notin Endpoints(d.removed) /\ Id(m.new) \notin Endpoints(d.added)
  <2>1. after.new[m.new] = "UNCHANGED_CONTEXT"
    BY <1>6, <1>7 DEF Alike
  <2>2. between.old[m.old] = "UNCHANGED_CONTEXT"
    BY <1>5, <1>6, <2>1 DEF Alike
  <2> QED
    BY <1>5, <1>6, <2>1, <2>2
<1>8. /\ \A n \in old.nodes \ OldOf(mappings) : after.old[n] = "REMOVED"
      /\ \A n \in new.nodes \ NewOf(mappings) : after.new[n] = "ADDED"
  <2>1. /\ \A n \in old.nodes \ OldOf(mappings) : labels.old[n] = "REMOVED"
        /\ \A n \in new.nodes \ NewOf(mappings) : labels.new[n] = "ADDED"
    <3>1. \A n : n \notin OldOf(mappings) => ChangeOf(n, "old", mappings, "REMOVED") = "REMOVED"
      BY DEF ChangeOf, OldOf
    <3>2. \A n : n \notin NewOf(mappings) => ChangeOf(n, "new", mappings, "ADDED") = "ADDED"
      BY DEF ChangeOf, NewOf
    <3> QED
      BY <1>3, <3>1, <3>2
  <2> QED
    BY <1>5, <1>6, <2>1 DEF AloneStay
<1> QED
  BY <1>1, <1>2, <1>6, <1>7, <1>8
=============================================================================
