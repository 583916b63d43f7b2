------------------------ MODULE ChangeLensProperties ------------------------
(***************************************************************************)
(* What the reports of Change Lens promise.                                *)
(***************************************************************************)
EXTENDS ChangeLens

\* A strict report and a worker input are of one instant, although every file is read
\* at another time and files come and go: the snapshot they bind is that of a worktree
\* that stood while the command ran.  The renames of a report, found in a snapshot of
\* their own, are those of the same worktree, and the sources of an input are those
\* that the live project, which Git may ignore and no digest binds, named in it
\* (resolver.py 283-311, 348-378; revision_analysis.py 160, 245, 697-698;
\* worker_input.py 70-73, 114-115).
ReportIsOneInstant ==
    report # None /\ report.mode # "partial" =>
        \E t \in seen :
            /\ report.new = Visible(t)
            /\ report.mode = "strict" =>
                  \A o \in Sources : \A n \in Sources :
                     (o \in DOMAIN report.renames /\ report.renames[o] = n) <=>
                         /\ base[o] # Absent /\ t[o] = Absent
                         /\ {m \in Sources : base[m] = Absent /\ t[m] = base[o]} = {n}
            /\ report.mode = "input" =>
                  /\ DiskProject(t) = report.scope.named
                  /\ {p \in report.scope.named : t[p] # Absent} = report.scope.present

\* The files a partial report binds stood together with the bytes it shows, although
\* it checks nothing but those files again (revision_analysis.py 777-778, 870-872).
PartialSourcesStood ==
    report # None /\ report.mode = "partial" =>
        \E t \in seen : \A p \in DOMAIN report.new : t[p] = report.new[p]

\* No node is paired twice, whichever of symbol, hint and structure pairs it, and the
\* two nodes of a pair carry the same change (graph_diff.py 109-170, 360-375).
PairsAreExclusive ==
    report # None /\ report.mode # "input" =>
        \A m, k \in report.diff.mappings :
            /\ (m.old = k.old \/ m.new = k.new) => m = k
            /\ report.diff.labels.old[m.old] = report.diff.labels.new[m.new]

\* A pair shown as unchanged context touches no relation that was added or removed, on
\* either side (graph_diff.py 174-206, 360-375; docs/GRAPH_DIFF.en.md).
ContextUntouched ==
    report # None /\ report.mode # "input" =>
        \A m \in report.diff.mappings :
            report.diff.labels.old[m.old] = "UNCHANGED_CONTEXT" =>
                /\ \A e \in report.diff.removed :
                      Id(m.old) # e.src /\ Id(m.old) # e.dst
                /\ \A e \in report.diff.added :
                      Id(m.new) # e.src /\ Id(m.new) # e.dst

\* A report that claims to be FRESH invents no change: when both lanes compile the same
\* sources, and no hint asks for one, every node and relation is context
\* (revision_analysis.py 704-708).
FreshInventsNothing ==
    report # None /\ report.mode = "strict" =>
        (/\ report.status = "FRESH" /\ report.compared[1] = report.compared[2]
         /\ request.hints = <<>>
         =>
            /\ report.diff.removed = {} /\ report.diff.added = {}
            /\ \A n \in DOMAIN report.diff.labels.old :
                  report.diff.labels.old[n] = "UNCHANGED_CONTEXT"
            /\ \A n \in DOMAIN report.diff.labels.new :
                  report.diff.labels.new[n] = "UNCHANGED_CONTEXT")
=============================================================================
