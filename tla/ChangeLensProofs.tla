-------------------------- MODULE ChangeLensProofs --------------------------
(***************************************************************************)
(* Proofs that what Change Lens reports stood at one instant, although it  *)
(* reads one file at a time while the worktree changes; that its           *)
(* comparison pairs each node once and loses no relation; and that it      *)
(* invents no change.                                                      *)
(***************************************************************************)
EXTENDS ChangeLensProperties, GraphDiffProofs

(***************************************************************************)
(* The worktree and its history: no path holds what it lost.               *)
(***************************************************************************)
Worktree ==
    /\ DOMAIN tree = Places /\ DOMAIN past = Places
    /\ \A p \in Places : tree[p] \notin past[p]
    /\ tree \in seen
    /\ \A t \in seen : \A p \in Places : t[p] \in Possible(p)

\* What files say of a path; a path that is not among them is absent.
Of(files, p) == IF p \in DOMAIN files THEN files[p] ELSE Absent

AreFiles(files) ==
    /\ DOMAIN files \subseteq Paths
    /\ files = [p \in DOMAIN files |-> files[p]]
    /\ \A p \in DOMAIN files : files[p] # Absent

\* A path has the content, or had it and lost it for good.
Had(p, c) == c = tree[p] \/ c \in past[p]

\* The step that is under way is through with the path.
Done(p) == todo # None /\ p \notin todo

(***************************************************************************)
(* Which steps a command takes, and what its scope is then.                *)
(***************************************************************************)
StrictSteps == {"renames", "assemble", "manifest", "live", "materialise", "postcheck"}
InputSteps == {"context", "context1", "context2"}
PartialSteps == {"untracked", "changed", "scoped", "rescoped"}

IsScope(s) == \E named \in SUBSET Sources : s = [named |-> named, present |-> {}]

Commanded ==
    /\ pc # "ended" => request.command \in {"analyze-change", "roslyn-input"}
    /\ pc \in StrictSteps \cup PartialSteps \cup {"preflight", "difference", "worker"} =>
          request.command = "analyze-change"
    /\ pc \in InputSteps => request.command = "roslyn-input"
    /\ pc \in {"ended", "preflight", "resolve", "difference"} \cup StrictSteps => scope = None
    /\ pc \in {"precheck", "sources", "final"} /\ request.command = "analyze-change" =>
          scope = None
    /\ pc \in PartialSteps => IsScope(scope)
    /\ pc = "worker" => scope = None \/ IsScope(scope)
    /\ pc = "context" /\ todo # None => IsScope(scope)

(***************************************************************************)
(* What a step has read.                                                   *)
(***************************************************************************)
Readers == {"resolve", "renames", "context", "precheck", "changed"}

Reading ==
    /\ pc = "ended" => todo = None /\ got = Nothing
    /\ pc \in Readers =>
          /\ AreFiles(got)
          /\ todo = None => got = Nothing
          /\ todo # None => todo \subseteq Paths /\ DOMAIN got \cap todo = {}
    /\ pc = "context" /\ todo # None => todo \cup DOMAIN got \subseteq scope.named

\* What was read, and what was bound, was so at some instant since.
Truthful ==
    /\ pc = "resolve" => \A p \in Paths : Done(p) => Had(p, Of(got, p))
    /\ pc = "changed" => \A p \in DOMAIN got : Had(p, got[p])

\* The steps between the first reading of the worktree and the one that checks it.
Between == {"renames", "assemble", "context", "precheck"}

Bound ==
    pc \in Between =>
        /\ AreFiles(binding)
        /\ \A p \in Paths : Had(p, Of(binding, p))

(***************************************************************************)
(* The instant.  A path whose bound content is lost will fail the check:   *)
(* where the check has come past it already, it read something else.       *)
(***************************************************************************)
Lost(p) ==
    /\ Of(binding, p) \in past[p]
    /\ pc = "precheck" /\ Done(p) => Of(got, p) # Of(binding, p)

Broken == \E p \in Paths : Lost(p)

\* All that the command took from the worktree so far is in the worktree t.
Whole(t) ==
    /\ binding = Visible(t)
    /\ request.command = "analyze-change" /\ pc \notin Between => Baseline \in DOMAIN binding
    /\ pc = "renames" => \A p \in Paths : Done(p) => Of(got, p) = Of(binding, p)
    /\ request.command = "analyze-change" /\ pc # "renames" =>
          renames = ExactRenames(Visible(base), binding)
    /\ pc = "context" /\ todo # None =>
          \A p \in scope.named : Done(p) => Of(got, p) = Of(binding, p)
    /\ request.command = "roslyn-input" /\ (pc # "context" \/ todo # None) =>
          DiskProject(t) = scope.named
    /\ request.command = "roslyn-input" /\ pc # "context" =>
          scope.present = {p \in scope.named : t[p] # Absent}

Following == pc \in Between => Broken \/ \E t \in seen : Whole(t)

\* The steps after that check.
After == {"manifest", "live", "materialise", "sources", "postcheck", "context1", "context2",
          "final"}

Settled == pc \in After \/ (pc = "worker" /\ scope = None) => \E t \in seen : Whole(t)

\* The partial report: its files, read once, are read a second time.
Stood(t) == \A p \in DOMAIN binding : t[p] = binding[p]

Standing ==
    /\ pc = "scoped" =>
          /\ DOMAIN binding \subseteq Paths
          /\ \/ \E p \in DOMAIN binding : p \in todo /\ binding[p] \in past[p]
             \/ \E t \in seen : Stood(t)
    /\ pc = "rescoped" \/ (pc = "worker" /\ scope # None) => \E t \in seen : Stood(t)

ReadInv == Worktree /\ Commanded /\ Reading /\ Truthful /\ Bound

InstantInv == ReadInv /\ Following /\ Settled /\ Standing

(***************************************************************************)
(* Files and trees.                                                        *)
(***************************************************************************)

\* Two snapshots that say the same of every path are the same.
LEMMA SameFiles ==
    ASSUME NEW f, NEW g, AreFiles(f), AreFiles(g), \A p \in Paths : Of(f, p) = Of(g, p)
    PROVE  f = g
<1>1. DOMAIN f = DOMAIN g
  BY DEF AreFiles, Of
<1>2. \A p \in DOMAIN f : f[p] = g[p]
  BY <1>1 DEF AreFiles, Of
<1> QED
  BY <1>1, <1>2 DEF AreFiles

LEMMA VisibleFiles ==
    ASSUME NEW t
    PROVE  AreFiles(Visible(t)) /\ \A p \in Paths : Of(Visible(t), p) = t[p]
BY DEF Visible, Restrict, AreFiles, Of

LEMMA NothingRead == AreFiles(Nothing) /\ \A p \in Paths : Of(Nothing, p) = Absent
BY DEF Nothing, AreFiles, Of

\* The project on disk, where there is one, names sources.
LEMMA ProjectOfSources ==
    ASSUME Worktree, DiskProject(tree) # None
    PROVE  DiskProject(tree) \subseteq Sources
<1>1. Baseline \in Places /\ Live \in Places /\ Baseline \notin Sources /\ Live \notin Sources
  BY PathsDistinct DEF Places, Paths
<1>2. tree[Baseline] \in Baselines \cup {Absent} /\ tree[Live] \in LiveProjects
  BY <1>1, PathsDistinct DEF Worktree, Possible
<1> QED
  BY <1>2, ProjectsNameSources DEF DiskProject, Listed

(***************************************************************************)
(* The worktree.                                                           *)
(***************************************************************************)
LEMMA WorktreeInit == LensInit => Worktree
<1> SUFFICES ASSUME LensInit PROVE Worktree
  OBVIOUS
<1>1. PICK s \in Starts : base = s.base /\ tree = s.tree
  BY DEF LensInit
<1> QED
  BY <1>1, StartsAreTrees DEF LensInit, Worktree

LEMMA WorktreeNext == Worktree /\ [LensNext]_lensVars => Worktree'
<1> SUFFICES ASSUME Worktree, [LensNext]_lensVars PROVE Worktree'
  OBVIOUS
<1>1. CASE Edit
  <2>1. PICK p \in Places : \E c \in Possible(p) \ (past[p] \cup {tree[p]}) :
            /\ tree' = [tree EXCEPT ![p] = c]
            /\ past' = [past EXCEPT ![p] = @ \cup {tree[p]}]
            /\ seen' = seen \cup {tree'}
    BY <1>1 DEF Edit
  <2> QED
    BY <2>1 DEF Worktree
<1>2. CASE Begin
  BY <1>2 DEF Begin, Worktree
<1>3. CASE UNCHANGED <<tree, past, seen>>
  BY <1>3 DEF Worktree
<1>4. [LensNext]_lensVars => Edit \/ Begin \/ UNCHANGED <<tree, past, seen>>
  BY DEF LensNext, lensVars, environment, Preflight, List, Read, Reread, SnapshotResolved,
         RenamesDetected, AssembleOld, Prechecked, ManifestRead, LiveMatches, Materialised,
         SourcesRead, Postchecked, Analyse, Publish, Difference, Untracked, ChangedRead,
         ScopedRead, PublishPartial, ContextBuilt, NoProject, ContextRechecked, EmitInput,
         Fail, End
<1> QED
  BY <1>1, <1>2, <1>3, <1>4

\* An edit loses what the path had, and nothing that is lost comes back.
LEMMA EditLoses ==
    ASSUME Worktree, Edit
    PROVE  /\ seen \subseteq seen'
           /\ \A p \in Places : past[p] \subseteq past'[p]
           /\ \A c : \A p \in Places : Had(p, c) => Had(p, c)'
<1>1. PICK p \in Places : \E c \in Possible(p) \ (past[p] \cup {tree[p]}) :
          /\ tree' = [tree EXCEPT ![p] = c]
          /\ past' = [past EXCEPT ![p] = @ \cup {tree[p]}]
          /\ seen' = seen \cup {tree'}
  BY DEF Edit
<1> QED
  BY <1>1 DEF Worktree, Had

(***************************************************************************)
(* The steps of a command.                                                 *)
(***************************************************************************)
LEMMA CommandedInit == LensInit => Commanded
BY DEF LensInit, Commanded, StrictSteps, InputSteps, PartialSteps

LEMMA IsNoScope == ~IsScope(None)
BY NoneIsNoScope DEF IsScope

LEMMA FailCommanded == Fail => Commanded'
BY DEF Fail, End, Go, Commanded, StrictSteps, InputSteps, PartialSteps

LEMMA CommandedNext == Worktree /\ Commanded /\ [LensNext]_lensVars => Commanded'
<1> SUFFICES ASSUME Worktree, Commanded, [LensNext]_lensVars PROVE Commanded'
  OBVIOUS
<1> USE DEF Commanded, StrictSteps, InputSteps, PartialSteps
<1>1. CASE Edit
  BY <1>1 DEF Edit, IsScope
<1>2. CASE Begin
  BY <1>2 DEF Begin, IsScope
<1>3. CASE Preflight
  BY <1>3, FailCommanded DEF Preflight, Go, environment
<1>4. CASE List
  <2>1. CASE pc = "context"
    <3>1. DiskProject(tree) \subseteq Sources /\ scope' = [named |-> DiskProject(tree), present |-> {}]
      BY <1>4, <2>1, ProjectOfSources DEF List, Snapshots
    <3>2. IsScope(scope)'
      BY <3>1 DEF IsScope
    <3> QED
      BY <1>4, <2>1, <3>2 DEF List, environment
  <2>2. CASE pc # "context"
    BY <1>4, <2>2 DEF List, environment, IsScope
  <2> QED
    BY <2>1, <2>2
<1>5. CASE Read
  BY <1>5 DEF Read, environment, IsScope
<1>6. CASE Reread
  <2>1. CASE Fail
    BY <2>1, FailCommanded
  <2>2. CASE pc \in Rereads /\ UNCHANGED <<environment, pc, got, binding, renames, scope, report>>
    BY <2>2 DEF Rereads, environment, IsScope
  <2> QED
    BY <1>6, <2>1, <2>2 DEF Reread
<1>7. CASE SnapshotResolved
  BY <1>7 DEF SnapshotResolved, ReadAll, Go, environment
<1>8. CASE RenamesDetected
  BY <1>8 DEF RenamesDetected, ReadAll, Go, environment
<1>9. CASE AssembleOld
  BY <1>9, FailCommanded DEF AssembleOld, Go, environment
<1>10. CASE Prechecked
  BY <1>10, FailCommanded DEF Prechecked, ReadAll, Go, GoReread, environment
<1>11. CASE ManifestRead
  BY <1>11, FailCommanded DEF ManifestRead, ReadAll, Go, environment
<1>12. CASE LiveMatches
  BY <1>12, FailCommanded DEF LiveMatches, GoReread, environment
<1>13. CASE Materialised
  BY <1>13, FailCommanded DEF Materialised, ReadAll, GoReread, environment
<1>14. CASE SourcesRead
  BY <1>14 DEF SourcesRead, ReadAll, Go, environment
<1>15. CASE Postchecked
  BY <1>15, FailCommanded DEF Postchecked, ReadAll, Go, environment
<1>16. CASE Analyse
  BY <1>16, FailCommanded DEF Analyse, Strict, Go, GoReread, environment, IsScope
<1>17. CASE Publish
  BY <1>17, FailCommanded DEF Publish, Fail, End, Go
<1>18. CASE Difference
  <2>1. IsScope(scope)'
    BY <1>18 DEF Difference, IsScope
  <2> QED
    BY <1>18, <2>1 DEF Difference, Go, environment
<1>19. CASE Untracked
  <2>1. CASE Fail
    BY <2>1, FailCommanded
  <2>2. CASE ~Fail
    <3>1. PICK named \in SUBSET Sources : scope = [named |-> named, present |-> {}]
      BY <1>19 DEF Untracked, IsScope
    <3>2. IsScope(scope)' /\ request' = request /\ pc' = "changed" /\ pc = "untracked"
      BY <1>19, <2>2, <3>1 DEF Untracked, IsScope, GoReread, environment
    <3> QED
      BY <3>2
  <2> QED
    BY <2>1, <2>2
<1>20. CASE ChangedRead
  BY <1>20 DEF ChangedRead, ReadAll, GoReread, environment, IsScope
<1>21. CASE ScopedRead
  BY <1>21, FailCommanded DEF ScopedRead, ReadAll, Go, environment, IsScope
<1>22. CASE PublishPartial
  BY <1>22 DEF PublishPartial, End, Go
<1>23. CASE ContextBuilt
  BY <1>23 DEF ContextBuilt, ReadAll, Go, environment
<1>24. CASE NoProject
  BY <1>24, FailCommanded DEF NoProject
<1>25. CASE ContextRechecked
  BY <1>25, FailCommanded DEF ContextRechecked, Go, GoReread, environment
<1>26. CASE EmitInput
  BY <1>26, FailCommanded DEF EmitInput, End, Go
<1>27. CASE UNCHANGED lensVars
  BY <1>27 DEF lensVars, IsScope
<1> QED
  BY <1>1, <1>2, <1>3, <1>4, <1>5, <1>6, <1>7, <1>8, <1>9, <1>10, <1>11, <1>12, <1>13,
     <1>14, <1>15, <1>16, <1>17, <1>18, <1>19, <1>20, <1>21, <1>22, <1>23, <1>24, <1>25,
     <1>26, <1>27 DEF LensNext

(***************************************************************************)
(* Reading.                                                                *)
(***************************************************************************)

\* One file is read: it is what the path has now, and the others stay as they are.
LEMMA ReadOne ==
    ASSUME Reading, Read, pc \in Readers
    PROVE  \E p \in todo :
              /\ p \in Paths /\ todo' = todo \ {p} /\ todo # None /\ todo' # None
              /\ AreFiles(got')
              /\ DOMAIN got' \subseteq DOMAIN got \cup {p}
              /\ Of(got', p) = tree[p]
              /\ \A q \in Paths \ {p} : Of(got', q) = Of(got, q)
<1>1. PICK p \in todo :
          /\ todo' = todo \ {p} /\ todo # None
          /\ got' = IF tree[p] = Absent THEN got
                    ELSE [q \in DOMAIN got \cup {p} |-> IF q = p THEN tree[p] ELSE got[q]]
  BY DEF Read
<1>2. p \in Paths /\ p \notin DOMAIN got /\ AreFiles(got) /\ todo \subseteq Paths
  BY <1>1 DEF Reading
<1>3. todo' # None
  BY <1>1, <1>2, NoneIsNoList
<1>4. AreFiles(got') /\ DOMAIN got' \subseteq DOMAIN got \cup {p}
  BY <1>1, <1>2 DEF AreFiles
<1>5. Of(got', p) = tree[p] /\ \A q \in Paths \ {p} : Of(got', q) = Of(got, q)
  BY <1>1, <1>2 DEF Of
<1> QED
  BY <1>1, <1>2, <1>3, <1>4, <1>5

LEMMA ListOne ==
    ASSUME Worktree, Reading, List, pc \in Readers
    PROVE  /\ todo = None /\ got = Nothing /\ got' = Nothing
           /\ todo' # None /\ todo' \subseteq Paths
           /\ pc = "context" =>
                 /\ todo' = DiskProject(tree) /\ todo' \subseteq Sources
                 /\ scope' = [named |-> todo', present |-> {}]
           /\ pc # "context" =>
                 /\ scope' = scope
                 /\ \A p \in Paths \ todo' : tree[p] = Absent
<1>1. todo = None /\ got = Nothing /\ got' = Nothing
  BY DEF List, Reading
<1>2. CASE pc = "context"
  <2>1. DiskProject(tree) \subseteq Sources
    BY <1>2, ProjectOfSources DEF List, Snapshots
  <2>2. todo' = DiskProject(tree) /\ scope' = [named |-> DiskProject(tree), present |-> {}]
    BY <1>2 DEF List, Snapshots
  <2>3. todo' # None /\ todo' \subseteq Paths
    BY <2>1, <2>2, NoneIsNoList DEF Paths
  <2> QED
    BY <1>1, <1>2, <2>1, <2>2, <2>3
<1>3. CASE pc # "context"
  <2>1. todo' = Shown /\ scope' = scope
    BY <1>3 DEF List, Readers, Probes
  <2>2. todo' \subseteq Paths /\ \A p \in Paths \ todo' : tree[p] = Absent
    BY <2>1 DEF Shown
  <2>3. todo' # None
    BY <2>2, NoneIsNoList
  <2> QED
    BY <1>1, <1>3, <2>1, <2>2, <2>3
<1> QED
  BY <1>2, <1>3

LEMMA ReadingInit == LensInit => Reading
BY DEF LensInit, Reading, Readers

\* A step that begins to read has read nothing.
LEMMA GoReading == \A step : Go(step) => Reading'
BY NothingRead DEF Go, Reading

LEMMA FailReading == Fail => Reading'
BY GoReading DEF Fail, End

LEMMA ReadingNext == Worktree /\ Commanded /\ Reading /\ [LensNext]_lensVars => Reading'
<1> SUFFICES ASSUME Worktree, Commanded, Reading, [LensNext]_lensVars PROVE Reading'
  OBVIOUS
<1>1. CASE UNCHANGED <<pc, todo, got, scope>>
  BY <1>1 DEF Reading
<1>2. CASE \E step : Go(step)
  BY <1>2, GoReading
<1>3. CASE pc' \notin Readers \cup {"ended"}
  BY <1>3 DEF Reading, Readers
<1>4. CASE Begin
  BY <1>4, NothingRead DEF Begin, Reading, Readers
<1>5. CASE List
  <2>1. CASE pc \in Readers
    <3>1. pc' = pc
      BY <1>5 DEF List
    <3> QED
      BY <1>5, <2>1, <3>1, ListOne, NothingRead DEF Reading, Nothing, Readers
  <2>2. CASE pc \notin Readers
    BY <1>5, <2>2 DEF List, Reading, Readers, Snapshots, Probes
  <2> QED
    BY <2>1, <2>2
<1>6. CASE Read
  <2>1. CASE pc \in Readers
    <3>1. PICK p \in todo :
              /\ p \in Paths /\ todo' = todo \ {p} /\ todo # None /\ todo' # None
              /\ AreFiles(got')
              /\ DOMAIN got' \subseteq DOMAIN got \cup {p}
      BY <1>6, <2>1, ReadOne
    <3>2. pc' = pc /\ scope' = scope
      BY <1>6 DEF Read
    <3> QED
      BY <2>1, <3>1, <3>2 DEF Reading, Readers
  <2>2. CASE pc \notin Readers
    BY <1>6, <2>2 DEF Read, Reading, Readers, Snapshots, Probes
  <2> QED
    BY <2>1, <2>2
<1>7. CASE Untracked
  <2>1. CASE Fail
    BY <2>1, FailReading
  <2>2. CASE ~Fail
    <3>1. PICK n \in SUBSET Sources : scope = [named |-> n, present |-> {}]
      BY <1>7 DEF Untracked, Commanded, PartialSteps, IsScope
    <3>2. pc' = "changed" /\ got' = Nothing /\ todo' \subseteq Sources
      BY <1>7, <2>2, <3>1 DEF Untracked, GoReread
    <3>3. todo' # None /\ todo' \subseteq Paths
      BY <3>2, NoneIsNoList DEF Paths
    <3> QED
      BY <3>2, <3>3, NothingRead DEF Reading, Nothing
  <2> QED
    BY <2>1, <2>2
<1>8. CASE Reread
  BY <1>8, FailReading DEF Reread, Rereads, Reading, Readers
<1>9. [LensNext]_lensVars =>
          \/ UNCHANGED <<pc, todo, got, scope>> \/ (\E step : Go(step))
          \/ pc' \notin Readers \cup {"ended"}
          \/ Begin \/ List \/ Read \/ Untracked \/ Reread
  BY DEF LensNext, lensVars, environment, Edit, Preflight, SnapshotResolved,
         RenamesDetected, AssembleOld, Prechecked, ManifestRead, LiveMatches, Materialised,
         SourcesRead, Postchecked, Analyse, Publish, Difference, ChangedRead,
         ScopedRead, PublishPartial, ContextBuilt, NoProject, ContextRechecked, EmitInput,
         Fail, End, GoReread, Readers
<1> QED
  BY <1>1, <1>2, <1>3, <1>4, <1>5, <1>6, <1>7, <1>8, <1>9

(***************************************************************************)
(* What was read was so.                                                   *)
(***************************************************************************)
LEMMA ReadInvInit == LensInit => ReadInv
BY WorktreeInit, CommandedInit, ReadingInit
   DEF ReadInv, LensInit, Truthful, Bound, Between

LEMMA TruthfulNext ==
    Worktree /\ Commanded /\ Reading /\ Truthful /\ [LensNext]_lensVars => Truthful'
<1> SUFFICES ASSUME Worktree, Commanded, Reading, Truthful, [LensNext]_lensVars
             PROVE  Truthful'
  OBVIOUS
<1>1. CASE UNCHANGED <<tree, past, pc, todo, got>>
  BY <1>1 DEF Truthful, Had, Done
<1>2. CASE Edit
  <2>1. UNCHANGED <<pc, todo, got>>
    BY <1>2 DEF Edit
  <2>2. \A c : \A p \in Paths : Had(p, c) => Had(p, c)'
    BY <1>2, EditLoses DEF Places
  <2>3. pc \in Readers => DOMAIN got \subseteq Paths
    BY DEF Reading, AreFiles
  <2> QED
    BY <2>1, <2>2, <2>3 DEF Truthful, Done, Readers
<1>3. CASE pc' \notin {"resolve", "changed"}
  BY <1>3 DEF Truthful
<1>4. CASE pc' = "resolve" /\ todo' = None
  BY <1>4 DEF Truthful, Done
<1>5. CASE pc' = "changed" /\ got' = Nothing
  BY <1>5 DEF Truthful, Nothing
<1>6. CASE List
  <2>1. UNCHANGED <<tree, past, pc, got>>
    BY <1>6 DEF List, environment
  <2>2. CASE pc = "resolve"
    BY <1>6, <2>1, <2>2, ListOne, NothingRead DEF Readers, Truthful, Done, Had
  <2>3. CASE pc # "resolve"
    BY <2>1, <2>3 DEF Truthful, Had
  <2> QED
    BY <2>2, <2>3
<1>7. CASE Read
  <2>1. UNCHANGED <<tree, past, pc>>
    BY <1>7 DEF Read, environment
  <2>2. CASE pc \in {"resolve", "changed"}
    <3>1. PICK p \in todo :
              /\ p \in Paths /\ todo' = todo \ {p} /\ todo # None
              /\ AreFiles(got')
              /\ DOMAIN got' \subseteq DOMAIN got \cup {p}
              /\ Of(got', p) = tree[p]
              /\ \A q \in Paths \ {p} : Of(got', q) = Of(got, q)
      BY <1>7, <2>2, ReadOne DEF Readers
    <3>2. ASSUME NEW q \in Paths, pc = "resolve", Done(q)'
          PROVE  Had(q, Of(got', q))
      BY <3>1, <3>2 DEF Truthful, Had, Done
    <3>3. ASSUME NEW q \in DOMAIN got', pc = "changed"
          PROVE  Had(q, got'[q])
      <4>1. q \in Paths
        BY <3>1 DEF AreFiles
      <4>2. CASE q = p
        BY <3>1, <4>2 DEF Had, Of
      <4>3. CASE q # p
        <5>1. q \in DOMAIN got /\ got'[q] = got[q]
          BY <3>1, <4>1, <4>3 DEF Of
        <5> QED
          BY <3>3, <5>1 DEF Truthful
      <4> QED
        BY <4>2, <4>3
    <3> QED
      BY <2>1, <3>2, <3>3 DEF Truthful, Had
  <2>3. CASE pc \notin {"resolve", "changed"}
    BY <2>1, <2>3 DEF Truthful
  <2> QED
    BY <2>2, <2>3
<1>8. CASE Begin
  BY <1>8 DEF Begin, Reading, Truthful, Done
<1>9. [LensNext]_lensVars =>
          \/ UNCHANGED <<tree, past, pc, todo, got>>
          \/ pc' \notin {"resolve", "changed"}
          \/ pc' = "resolve" /\ todo' = None
          \/ pc' = "changed" /\ got' = Nothing
          \/ Edit \/ Begin \/ List \/ Read
  BY DEF LensNext, lensVars, environment, Preflight, SnapshotResolved, Reread,
         RenamesDetected, AssembleOld, Prechecked, ManifestRead, LiveMatches, Materialised,
         SourcesRead, Postchecked, Analyse, Publish, Difference, Untracked, ChangedRead,
         ScopedRead, PublishPartial, ContextBuilt, NoProject, ContextRechecked, EmitInput,
         Fail, End, Go, GoReread, Rereads
<1> QED
  BY <1>1, <1>2, <1>3, <1>4, <1>5, <1>6, <1>7, <1>8, <1>9

\* A step that is through is through with every path.
LEMMA AllDone == ASSUME todo = {} PROVE \A p \in Paths : Done(p)
BY NoneIsNoList DEF Done

LEMMA BoundNext == ReadInv /\ [LensNext]_lensVars => Bound'
<1> SUFFICES ASSUME ReadInv, [LensNext]_lensVars PROVE Bound'
  OBVIOUS
<1> USE DEF ReadInv
<1>1. CASE UNCHANGED <<tree, past, binding>> /\ (pc' \in Between => pc \in Between)
  BY <1>1 DEF Bound, Had
<1>2. CASE Edit
  <2>1. UNCHANGED <<pc, binding>>
    BY <1>2 DEF Edit
  <2>2. \A c : \A p \in Paths : Had(p, c) => Had(p, c)'
    BY <1>2, EditLoses DEF Places
  <2> QED
    BY <2>1, <2>2 DEF Bound
<1>3. CASE SnapshotResolved
  <2>1. pc = "resolve" /\ todo = {} /\ binding' = got /\ UNCHANGED <<tree, past>>
    BY <1>3 DEF SnapshotResolved, ReadAll, environment
  <2>2. AreFiles(got) /\ \A p \in Paths : Had(p, Of(got, p))
    BY <2>1, AllDone DEF Reading, Readers, Truthful
  <2> QED
    BY <2>1, <2>2 DEF Bound, Had
<1>4. CASE pc' \notin Between
  BY <1>4 DEF Bound
<1>5. [LensNext]_lensVars =>
          \/ UNCHANGED <<tree, past, binding>> /\ (pc' \in Between => pc \in Between)
          \/ pc' \notin Between \/ Edit \/ SnapshotResolved
  BY DEF LensNext, lensVars, environment, Begin, Preflight, List, Read, Reread,
         RenamesDetected, AssembleOld, Prechecked, ManifestRead, LiveMatches, Materialised,
         SourcesRead, Postchecked, Analyse, Publish, Difference, Untracked, ChangedRead,
         ScopedRead, PublishPartial, ContextBuilt, NoProject, ContextRechecked, EmitInput,
         Fail, End, Go, GoReread, ReadAll, Between
<1> QED
  BY <1>1, <1>2, <1>3, <1>4, <1>5

LEMMA ReadInvNext == ReadInv /\ [LensNext]_lensVars => ReadInv'
BY WorktreeNext, CommandedNext, ReadingNext, TruthfulNext, BoundNext DEF ReadInv

(***************************************************************************)
(* The instant, from the first reading to the check.                       *)
(***************************************************************************)

\* Before the check reads, what is bound is what there is, or some of it is lost.
LEMMA BoundOrBroken ==
    ASSUME ReadInv, pc \in Between, pc # "precheck"
    PROVE  \/ Broken
           \/ binding = Visible(tree) /\ \A p \in Paths : Of(binding, p) = tree[p]
<1>1. CASE \E p \in Paths : Of(binding, p) \in past[p]
  BY <1>1 DEF Broken, Lost
<1>2. CASE \A p \in Paths : Of(binding, p) \notin past[p]
  <2>1. AreFiles(binding) /\ \A p \in Paths : Of(binding, p) = tree[p]
    BY <1>2 DEF ReadInv, Bound, Had
  <2>2. binding = Visible(tree)
    BY <2>1, VisibleFiles, SameFiles
  <2> QED
    BY <2>1, <2>2
<1> QED
  BY <1>1, <1>2

\* What is lost stays lost, as long as the check has not begun.
LEMMA BrokenStays ==
    ASSUME Broken, pc # "precheck", pc' # "precheck" \/ todo' = None,
           binding' = binding, past' = past
    PROVE  Broken'
BY DEF Broken, Lost, Done

LEMMA EditFollows ==
    ASSUME ReadInv, Following, Edit
    PROVE  Following'
<1>1. UNCHANGED <<base, request, pc, todo, got, binding, renames, scope>>
  BY DEF Edit
<1>2. seen \subseteq seen' /\ \A p \in Paths : past[p] \subseteq past'[p]
  BY EditLoses DEF ReadInv, Places
<1>3. Broken => Broken'
  BY <1>1, <1>2 DEF Broken, Lost, Done
<1>4. \A t : Whole(t) => Whole(t)'
  BY <1>1 DEF Whole, Done
<1> QED
  BY <1>1, <1>2, <1>3, <1>4 DEF Following

LEMMA ResolvedFollows ==
    ASSUME ReadInv, SnapshotResolved
    PROVE  Following'
<1>1. /\ pc = "resolve" /\ todo = {} /\ binding' = got /\ todo' = None
      /\ pc' = IF request.command = "analyze-change" THEN "renames" ELSE "context"
      /\ UNCHANGED <<tree, past, seen, request>>
  BY DEF SnapshotResolved, ReadAll, environment, Go
<1>2. AreFiles(got) /\ \A p \in Paths : Had(p, Of(got, p))
  BY <1>1, AllDone DEF ReadInv, Reading, Readers, Truthful
<1>3. CASE \E p \in Paths : Of(got, p) \in past[p]
  BY <1>1, <1>3 DEF Following, Broken, Lost
<1>4. CASE \A p \in Paths : Of(got, p) \notin past[p]
  <2>1. PICK t \in seen : t = tree
    BY DEF ReadInv, Worktree
  <2>2. got = Visible(t)
    BY <1>2, <1>4, <2>1, VisibleFiles, SameFiles DEF Had
  <2>3. pc = "resolve" => request.command \in {"analyze-change", "roslyn-input"}
    BY DEF ReadInv, Commanded
  <2>4. Whole(t)'
    BY <1>1, <2>2, <2>3 DEF Between, Whole, Done
  <2> QED
    BY <1>1, <2>1, <2>4 DEF Following
<1> QED
  BY <1>3, <1>4

LEMMA ListFollows ==
    ASSUME ReadInv, Following, List, pc \in Between
    PROVE  Following'
<1>1. UNCHANGED <<base, tree, past, seen, request, pc, got, binding, renames>>
  BY DEF List, environment
<1>2. CASE pc = "assemble"
  BY <1>2 DEF List, Snapshots, Probes
<1>3. CASE pc = "renames"
  <2>1. got' = Nothing /\ scope' = scope /\ \A p \in Paths \ todo' : tree[p] = Absent
    BY <1>3, ListOne DEF ReadInv, Readers
  <2>2. CASE Broken
    BY <1>1, <1>3, <2>2, BrokenStays DEF Following
  <2>3. CASE ~Broken
    <3>1. PICK t \in seen : Whole(t)
      BY <1>3, <2>3 DEF Following, Between
    <3>2. \A p \in Paths : Of(binding, p) = tree[p]
      BY <1>3, <2>3, BoundOrBroken DEF Between
    <3>3. \A p \in Paths : Done(p)' => Of(got', p) = Of(binding, p)
      BY <2>1, <3>2, NothingRead DEF Done
    <3>4. Whole(t)'
      BY <1>1, <1>3, <2>1, <3>1, <3>3 DEF Whole, ReadInv, Commanded, StrictSteps
    <3> QED
      BY <1>1, <3>4 DEF Following
  <2> QED
    BY <2>2, <2>3
<1>4. CASE pc = "context"
  <2>1. /\ todo' = DiskProject(tree) /\ todo' # None
        /\ scope' = [named |-> todo', present |-> {}]
    BY <1>4, ListOne DEF ReadInv, Readers
  <2>2. CASE Broken
    BY <1>1, <1>4, <2>2, BrokenStays DEF Following
  <2>3. CASE ~Broken
    <3>1. PICK t \in seen : t = tree
      BY DEF ReadInv, Worktree
    <3>2. binding = Visible(t)
      BY <1>4, <2>3, <3>1, BoundOrBroken DEF Between
    <3>3. request.command = "roslyn-input"
      BY <1>4 DEF ReadInv, Commanded, InputSteps
    <3>4. Whole(t)'
      BY <1>1, <1>4, <2>1, <3>1, <3>2, <3>3 DEF Whole, Done
    <3> QED
      BY <1>1, <3>4 DEF Following
  <2> QED
    BY <2>2, <2>3
<1>5. CASE pc = "precheck"
  <2>1. got' = Nothing /\ scope' = scope /\ \A p \in Paths \ todo' : tree[p] = Absent
    BY <1>5, ListOne DEF ReadInv, Readers
  <2>2. ASSUME NEW p \in Paths, Lost(p)
        PROVE  Lost(p)'
    <3>1. Of(binding, p) # tree[p]
      BY <2>2 DEF Lost, ReadInv, Worktree, Places
    <3>2. Done(p)' => Of(got', p) = tree[p]
      BY <2>1, NothingRead DEF Done
    <3> QED
      BY <1>1, <2>2, <3>1, <3>2 DEF Lost
  <2>3. \A t : Whole(t) => Whole(t)'
    BY <1>1, <1>5, <2>1 DEF Whole
  <2> QED
    BY <1>1, <2>2, <2>3 DEF Following, Broken
<1> QED
  BY <1>2, <1>3, <1>4, <1>5 DEF Between

LEMMA ReadFollows ==
    ASSUME ReadInv, Following, Read, pc \in Between
    PROVE  Following'
<1>1. UNCHANGED <<base, tree, past, seen, request, pc, binding, renames, scope>>
  BY DEF Read, environment
<1>2. pc \in Readers
  BY DEF Read, Readers, Between, Snapshots, Probes
<1>3. PICK p \in todo :
          /\ p \in Paths /\ todo' = todo \ {p} /\ todo # None /\ todo' # None
          /\ Of(got', p) = tree[p]
          /\ \A q \in Paths \ {p} : Of(got', q) = Of(got, q)
  BY <1>2, ReadOne DEF ReadInv
<1>4. CASE pc = "precheck"
  <2>1. ASSUME NEW q \in Paths, Lost(q)
        PROVE  Lost(q)'
    <3>1. CASE q = p
      <4>1. Of(binding, q) # tree[q]
        BY <2>1 DEF Lost, ReadInv, Worktree, Places
      <4> QED
        BY <1>1, <1>3, <2>1, <3>1, <4>1 DEF Lost
    <3>2. CASE q # p
      BY <1>1, <1>3, <2>1, <3>2 DEF Lost, Done
    <3> QED
      BY <3>1, <3>2
  <2>2. \A t : Whole(t) => Whole(t)'
    BY <1>1, <1>4 DEF Whole
  <2> QED
    BY <1>1, <2>1, <2>2 DEF Following, Broken
<1>5. CASE pc # "precheck"
  <2>1. CASE Broken
    BY <1>1, <1>5, <2>1, BrokenStays DEF Following
  <2>2. CASE ~Broken
    <3>1. PICK t \in seen : Whole(t)
      BY <2>2 DEF Following
    <3>2. \A q \in Paths : Of(binding, q) = tree[q]
      BY <1>5, <2>2, BoundOrBroken
    <3>3. \A q \in Paths : (Done(q) => Of(got, q) = Of(binding, q)) =>
              (Done(q)' => Of(got', q) = Of(binding, q))
      BY <1>3, <3>2 DEF Done
    <3>4. pc = "context" => scope.named \subseteq Paths
      BY <1>3 DEF ReadInv, Commanded, IsScope, Paths
    <3>5. Whole(t)'
      BY <1>1, <1>3, <3>1, <3>3, <3>4 DEF Whole
    <3> QED
      BY <1>1, <3>5 DEF Following
  <2> QED
    BY <2>1, <2>2
<1> QED
  BY <1>4, <1>5

LEMMA RenamesFollow ==
    ASSUME ReadInv, Following, RenamesDetected
    PROVE  Following'
<1>1. /\ pc = "renames" /\ todo = {} /\ pc' = "assemble" /\ todo' = None
      /\ renames' = ExactRenames(Visible(base), got)
      /\ UNCHANGED <<base, tree, past, seen, request, binding, scope>>
  BY DEF RenamesDetected, ReadAll, environment, Go
<1>2. CASE Broken
  BY <1>1, <1>2, BrokenStays DEF Following
<1>3. CASE ~Broken
  <2>1. PICK t \in seen : Whole(t)
    BY <1>1, <1>3 DEF Following, Between
  <2>2. \A p \in Paths : Of(got, p) = Of(binding, p)
    BY <1>1, <2>1, AllDone DEF Whole
  <2>3. got = binding
    BY <1>1, <2>2, SameFiles DEF ReadInv, Reading, Readers, Bound, Between
  <2>4. Whole(t)'
    BY <1>1, <2>1, <2>3 DEF Between, Whole, ReadInv, Commanded, StrictSteps
  <2> QED
    BY <1>1, <2>4 DEF Following
<1> QED
  BY <1>2, <1>3

LEMMA ContextFollows ==
    ASSUME ReadInv, Following, ContextBuilt
    PROVE  Following'
<1>1. /\ pc = "context" /\ todo = {} /\ pc' = "precheck" /\ todo' = None
      /\ scope' = [scope EXCEPT !.present = DOMAIN got]
      /\ UNCHANGED <<base, tree, past, seen, request, binding, renames>>
  BY DEF ContextBuilt, ReadAll, environment, Go
<1>2. CASE Broken
  BY <1>1, <1>2, BrokenStays DEF Following
<1>3. CASE ~Broken
  <2>1. PICK t \in seen : Whole(t)
    BY <1>1, <1>3 DEF Following, Between
  <2>2. todo # None
    BY <1>1, NoneIsNoList
  <2>3. PICK named \in SUBSET Sources : scope = [named |-> named, present |-> {}]
    BY <1>1, <2>2 DEF ReadInv, Commanded, IsScope
  <2>4. AreFiles(got) /\ DOMAIN got \subseteq named
    BY <1>1, <2>2, <2>3 DEF ReadInv, Reading, Readers
  <2>5. \A p \in named : p \in Paths /\ Of(got, p) = Of(binding, p)
    BY <1>1, <2>1, <2>2, <2>3, AllDone DEF Whole, Paths
  <2>6. \A p \in named : Of(got, p) = t[p]
    BY <2>1, <2>5, VisibleFiles DEF Whole
  <2>7. DOMAIN got = {p \in named : t[p] # Absent}
    BY <2>4, <2>6 DEF AreFiles, Of
  <2>8. request.command = "roslyn-input"
    BY <1>1 DEF ReadInv, Commanded, InputSteps
  <2>9. scope'.named = named /\ scope'.present = DOMAIN got /\ DiskProject(t) = named
    BY <1>1, <2>1, <2>2, <2>3, <2>8 DEF Whole
  <2>10. Whole(t)'
    BY <1>1, <2>1, <2>7, <2>8, <2>9 DEF Whole
  <2> QED
    BY <1>1, <2>10 DEF Following
<1> QED
  BY <1>2, <1>3

LEMMA FollowingNext ==
    ASSUME ReadInv, Following, [LensNext]_lensVars
    PROVE  Following'
<1>1. CASE Edit
  BY <1>1, EditFollows
<1>2. CASE SnapshotResolved
  BY <1>2, ResolvedFollows
<1>3. CASE List
  <2>1. pc' = pc
    BY <1>3 DEF List
  <2> QED
    BY <1>3, <2>1, ListFollows DEF Following
<1>4. CASE Read
  <2>1. pc' = pc
    BY <1>4 DEF Read
  <2> QED
    BY <1>4, <2>1, ReadFollows DEF Following
<1>5. CASE RenamesDetected
  BY <1>5, RenamesFollow
<1>6. CASE ContextBuilt
  BY <1>6, ContextFollows
<1>7. CASE AssembleOld /\ ~Fail
  <2>1. /\ pc = "assemble" /\ pc' = "precheck" /\ todo' = None
        /\ UNCHANGED <<base, tree, past, seen, request, binding, renames, scope>>
    BY <1>7 DEF AssembleOld, Go, environment
  <2>2. Broken => Broken'
    BY <2>1, BrokenStays
  <2>3. request.command = "analyze-change"
    BY <2>1 DEF ReadInv, Commanded, StrictSteps
  <2>4. \A t : Whole(t) => Whole(t)'
    BY <2>1, <2>3 DEF Between, Whole
  <2> QED
    BY <2>1, <2>2, <2>4 DEF Following, Between
<1>8. CASE UNCHANGED lensVars
  BY <1>8 DEF lensVars, Following, Broken, Lost, Done, Whole
<1>9. CASE pc' \notin Between
  BY <1>9 DEF Following
<1>10. [LensNext]_lensVars =>
          \/ Edit \/ SnapshotResolved \/ List \/ Read \/ RenamesDetected \/ ContextBuilt
          \/ (AssembleOld /\ ~Fail) \/ UNCHANGED lensVars \/ pc' \notin Between
  BY DEF LensNext, Begin, Preflight, Reread, AssembleOld, Prechecked, ManifestRead,
         LiveMatches, Materialised, SourcesRead, Postchecked, Analyse, Publish, Difference,
         Untracked, ChangedRead, ScopedRead, PublishPartial, NoProject, ContextRechecked,
         EmitInput, Fail, End, Go, GoReread, ReadAll, Between, Rereads
<1> QED
  BY <1>1, <1>2, <1>3, <1>4, <1>5, <1>6, <1>7, <1>8, <1>9, <1>10

(***************************************************************************)
(* The instant, once it is checked.                                        *)
(***************************************************************************)

\* The check finds what is bound: nothing of it is lost.
LEMMA CheckedIsWhole ==
    ASSUME ReadInv, Following, pc = "precheck", todo = {}, got = binding
    PROVE  \E t \in seen : Whole(t)
<1>1. ~Broken
  BY AllDone DEF Broken, Lost
<1> QED
  BY <1>1 DEF Following, Between

\* What is whole stays whole while nothing of it is written.
LEMMA WholeStays ==
    ASSUME NEW t, Whole(t), pc \notin {"renames", "context"}, pc' \notin {"renames", "context"},
           request.command = "analyze-change" /\ pc \in Between => Baseline \in DOMAIN binding,
           UNCHANGED <<base, request, binding, renames, scope>>
    PROVE  Whole(t)'
BY DEF Whole

LEMMA SettledNext ==
    ASSUME ReadInv, Following, Settled, [LensNext]_lensVars
    PROVE  Settled'
<1>1. CASE Edit
  <2>1. UNCHANGED <<base, request, pc, binding, renames, scope>> /\ seen \subseteq seen'
    BY <1>1, EditLoses DEF Edit, ReadInv
  <2> QED
    BY <2>1, WholeStays DEF Settled, After, Between
<1>2. CASE Prechecked /\ ~Fail
  <2>1. /\ pc = "precheck" /\ todo = {} /\ got = binding
        /\ pc' \in {"context1", "materialise", "manifest"}
        /\ request.command = "analyze-change" => Baseline \in DOMAIN binding
        /\ UNCHANGED <<base, seen, request, binding, renames, scope>>
    BY <1>2 DEF Prechecked, ReadAll, Current, Go, GoReread, environment
  <2>2. PICK t \in seen : Whole(t)
    BY <2>1, CheckedIsWhole
  <2>3. Whole(t)'
    BY <2>1, <2>2, WholeStays DEF Between
  <2> QED
    BY <2>1, <2>3 DEF Settled
<1>3. CASE /\ pc \in After \/ (pc = "worker" /\ scope = None)
           /\ pc' \in After \cup {"worker"}
           /\ UNCHANGED <<base, seen, request, binding, renames, scope>>
  <2>1. PICK t \in seen : Whole(t)
    BY <1>3 DEF Settled
  <2>2. Whole(t)'
    BY <1>3, <2>1, WholeStays DEF After, Between
  <2> QED
    BY <1>3, <2>2 DEF Settled
<1>4. CASE pc' \notin After /\ ~(pc' = "worker" /\ scope' = None)
  BY <1>4 DEF Settled
<1>5. CASE Reread \/ List \/ Read
  <2>1. pc' = pc \/ pc' = "ended"
    BY <1>5 DEF Reread, Rereads, List, Read, Fail, End, Go
  <2>2. pc' = pc => UNCHANGED <<base, seen, request, binding, renames>>
    BY <1>5 DEF Reread, Rereads, List, Read, Fail, End, Go, environment
  <2>3. pc # "context" /\ pc' = pc => scope' = scope
    BY <1>5 DEF Reread, Rereads, List, Read, Fail, End, Go
  <2> QED
    BY <1>3, <1>4, <2>1, <2>2, <2>3 DEF After
<1>6. CASE \/ ManifestRead \/ LiveMatches \/ Materialised \/ SourcesRead \/ Postchecked
           \/ Analyse \/ ContextRechecked
  <2>1. \/ pc' = "ended" \/ pc' = "rescoped"
        \/ /\ pc \in After \/ (pc = "worker" /\ scope = None)
           /\ pc' \in After \cup {"worker"}
           /\ UNCHANGED <<base, seen, request, binding, renames, scope>>
    BY <1>6 DEF ManifestRead, LiveMatches, Materialised, SourcesRead, Postchecked, Analyse,
           ContextRechecked, Strict, Fail, End, Go, GoReread, ReadAll, environment, After
  <2> QED
    BY <1>3, <1>4, <2>1 DEF After
<1>7. CASE ScopedRead
  <2>1. pc = "scoped" /\ (Fail \/ UNCHANGED scope)
    BY <1>7 DEF ScopedRead, ReadAll
  <2>2. pc = "scoped" => scope # None
    BY IsNoScope DEF ReadInv, Commanded, PartialSteps
  <2>3. pc' \in {"ended", "worker"} /\ (Fail => pc' = "ended")
    BY <1>7 DEF ScopedRead, Fail, End, Go
  <2> QED
    BY <1>4, <2>1, <2>2, <2>3 DEF After
<1>8. CASE UNCHANGED lensVars
  BY <1>8 DEF lensVars, Settled, Whole, Done
<1>9. [LensNext]_lensVars =>
          \/ Edit \/ (Prechecked /\ ~Fail) \/ Reread \/ List \/ Read
          \/ ManifestRead \/ LiveMatches \/ Materialised \/ SourcesRead \/ Postchecked
          \/ Analyse \/ ContextRechecked \/ ScopedRead \/ UNCHANGED lensVars
          \/ pc' \notin After \cup {"worker"}
  BY DEF LensNext, Begin, Preflight, SnapshotResolved, RenamesDetected, AssembleOld,
         Prechecked, Publish, Difference, Untracked, ChangedRead, PublishPartial,
         ContextBuilt, NoProject, EmitInput, Fail, End, Go, GoReread, After
<1> QED
  BY <1>1, <1>2, <1>4, <1>5, <1>6, <1>7, <1>8, <1>9

(***************************************************************************)
(* The files of a partial report.                                          *)
(***************************************************************************)
LEMMA StandingNext ==
    ASSUME ReadInv, Standing, [LensNext]_lensVars
    PROVE  Standing'
<1>1. CASE Edit
  <2>1. UNCHANGED <<pc, todo, binding, scope>> /\ seen \subseteq seen'
    BY <1>1, EditLoses DEF Edit, ReadInv
  <2>2. \A p \in Paths : past[p] \subseteq past'[p]
    BY <1>1, EditLoses DEF ReadInv, Places
  <2> QED
    BY <2>1, <2>2 DEF Standing, Stood
<1>2. CASE ChangedRead
  <2>1. /\ pc = "changed" /\ pc' = "scoped" /\ binding' = got /\ todo' = DOMAIN got
        /\ UNCHANGED <<tree, past, seen>>
    BY <1>2 DEF ChangedRead, ReadAll, GoReread, environment
  <2>2. DOMAIN got \subseteq Paths /\ \A p \in DOMAIN got : Had(p, got[p])
    BY <2>1 DEF ReadInv, Reading, Readers, Truthful, AreFiles
  <2>3. CASE \E p \in DOMAIN got : got[p] \in past[p]
    BY <2>1, <2>2, <2>3 DEF Standing
  <2>4. CASE \A p \in DOMAIN got : got[p] \notin past[p]
    <3>1. PICK t \in seen : t = tree
      BY DEF ReadInv, Worktree
    <3>2. Stood(t)'
      BY <2>1, <2>2, <2>4, <3>1 DEF Stood, Had
    <3> QED
      BY <2>1, <2>2, <3>2 DEF Standing
  <2> QED
    BY <2>3, <2>4
<1>3. CASE Reread /\ ~Fail
  <2>1. PICK p \in todo : StillBound(p) /\ todo' = todo \ {p}
    BY <1>3 DEF Reread
  <2>2. UNCHANGED <<tree, past, seen, pc, binding, scope>>
    BY <1>3 DEF Reread, environment
  <2>3. CASE pc = "scoped"
    <3>1. binding[p] \notin past[p]
      BY <2>1, <2>3 DEF StillBound, Standing, ReadInv, Worktree, Places
    <3> QED
      BY <2>1, <2>2, <2>3, <3>1 DEF Standing, Stood
  <2>4. CASE pc # "scoped"
    BY <2>2, <2>4 DEF Standing, Stood
  <2> QED
    BY <2>3, <2>4
<1>4. CASE ScopedRead /\ ~Fail
  <2>1. pc = "scoped" /\ todo = {} /\ pc' = "worker" /\ UNCHANGED <<seen, binding, scope>>
    BY <1>4 DEF ScopedRead, ReadAll, Go, environment
  <2> QED
    BY <2>1 DEF Standing, Stood
<1>5. CASE Analyse /\ ~Fail
  <2>1. /\ pc = "worker" /\ pc' \in {"final", "rescoped"} /\ UNCHANGED <<seen, binding>>
        /\ ~Strict => pc' = "rescoped"
        /\ Strict => pc' = "final"
    BY <1>5 DEF Analyse, Go, GoReread, environment
  <2>2. CASE Strict
    BY <2>1, <2>2 DEF Standing
  <2>3. CASE ~Strict
    <3>1. scope # None
      BY <2>1, <2>3 DEF Strict, ReadInv, Commanded
    <3> QED
      BY <2>1, <2>3, <3>1 DEF Standing, Stood
  <2> QED
    BY <2>2, <2>3
<1>6. CASE Postchecked /\ ~Fail
  <2>1. pc = "postcheck" /\ pc' = "worker" /\ scope' = scope
    BY <1>6 DEF Postchecked, ReadAll, Go
  <2>2. scope = None
    BY <2>1 DEF ReadInv, Commanded, StrictSteps
  <2> QED
    BY <2>1, <2>2 DEF Standing
<1>7. CASE UNCHANGED lensVars
  BY <1>7 DEF lensVars, Standing, Stood
<1>8. CASE pc' \notin {"scoped", "rescoped", "worker"}
  BY <1>8 DEF Standing
<1>9. CASE List \/ Read
  BY <1>8, <1>9 DEF List, Read, Snapshots, Probes
<1>10. [LensNext]_lensVars =>
          \/ Edit \/ ChangedRead \/ (Reread /\ ~Fail) \/ (ScopedRead /\ ~Fail)
          \/ (Analyse /\ ~Fail) \/ (Postchecked /\ ~Fail) \/ UNCHANGED lensVars
          \/ pc' \notin {"scoped", "rescoped", "worker"} \/ List \/ Read
  BY DEF LensNext, Begin, Preflight, Reread, SnapshotResolved, RenamesDetected, AssembleOld,
         Prechecked, ManifestRead, LiveMatches, Materialised, SourcesRead, Publish,
         Difference, Untracked, PublishPartial, ContextBuilt, NoProject, ContextRechecked,
         EmitInput, Fail, End, Go, GoReread
<1> QED
  BY <1>1, <1>2, <1>3, <1>4, <1>5, <1>6, <1>7, <1>8, <1>9, <1>10

(***************************************************************************)
(* The reports.                                                            *)
(***************************************************************************)

\* The exact renames between the base commit and a worktree: the one path that was
\* added with the bytes of a path that was removed.
LEMMA RenamesOfTrees ==
    ASSUME NEW t, NEW o \in Sources, NEW n \in Sources,
           NEW r, r = ExactRenames(Visible(base), Visible(t))
    PROVE  (o \in DOMAIN r /\ r[o] = n) <=>
               /\ base[o] # Absent /\ t[o] = Absent
               /\ {m \in Sources : base[m] = Absent /\ t[m] = base[o]} = {n}
<1> DEFINE old == Visible(base)
           new == Visible(t)
           Twins(q) == {m \in (DOMAIN new \ DOMAIN old) \ {Baseline} : new[m] = old[q]}
           moved == {q \in (DOMAIN old \ DOMAIN new) \ {Baseline} : Cardinality(Twins(q)) = 1}
<1>1. r = [q \in moved |-> CHOOSE m \in Twins(q) : TRUE]
  BY DEF ExactRenames
<1>2. DOMAIN r = moved /\ (o \in moved => r[o] = CHOOSE m \in Twins(o) : TRUE)
  BY <1>1
<1>3. Baseline \notin Sources /\ Sources \subseteq Paths
  BY PathsDistinct DEF Paths
<1>4. /\ DOMAIN old = {p \in Paths : base[p] # Absent}
      /\ DOMAIN new = {p \in Paths : t[p] # Absent}
      /\ \A p \in DOMAIN old : old[p] = base[p]
      /\ \A p \in DOMAIN new : new[p] = t[p]
  BY DEF Visible, Restrict
<1> HIDE DEF old, new
<1>5. o \in (DOMAIN old \ DOMAIN new) \ {Baseline} <=> base[o] # Absent /\ t[o] = Absent
  BY <1>3, <1>4
<1>6. base[o] # Absent =>
          Twins(o) = {m \in Sources : base[m] = Absent /\ t[m] = base[o]}
  BY <1>3, <1>4 DEF Paths
<1>7. IsFiniteSet(Twins(o)) /\ (base[o] # Absent => Twins(o) \subseteq Sources)
  <2>1. Twins(o) \subseteq Sources
    BY <1>4 DEF Paths
  <2> QED
    BY <2>1, SourcesAreNumbers, FS_Subset
<1>8. Cardinality(Twins(o)) = 1 <=> \E m : Twins(o) = {m}
  BY <1>7, FS_Singleton
<1>9. ASSUME NEW m, Twins(o) = {m}
      PROVE  (CHOOSE k \in Twins(o) : TRUE) = m
  BY <1>9
<1> HIDE DEF Twins
<1> QED
  BY <1>2, <1>5, <1>6, <1>8, <1>9

\* What a strict report and a worker input bind and relate is of one worktree.
LEMMA StrictReport ==
    ASSUME ReadInv, Settled, Publish, ~Fail
    PROVE  ReportIsOneInstant' /\ PartialSourcesStood'
<1>1. /\ pc = "final" /\ request.command = "analyze-change" /\ UNCHANGED <<base, seen>>
      /\ report'.mode = "strict" /\ report'.new = binding /\ report'.renames = renames
  BY DEF Publish, ReadAll, Strict, End, ReportOf, environment
<1>2. PICK t \in seen : Whole(t)
  BY <1>1 DEF Settled, After
<1>3. binding = Visible(t) /\ renames = ExactRenames(Visible(base), Visible(t))
  BY <1>1, <1>2 DEF Whole
<1>4. \A o \in Sources : \A n \in Sources :
          (o \in DOMAIN renames /\ renames[o] = n) <=>
              /\ base[o] # Absent /\ t[o] = Absent
              /\ {m \in Sources : base[m] = Absent /\ t[m] = base[o]} = {n}
  BY <1>3, RenamesOfTrees
<1> QED
  BY <1>1, <1>3, <1>4 DEF ReportIsOneInstant, PartialSourcesStood

LEMMA InputReport ==
    ASSUME ReadInv, Settled, EmitInput, ~Fail
    PROVE  ReportIsOneInstant' /\ PartialSourcesStood'
<1>1. /\ pc = "final" /\ request.command = "roslyn-input" /\ UNCHANGED <<base, seen>>
      /\ report'.mode = "input" /\ report'.new = binding /\ report'.scope = scope
  BY DEF EmitInput, ReadAll, End, environment
<1>2. PICK t \in seen : Whole(t)
  BY <1>1 DEF Settled, After
<1>3. /\ binding = Visible(t) /\ DiskProject(t) = scope.named
      /\ scope.present = {p \in scope.named : t[p] # Absent}
  BY <1>1, <1>2 DEF Whole
<1> QED
  BY <1>1, <1>3 DEF ReportIsOneInstant, PartialSourcesStood

LEMMA PartialReport ==
    ASSUME Standing, PublishPartial
    PROVE  ReportIsOneInstant' /\ PartialSourcesStood'
<1>1. /\ pc = "rescoped" /\ UNCHANGED <<base, seen>>
      /\ report'.mode = "partial" /\ report'.new = binding
  BY DEF PublishPartial, ReadAll, End, ReportOf, environment
<1> QED
  BY <1>1 DEF ReportIsOneInstant, PartialSourcesStood, Standing, Stood

LensInv == InstantInv /\ ReportIsOneInstant /\ PartialSourcesStood

LEMMA LensInvInit == LensInit => LensInv
BY ReadInvInit DEF LensInit, LensInv, InstantInv, Following, Settled, Standing, Between, After,
   ReportIsOneInstant, PartialSourcesStood

LEMMA LensInvNext == LensInv /\ [LensNext]_lensVars => LensInv'
<1> SUFFICES ASSUME LensInv, [LensNext]_lensVars PROVE LensInv'
  OBVIOUS
<1>1. InstantInv'
  BY ReadInvNext, FollowingNext, SettledNext, StandingNext DEF LensInv, InstantInv
<1>2. ReportIsOneInstant' /\ PartialSourcesStood'
  <2>1. CASE Publish /\ ~Fail
    BY <2>1, StrictReport DEF LensInv, InstantInv
  <2>2. CASE EmitInput /\ ~Fail
    BY <2>2, InputReport DEF LensInv, InstantInv
  <2>3. CASE PublishPartial
    BY <2>3, PartialReport DEF LensInv, InstantInv
  <2>4. CASE report' = None
    BY <2>4 DEF ReportIsOneInstant, PartialSourcesStood
  <2>5. CASE UNCHANGED <<base, report>> /\ seen \subseteq seen'
    <3>1. ReportIsOneInstant'
      BY <2>5 DEF LensInv, ReportIsOneInstant
    <3>2. PartialSourcesStood'
      BY <2>5 DEF LensInv, PartialSourcesStood
    <3> QED
      BY <3>1, <3>2
  <2>6. Edit => UNCHANGED <<base, report>> /\ seen \subseteq seen'
    BY EditLoses DEF Edit, LensInv, InstantInv, ReadInv
  <2>7. [LensNext]_lensVars =>
            \/ (Publish /\ ~Fail) \/ (EmitInput /\ ~Fail) \/ PublishPartial \/ Edit
            \/ report' = None \/ UNCHANGED <<base, seen, report>>
    BY DEF LensNext, lensVars, environment, Begin, Preflight, List, Read, Reread,
           SnapshotResolved, RenamesDetected, AssembleOld, Prechecked, ManifestRead,
           LiveMatches, Materialised, SourcesRead, Postchecked, Analyse, Difference,
           Untracked, ChangedRead, ScopedRead, ContextBuilt, NoProject, ContextRechecked,
           Fail, End
  <2> QED
    BY <2>1, <2>2, <2>3, <2>4, <2>5, <2>6, <2>7
<1> QED
  BY <1>1, <1>2 DEF LensInv

LEMMA LensInvHolds == LensSpec => []LensInv
BY LensInvInit, LensInvNext, PTL DEF LensSpec

\* What a strict report or a worker input says of the worktree was true of it at one
\* instant of the command, however it was edited in between: what was lost stays lost, so
\* that the second reading finds every change of what the first one bound
\* (revision_analysis.py 640-716, worker_input.py 63-116).
THEOREM ReportsAreOneInstant == LensSpec => []ReportIsOneInstant
BY LensInvHolds, PTL DEF LensInv

\* The files a partial report shows stood together at one instant of the command
\* (revision_analysis.py 744-782, 870-872).
THEOREM PartialSourcesStoodTogether == LensSpec => []PartialSourcesStood
BY LensInvHolds, PTL DEF LensInv

(***************************************************************************)
(* The comparison of a report.                                             *)
(***************************************************************************)
OldGraph == Graph(OldLane.sources, OldLane.complete)
NewGraph == Graph(NewLane.sources, NewLane.complete)

\* A report that is still to be published compares graphs that its hints were found in.
Accepted ==
    /\ pc # "ended" => Len(request.hints) \in Nat
    /\ pc = "rescoped" \/ (pc = "final" /\ request.command = "analyze-change") =>
          HintsResolve(OldGraph, NewGraph, request.hints)

LEMMA GraphsStay ==
    ASSUME UNCHANGED <<base, request, binding, scope>>
    PROVE  OldGraph' = OldGraph /\ NewGraph' = NewGraph
BY DEF OldGraph, NewGraph, OldLane, NewLane, Strict

LEMMA AcceptedNext ==
    ASSUME Commanded, Accepted, [LensNext]_lensVars
    PROVE  Accepted'
<1>1. CASE Begin
  BY <1>1, HintsAreLists DEF Begin, Accepted
<1>2. CASE Analyse /\ ~Fail
  <2>1. /\ HintsResolve(OldGraph, NewGraph, request.hints)
        /\ UNCHANGED <<base, request, binding, scope>> /\ pc = "worker"
    BY <1>2 DEF Analyse, OldGraph, NewGraph, Go, GoReread, environment
  <2> QED
    BY <2>1, GraphsStay DEF Accepted
<1>3. CASE UNCHANGED <<base, request, pc, binding, scope>>
  BY <1>3, GraphsStay DEF Accepted
<1>4. CASE pc' = "ended"
  BY <1>4 DEF Accepted
<1>5. CASE /\ pc # "ended" /\ request' = request
           /\ pc' # "rescoped" /\ ~(pc' = "final" /\ request.command = "analyze-change")
  BY <1>5 DEF Accepted
<1>6. CASE ContextRechecked /\ ~Fail
  <2>1. request.command = "roslyn-input"
    BY <1>6 DEF ContextRechecked, Commanded, InputSteps
  <2>2. pc # "ended" /\ pc' # "rescoped" /\ request' = request
    BY <1>6 DEF ContextRechecked, Go, GoReread, environment
  <2> QED
    BY <1>5, <2>1, <2>2
<1>7. CASE List
  <2>1. CASE pc = "context"
    BY <1>5, <1>7, <2>1 DEF List, environment
  <2>2. CASE pc # "context"
    BY <1>3, <1>7, <2>2 DEF List, environment
  <2> QED
    BY <2>1, <2>2
<1>8. CASE LiveMatches \/ NoProject \/ Preflight \/ Prechecked \/ AssembleOld
  <2>1. pc # "ended" /\ request' = request /\ pc' \notin {"rescoped", "final"}
    BY <1>8 DEF LiveMatches, NoProject, Preflight, Prechecked, AssembleOld, ReadAll, Probes,
           Fail, End, Go, GoReread, environment
  <2> QED
    BY <1>5, <2>1
<1>9. CASE ManifestRead \/ Materialised \/ SourcesRead \/ Postchecked \/ SnapshotResolved
           \/ RenamesDetected \/ ContextBuilt
  <2>1. pc # "ended" /\ request' = request /\ pc' \notin {"rescoped", "final"}
    BY <1>9 DEF ManifestRead, Materialised, SourcesRead, Postchecked, SnapshotResolved,
           RenamesDetected, ContextBuilt, ReadAll, Fail, End, Go, GoReread, environment
  <2> QED
    BY <1>5, <2>1
<1>10. CASE Difference \/ Untracked \/ ChangedRead \/ ScopedRead
  <2>1. pc # "ended" /\ request' = request /\ pc' \notin {"rescoped", "final"}
    BY <1>10 DEF Difference, Untracked, ChangedRead, ScopedRead, ReadAll, Fail, End, Go,
           GoReread, environment
  <2> QED
    BY <1>5, <2>1
<1>11. CASE Read \/ Reread \/ Edit \/ UNCHANGED lensVars
  BY <1>3, <1>4, <1>11 DEF Read, Reread, Edit, lensVars, Fail, End, Go, environment
<1>12. CASE Publish \/ PublishPartial \/ EmitInput \/ Fail
  BY <1>4, <1>12 DEF Publish, PublishPartial, EmitInput, Fail, End, Go
<1> QED
  BY <1>1, <1>2, <1>6, <1>7, <1>8, <1>9, <1>10, <1>11, <1>12 DEF LensNext

\* What is published is such a comparison.
LEMMA PublishedDiff ==
    ASSUME Accepted, (Publish /\ ~Fail) \/ PublishPartial
    PROVE  PairsAreExclusive' /\ ContextUntouched'
<1>1. /\ HintsResolve(OldGraph, NewGraph, request.hints) /\ Len(request.hints) \in Nat
      /\ report'.diff = Diff(OldGraph, NewGraph, renames, request.hints)
  BY DEF Accepted, Publish, PublishPartial, ReadAll, Strict, End, ReportOf, GraphsDiff,
     OldGraph, NewGraph
<1> DEFINE d == report'.diff
<1>2. /\ Exclusive(OldGraph, NewGraph, d.mappings)
      /\ Alike(d.labels, d.mappings)
      /\ \A m \in d.mappings : d.labels.old[m.old] = "UNCHANGED_CONTEXT" =>
            /\ Id(m.old) \notin Endpoints(d.removed)
            /\ Id(m.new) \notin Endpoints(d.added)
  BY <1>1, DiffPairs
<1>3. PairsAreExclusive'
  BY <1>2 DEF PairsAreExclusive, Exclusive, Alike
<1>4. ContextUntouched'
  BY <1>2 DEF ContextUntouched, Endpoints
<1> QED
  BY <1>3, <1>4

CompareInv == Commanded /\ Worktree /\ Accepted /\ PairsAreExclusive /\ ContextUntouched

LEMMA CompareInvInit == LensInit => CompareInv
BY WorktreeInit, CommandedInit
   DEF LensInit, CompareInv, Accepted, PairsAreExclusive, ContextUntouched

LEMMA CompareInvNext == CompareInv /\ [LensNext]_lensVars => CompareInv'
<1> SUFFICES ASSUME CompareInv, [LensNext]_lensVars PROVE CompareInv'
  OBVIOUS
<1>1. Commanded' /\ Worktree' /\ Accepted'
  BY WorktreeNext, CommandedNext, AcceptedNext DEF CompareInv
<1>2. PairsAreExclusive' /\ ContextUntouched'
  <2>1. CASE (Publish /\ ~Fail) \/ PublishPartial
    BY <2>1, PublishedDiff DEF CompareInv
  <2>2. CASE report' = None \/ UNCHANGED report
    BY <2>2 DEF CompareInv, PairsAreExclusive, ContextUntouched
  <2>3. CASE EmitInput /\ ~Fail
    <3>1. report'.mode = "input"
      BY <2>3 DEF EmitInput, End
    <3> QED
      BY <3>1 DEF PairsAreExclusive, ContextUntouched
  <2>4. [LensNext]_lensVars =>
            \/ (Publish /\ ~Fail) \/ PublishPartial \/ (EmitInput /\ ~Fail)
            \/ report' = None \/ UNCHANGED report
    BY DEF LensNext, lensVars, environment, Edit, Begin, Preflight, List, Read, Reread,
           SnapshotResolved, RenamesDetected, AssembleOld, Prechecked, ManifestRead,
           LiveMatches, Materialised, SourcesRead, Postchecked, Analyse, Difference,
           Untracked, ChangedRead, ScopedRead, ContextBuilt, NoProject, ContextRechecked,
           Fail, End
  <2> QED
    BY <2>1, <2>2, <2>3, <2>4
<1> QED
  BY <1>1, <1>2 DEF CompareInv

LEMMA CompareInvHolds == LensSpec => []CompareInv
BY CompareInvInit, CompareInvNext, PTL DEF LensSpec

\* No node is paired twice, by symbol, hint or structure, and both nodes of a pair carry
\* the same change (graph_diff.py 109-170, 360-375).
THEOREM NodesPairOnce == LensSpec => []PairsAreExclusive
BY CompareInvHolds, PTL DEF CompareInv

\* A pair that is shown as context touches no relation that was added or removed, on
\* either side (graph_diff.py 174-206, 360-375).
THEOREM ContextIsUntouched == LensSpec => []ContextUntouched
BY CompareInvHolds, PTL DEF CompareInv

(***************************************************************************)
(* The comparison of a graph with itself.                                  *)
(***************************************************************************)

\* The nodes of a graph are in its files, its relations link its nodes.
LEMMA GraphClosed ==
    ASSUME NEW sources, DOMAIN sources \subseteq Sources,
           \A p \in DOMAIN sources : sources[p] \in Contents,
           NEW complete, NEW g, g = Graph(sources, complete)
    PROVE  /\ \A n \in g.nodes : n.path \in DOMAIN sources
           /\ \A e \in g.edges : /\ \E n \in g.nodes : Id(n) = e.src
                                 /\ \E n \in g.nodes : Id(n) = e.dst
<1> DEFINE parts == [p \in DOMAIN sources |-> Declares[sources[p]]]
           symbols == UNION {parts[p].symbols : p \in DOMAIN parts}
           calls == UNION {parts[p].calls : p \in DOMAIN parts}
           conditions == UNION {{<<p, c>> : c \in parts[p].conditions} : p \in DOMAIN parts}
           Home(s) == CHOOSE p \in Declaring(s, sources) :
                          \A q \in Declaring(s, sources) : p <= q
           method(s) == [kind |-> "METHOD", label |-> s, at |-> <<0, 0>>, path |-> Home(s)]
           condition(x) == [kind |-> "CONDITION", label |-> x[2].text,
                            at |-> <<x[1], x[2].at>>, path |-> x[1]]
           call(c) == [rel |-> "DIRECT_CALL", src |-> SymbolId(c[1]), dst |-> SymbolId(c[2])]
           branch(x) == [rel |-> "BRANCHES_TO", src |-> SymbolId(x[2].method),
                         dst |-> <<"CONDITION", x[2].text, <<x[1], x[2].at>>>>]
<1>1. /\ g.nodes = {method(s) : s \in symbols} \cup {condition(x) : x \in conditions}
      /\ g.edges = {call(c) : c \in {d \in calls : Resolved(d[2], sources)}}
                   \cup {branch(x) : x \in conditions}
  BY DEF Graph
<1>2. \A s \in symbols : Declaring(s, sources) # {}
  BY DEF Declaring
<1>3. ASSUME NEW s \in symbols PROVE Home(s) \in DOMAIN sources
  <2>1. Declaring(s, sources) \subseteq DOMAIN sources /\ DOMAIN sources \subseteq Nat
    BY SourcesAreNumbers DEF Declaring
  <2>2. \E p \in Declaring(s, sources) : \A q \in Declaring(s, sources) : p <= q
    BY <1>2, <2>1, LeastNumber
  <2> QED
    BY <2>1, <2>2
<1>4. \A x \in conditions :
          x[1] \in DOMAIN sources /\ x[2] \in Declares[sources[x[1]]].conditions
  OBVIOUS
<1>5. /\ \A c \in calls : c[1] \in symbols
      /\ \A x \in conditions : x[2].method \in symbols
  BY <1>4, CodeIsClosed
<1>6. \A c \in calls : Resolved(c[2], sources) => c[2] \in symbols
  <2>1. ASSUME NEW c \in calls, Resolved(c[2], sources) PROVE Declaring(c[2], sources) # {}
    BY <2>1, FS_EmptySet DEF Resolved
  <2> QED
    BY <2>1 DEF Declaring
<1>7. /\ \A s : Id(method(s)) = SymbolId(s) /\ method(s).path = Home(s)
      /\ \A x : /\ Id(condition(x)) = <<"CONDITION", x[2].text, <<x[1], x[2].at>>>>
                /\ condition(x).path = x[1]
      /\ \A c : call(c).src = SymbolId(c[1]) /\ call(c).dst = SymbolId(c[2])
      /\ \A x : /\ branch(x).src = SymbolId(x[2].method)
                /\ branch(x).dst = <<"CONDITION", x[2].text, <<x[1], x[2].at>>>>
  BY DEF Id, SymbolId
<1> HIDE DEF method, condition, call, branch, symbols, calls, conditions, Home
<1>8. \A n \in g.nodes : n.path \in DOMAIN sources
  BY <1>1, <1>3, <1>4, <1>7
<1>9. \A s \in symbols : method(s) \in g.nodes /\ Id(method(s)) = SymbolId(s)
  BY <1>1, <1>7
<1>10. ASSUME NEW e \in g.edges
       PROVE  (\E n \in g.nodes : Id(n) = e.src) /\ (\E n \in g.nodes : Id(n) = e.dst)
  <2>1. CASE \E c \in calls : Resolved(c[2], sources) /\ e = call(c)
    BY <1>5, <1>6, <1>7, <1>9, <2>1
  <2>2. CASE \E x \in conditions : e = branch(x)
    <3>1. PICK x \in conditions : e = branch(x)
      BY <2>2
    <3>2. condition(x) \in g.nodes /\ Id(condition(x)) = e.dst
      BY <1>1, <1>7, <3>1
    <3>3. e.src = SymbolId(x[2].method) /\ x[2].method \in symbols
      BY <1>5, <1>7, <3>1
    <3> QED
      BY <1>9, <3>2, <3>3
  <2> QED
    BY <1>1, <2>1, <2>2
<1> QED
  BY <1>8, <1>10

\* Where no relation changed, nothing is carried.
LEMMA PropagateNothing ==
    ASSUME NEW mappings, NEW labels, labels = [old |-> labels.old, new |-> labels.new],
           NEW own, NEW peer, <<own, peer>> \in {<<"old", "new">>, <<"new", "old">>},
           NEW after, after = Propagate(labels, own, peer, {}, mappings)
    PROVE  /\ after = [old |-> after.old, new |-> after.new]
           /\ DOMAIN after.old = DOMAIN labels.old /\ DOMAIN after.new = DOMAIN labels.new
           /\ \A n \in DOMAIN labels.old : after.old[n] = labels.old[n]
           /\ \A n \in DOMAIN labels.new : after.new[n] = labels.new[n]
<1>1. Endpoints({}) = {}
  BY DEF Endpoints
<1>2. CASE own = "old" /\ peer = "new"
  <2> DEFINE hit == {n \in DOMAIN labels.old :
                        /\ Id(n) \in Endpoints({})
                        /\ labels.old[n] = "UNCHANGED_CONTEXT"
                        /\ \E m \in mappings : m.old = n}
             met == {n \in DOMAIN labels.new :
                        /\ labels.new[n] = "UNCHANGED_CONTEXT"
                        /\ \E m \in mappings : m.new = n /\ m.old \in hit}
  <2>1. /\ after.old = [n \in DOMAIN labels.old |-> IF n \in hit THEN "UPDATED" ELSE labels.old[n]]
        /\ after.new = [n \in DOMAIN labels.new |-> IF n \in met THEN "UPDATED" ELSE labels.new[n]]
        /\ after = [old |-> after.old, new |-> after.new]
    BY <1>2 DEF Propagate
  <2>2. hit = {} /\ met = {}
    BY <1>1
  <2> HIDE DEF hit, met
  <2> QED
    BY <2>1, <2>2
<1>3. CASE own = "new" /\ peer = "old"
  <2> DEFINE hit == {n \in DOMAIN labels.new :
                        /\ Id(n) \in Endpoints({})
                        /\ labels.new[n] = "UNCHANGED_CONTEXT"
                        /\ \E m \in mappings : m.new = n}
             met == {n \in DOMAIN labels.old :
                        /\ labels.old[n] = "UNCHANGED_CONTEXT"
                        /\ \E m \in mappings : m.old = n /\ m.new \in hit}
  <2>1. /\ after.new = [n \in DOMAIN labels.new |-> IF n \in hit THEN "UPDATED" ELSE labels.new[n]]
        /\ after.old = [n \in DOMAIN labels.old |-> IF n \in met THEN "UPDATED" ELSE labels.old[n]]
        /\ after = [old |-> after.old, new |-> after.new]
    BY <1>3 DEF Propagate
  <2>2. hit = {} /\ met = {}
    BY <1>1
  <2> HIDE DEF hit, met
  <2> QED
    BY <2>1, <2>2
<1> QED
  BY <1>2, <1>3

\* Without hints, and when nothing was ambiguous, a graph does not differ from itself.
LEMMA DiffOfSame ==
    ASSUME NEW g, NEW rename, NEW d, d = Diff(g, g, rename, <<>>), d.status = "COMPLETE",
           \A n \in g.nodes : n.path \notin DOMAIN rename,
           \A e \in g.edges : /\ \E n \in g.nodes : Id(n) = e.src
                              /\ \E n \in g.nodes : Id(n) = e.dst
    PROVE  /\ d.removed = {} /\ d.added = {}
           /\ \A n \in DOMAIN d.labels.old : d.labels.old[n] = "UNCHANGED_CONTEXT"
           /\ \A n \in DOMAIN d.labels.new : d.labels.new[n] = "UNCHANGED_CONTEXT"
<1> DEFINE stable == StableMappings(g, g)
           structural == StructuralMappings(g, g, stable, rename)
           mappings == stable \cup structural
           relations == SameRelation(g, g, mappings)
           labels == [old |-> [n \in g.nodes |-> ChangeOf(n, "old", mappings, "REMOVED")],
                      new |-> [n \in g.nodes |-> ChangeOf(n, "new", mappings, "ADDED")]]
           Unchanged(n) == Pair(n, n, "SAME_SYMBOL", "UNCHANGED_CONTEXT")
           Matched(n) == Pair(n, n, "HEURISTIC", "UNCHANGED_CONTEXT")
<1>1. HintedMappings(g, g, <<>>) = stable
  BY HintingIs DEF HintedMappings
<1>2. /\ d.removed = g.edges \ {p[1] : p \in OnlyPairs(relations)}
      /\ d.added = g.edges \ {p[2] : p \in OnlyPairs(relations)}
      /\ d.labels = Propagate(Propagate(labels, "old", "new", d.removed, mappings),
                              "new", "old", d.added, mappings)
      /\ ~Ambiguous(g, g, rename, stable, mappings)
  BY <1>1 DEF Diff
<1>3. /\ SameSymbol(g, g) = OnlyPairs(SameSymbol(g, g))
      /\ SameStructure(g, g, stable, rename) = OnlyPairs(SameStructure(g, g, stable, rename))
      /\ relations = OnlyPairs(relations)
  BY <1>2 DEF Ambiguous
<1>4. ASSUME NEW n \in g.nodes, n.kind \in SymbolKinds
      PROVE  Unchanged(n) \in mappings
  <2>1. <<n, n>> \in OnlyPairs(SameSymbol(g, g))
    BY <1>3, <1>4 DEF SameSymbol
  <2> QED
    BY <2>1 DEF StableMappings
<1>5. \A m \in stable : m.old.kind \in SymbolKinds /\ m.new.kind \in SymbolKinds
  BY DEF StableMappings, OnlyPairs, SameSymbol, Pair, Id
<1>6. ASSUME NEW n \in g.nodes, n.kind \notin SymbolKinds
      PROVE  Matched(n) \in mappings
  <2>1. n \notin OldOf(stable) /\ n \notin NewOf(stable)
    BY <1>5, <1>6 DEF OldOf, NewOf
  <2>2. <<n, n>> \in SameStructure(g, g, stable, rename)
    BY <2>1 DEF SameStructure, NewPath
  <2>3. <<n, n>> \in OnlyPairs(SameStructure(g, g, stable, rename))
    BY <1>3, <2>2
  <2> QED
    BY <2>3 DEF StructuralMappings
<1>7. ASSUME NEW n \in g.nodes
      PROVE  \E m \in mappings : m.old = n /\ m.new = n /\ m.change = "UNCHANGED_CONTEXT"
  <2>1. /\ Unchanged(n).old = n /\ Unchanged(n).new = n
        /\ Unchanged(n).change = "UNCHANGED_CONTEXT"
        /\ Matched(n).old = n /\ Matched(n).new = n
        /\ Matched(n).change = "UNCHANGED_CONTEXT"
    BY DEF Pair
  <2> QED
    BY <1>4, <1>6, <2>1
<1>8. Exclusive(g, g, mappings)
  <2>1. HintsResolve(g, g, <<>>)
    BY DEF HintsResolve
  <2> QED
    BY <1>1, <2>1, HintingExclusive, StructureExclusive
<1> HIDE DEF mappings, stable, Unchanged, Matched
<1>9. \A n \in g.nodes : /\ ChangeOf(n, "old", mappings, "REMOVED") = "UNCHANGED_CONTEXT"
                         /\ ChangeOf(n, "new", mappings, "ADDED") = "UNCHANGED_CONTEXT"
  BY <1>7, <1>8, ChangesAlike
<1>10. ASSUME NEW e \in g.edges PROVE <<e, e>> \in relations
  <2>1. /\ \E m \in mappings : Id(m.old) = e.src /\ Id(m.new) = e.src
        /\ \E m \in mappings : Id(m.old) = e.dst /\ Id(m.new) = e.dst
    BY <1>7
  <2> QED
    BY <2>1 DEF SameRelation
<1> DEFINE kept == OnlyPairs(relations)
<1>11. d.removed = {} /\ d.added = {}
  <2>1. \A e \in g.edges : <<e, e>> \in kept
    BY <1>3, <1>10
  <2>2. d.removed = g.edges \ {p[1] : p \in kept} /\ d.added = g.edges \ {p[2] : p \in kept}
    BY <1>2
  <2> HIDE DEF kept
  <2>3. ASSUME NEW e \in g.edges
        PROVE  e \in {p[1] : p \in kept} /\ e \in {p[2] : p \in kept}
    <3>1. <<e, e>>[1] = e /\ <<e, e>>[2] = e
      OBVIOUS
    <3> QED
      BY <2>1, <3>1
  <2> QED
    BY <2>2, <2>3
<1> DEFINE between == Propagate(labels, "old", "new", {}, mappings)
<1> HIDE DEF kept, relations
<1>13. /\ DOMAIN between.old = g.nodes /\ DOMAIN between.new = g.nodes
       /\ \A n \in g.nodes : /\ between.old[n] = labels.old[n]
                             /\ between.new[n] = labels.new[n]
       /\ between = [old |-> between.old, new |-> between.new]
  <2>1. /\ labels = [old |-> labels.old, new |-> labels.new]
        /\ DOMAIN labels.old = g.nodes /\ DOMAIN labels.new = g.nodes
    OBVIOUS
  <2> HIDE DEF labels
  <2> QED
    BY <2>1, PropagateNothing
<1>14. \A n \in g.nodes : /\ between.old[n] = "UNCHANGED_CONTEXT"
                          /\ between.new[n] = "UNCHANGED_CONTEXT"
  BY <1>9, <1>13
<1> HIDE DEF between, labels
<1> DEFINE after == Propagate(between, "new", "old", {}, mappings)
<1>15. /\ DOMAIN after.old = DOMAIN between.old /\ DOMAIN after.new = DOMAIN between.new
       /\ \A n \in DOMAIN between.old : after.old[n] = between.old[n]
       /\ \A n \in DOMAIN between.new : after.new[n] = between.new[n]
  <2>1. <<"new", "old">> \in {<<"old", "new">>, <<"new", "old">>}
    OBVIOUS
  <2>2. between = [old |-> between.old, new |-> between.new]
    BY <1>13
  <2>3. after = Propagate(between, "new", "old", {}, mappings)
    OBVIOUS
  <2> HIDE DEF after
  <2> QED
    BY <2>1, <2>2, <2>3, PropagateNothing
<1>16. d.labels = after
  BY <1>2, <1>11 DEF after, between
<1> HIDE DEF after
<1> QED
  BY <1>11, <1>13, <1>14, <1>15, <1>16

\* The sources that a strict report compiles are bound source files.
LEMMA CompiledSources ==
    ASSUME Worktree, NEW t \in seen, binding = Visible(t), Baseline \in DOMAIN binding
    PROVE  /\ Compiled(binding) \subseteq Sources \cap DOMAIN binding
           /\ \A p \in Compiled(binding) : binding[p] \in Contents
<1>1. DOMAIN binding = {p \in Paths : t[p] # Absent} /\ \A p \in DOMAIN binding : binding[p] = t[p]
  BY DEF Visible, Restrict
<1>2. Baseline \in Places /\ Sources \subseteq Places /\ Baseline \notin Sources
  BY PathsDistinct DEF Places, Paths
<1>3. binding[Baseline] \in Baselines
  <2>1. t[Baseline] \in Possible(Baseline)
    BY <1>2 DEF Worktree
  <2>2. Possible(Baseline) = Baselines \cup {Absent}
    BY <1>2, PathsDistinct DEF Possible
  <2> QED
    BY <1>1, <2>1, <2>2
<1>4. Listed(binding[Baseline]) \subseteq Sources
  BY <1>3, ProjectsNameSources
<1>5. ASSUME NEW p \in Sources, p \in DOMAIN binding PROVE binding[p] \in Contents
  <2>1. p \in Places /\ t[p] \in Possible(p)
    BY <1>2 DEF Worktree
  <2>2. Possible(p) = Contents \cup {Absent}
    BY <1>5, PathsDistinct DEF Possible
  <2> QED
    BY <1>1, <1>5, <2>1, <2>2
<1> QED
  BY <1>4, <1>5 DEF Compiled

LEMMA FreshReport ==
    ASSUME ReadInv, Settled, Publish, ~Fail
    PROVE  FreshInventsNothing'
<1>1. /\ pc = "final" /\ request.command = "analyze-change" /\ Strict /\ request' = request
      /\ report'.compared = <<OldLane.sources, NewLane.sources>>
      /\ report'.diff = GraphsDiff
      /\ report'.status = "FRESH" =>
            GraphsDiff.status = "COMPLETE" /\ OldLane.complete /\ NewLane.complete
  BY DEF Publish, ReadAll, Strict, End, ReportOf, environment
<1> SUFFICES ASSUME report'.status = "FRESH", report'.compared[1] = report'.compared[2],
                    request.hints = <<>>
             PROVE  /\ GraphsDiff.removed = {} /\ GraphsDiff.added = {}
                    /\ \A n \in DOMAIN GraphsDiff.labels.old :
                          GraphsDiff.labels.old[n] = "UNCHANGED_CONTEXT"
                    /\ \A n \in DOMAIN GraphsDiff.labels.new :
                          GraphsDiff.labels.new[n] = "UNCHANGED_CONTEXT"
  BY <1>1 DEF FreshInventsNothing
<1>2. PICK t \in seen : Whole(t)
  BY <1>1 DEF Settled, After
<1>3. /\ binding = Visible(t) /\ Baseline \in DOMAIN binding
      /\ renames = ExactRenames(Visible(base), binding)
  BY <1>1, <1>2 DEF Whole, Between
<1> DEFINE sources == Restrict(binding, Compiled(binding))
           g == Graph(sources, TRUE)
<1>4. /\ NewLane.sources = sources /\ OldLane.sources = sources
      /\ OldLane.complete = TRUE /\ NewLane.complete = TRUE
  BY <1>1 DEF NewLane, OldLane, Lane
<1>5. GraphsDiff = Diff(g, g, renames, <<>>)
  BY <1>4 DEF GraphsDiff
<1>6. /\ DOMAIN sources = Compiled(binding)
      /\ \A p \in DOMAIN sources : sources[p] = binding[p]
  BY DEF Restrict
<1>7. /\ Compiled(binding) \subseteq Sources \cap DOMAIN binding
      /\ \A p \in Compiled(binding) : binding[p] \in Contents
  BY <1>3, CompiledSources DEF ReadInv
<1> HIDE DEF sources
<1>8. /\ \A n \in g.nodes : n.path \in DOMAIN sources
      /\ \A e \in g.edges : /\ \E n \in g.nodes : Id(n) = e.src
                            /\ \E n \in g.nodes : Id(n) = e.dst
  BY <1>6, <1>7, GraphClosed
<1>9. DOMAIN renames \cap DOMAIN binding = {}
  BY <1>3 DEF ExactRenames
<1>10. \A n \in g.nodes : n.path \notin DOMAIN renames
  BY <1>6, <1>7, <1>8, <1>9
<1> HIDE DEF g
<1> QED
  BY <1>1, <1>5, <1>8, <1>10, DiffOfSame

\* A FRESH report of the same sources, asked for without hints, shows no change
\* (revision_analysis.py 704-708).
THEOREM FreshReportsInventNothing == LensSpec => []FreshInventsNothing
<1> DEFINE FreshInv == LensInv /\ FreshInventsNothing
<1>1. LensInit => FreshInv
  BY LensInvInit DEF LensInit, FreshInventsNothing
<1>2. FreshInv /\ [LensNext]_lensVars => FreshInv'
  <2> SUFFICES ASSUME FreshInv, [LensNext]_lensVars PROVE FreshInventsNothing'
    BY LensInvNext
  <2>1. CASE Publish /\ ~Fail
    BY <2>1, FreshReport DEF LensInv, InstantInv
  <2>2. CASE report' = None \/ UNCHANGED <<request, report>>
    BY <2>2 DEF FreshInventsNothing
  <2>3. CASE (EmitInput /\ ~Fail) \/ PublishPartial
    <3>1. report'.mode \in {"input", "partial"}
      BY <2>3 DEF EmitInput, PublishPartial, End, ReportOf
    <3> QED
      BY <3>1 DEF FreshInventsNothing
  <2>4. [LensNext]_lensVars =>
            \/ (Publish /\ ~Fail) \/ PublishPartial \/ (EmitInput /\ ~Fail)
            \/ report' = None \/ UNCHANGED <<request, report>>
    BY DEF LensNext, lensVars, environment, Edit, Begin, Preflight, List, Read, Reread,
           SnapshotResolved, RenamesDetected, AssembleOld, Prechecked, ManifestRead,
           LiveMatches, Materialised, SourcesRead, Postchecked, Analyse, Difference,
           Untracked, ChangedRead, ScopedRead, ContextBuilt, NoProject, ContextRechecked,
           Fail, End
  <2> QED
    BY <2>1, <2>2, <2>3, <2>4
<1> QED
  BY <1>1, <1>2, PTL DEF LensSpec
=============================================================================
