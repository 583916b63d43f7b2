---------------------------- MODULE ExplainProofs ----------------------------
(***************************************************************************)
(* Proofs about the commands of ExplainChange: the files of a bundle agree *)
(* (BundleAgrees), an attested output was compiled of what the analysis    *)
(* binds (AttestedIsCompiled), complete evidence stands alone              *)
(* (FreshStandsAlone) and a story says how complete it is (PartialIsSaid), *)
(* hides no change (NothingHidden), says where its chains were cut         *)
(* (ChainsDisclosed), draws relations of the code (ArrowsAreRelations) and *)
(* lets no test displace the product (TestsNeverDisplace), for every       *)
(* start, worktree, number of commands and size of the code.               *)
(***************************************************************************)
EXTENDS ExplainProperties, GraphDiffProofs

(***************************************************************************)
(* The bundle.  Numbers of analyses only grow, and while a command writes, *)
(* what is on disk is of its analysis or older.                            *)
(***************************************************************************)
Writing == {"write-story", "write-analysis", "done"}
Telling == {"check-current", "tell", "draw", "write-page"} \cup Writing

Outputs == {"page", "story", "analysis"}

Numbered ==
    /\ issued \in Nat
    /\ out = [f \in Outputs |-> out[f]]
    /\ out.analysis # None =>
          /\ out.analysis.number \in Nat /\ out.page \in Nat
          /\ out.analysis.number <= out.page /\ out.analysis.number <= issued
    /\ pc \in Telling =>
          /\ analysis.number \in Nat /\ analysis.number <= issued
          /\ out.analysis # None => out.analysis.number <= analysis.number

Written ==
    /\ pc \in Writing => out.page = analysis.number
    /\ pc \in {"write-analysis", "done"} => (command.story => out.story = analysis.number)
    /\ pc = "done" => (command.analysis => out.analysis.number = analysis.number)
    /\ result # None =>
          /\ pc = "ended"
          /\ result.kind = "story" =>
                /\ out.page = result.number
                /\ command.story => out.story = result.number
                /\ command.analysis => out.analysis.number = result.number

BundleInv == start \in Starts /\ Numbered /\ Written

\* A command starts with a step of its own, and only "explain" binds.
LEMMA FirstSteps ==
    ASSUME start \in Starts, Begin
    PROVE  /\ command'.kind \in DOMAIN FirstStep
           /\ pc' = FirstStep[command'.kind]
           /\ pc' \notin Telling
<1>1. command' \in start.requests /\ pc' = FirstStep[command'.kind]
  BY DEF Begin, Step
<1>2. command'.kind \in DOMAIN FirstStep
  BY <1>1, RequestsAreCommands
<1> QED
  BY <1>1, <1>2 DEF FirstStep, Telling, Writing

LEMMA BundleInit == ExplainInit => BundleInv
  BY DEF ExplainInit, BundleInv, Numbered, Written, Telling, Writing, Outputs

LEMMA BundleStep == ASSUME BundleInv, [ExplainNext]_vars PROVE BundleInv'
<1> USE DEF BundleInv, Numbered, Written
<1>1. CASE UNCHANGED vars
  BY <1>1 DEF vars, diskVars, explainVars
<1>2. CASE ProvenanceStep /\ UNCHANGED explainVars
  <2>1. (pc \notin Telling /\ pc' \notin Telling) \/ pc' = pc
    BY <1>2 DEF ProvenanceStep, EditFile, RebuildCore, BuildStart, BuildFinish, ReadCompile,
       WriteCompile, HoldManifest, ReadContext, CompareTimes, HashOutput, HashDefinition,
       WriteProvenance, Step, Telling, Writing
  <2>2. start' = start /\ command' = command
    BY <1>2 DEF ProvenanceStep, EditFile, RebuildCore, BuildStart, BuildFinish, ReadCompile,
       WriteCompile, HoldManifest, ReadContext, CompareTimes, HashOutput, HashDefinition,
       WriteProvenance, Step, diskVars
  <2>3. pc = "ended" => pc' = "ended"
    BY <1>2 DEF ProvenanceStep, EditFile, RebuildCore, BuildStart, BuildFinish, ReadCompile,
       WriteCompile, HoldManifest, ReadContext, CompareTimes, HashOutput, HashDefinition,
       WriteProvenance, Step
  <2> QED
    BY <1>2, <2>1, <2>2, <2>3 DEF explainVars, Telling, Writing
<1>3. CASE Begin
  <2>1. pc' \notin Telling
    BY <1>3, FirstSteps
  <2> QED
    BY <1>3, <2>1 DEF Begin, Telling, Writing
<1>4. CASE Stop
  BY <1>4 DEF Stop, Step, Telling, Writing, diskVars
<1>5. CASE Bind \/ AttestOld \/ AttestNew \/ CompareProvenance
  BY <1>5 DEF Bind, AttestOld, AttestNew, CompareProvenance, Step, Telling, Writing, diskVars
<1>6. CASE Analyse
  <2>1. analysis'.number = issued
    BY <1>6 DEF Analyse, Analysis
  <2> QED
    BY <1>6, <2>1 DEF Analyse, Step, Telling, Writing, diskVars
<1>7. CASE CheckCurrent \/ Tell \/ Draw
  BY <1>7 DEF CheckCurrent, Tell, Draw, Step, Telling, Writing, diskVars
<1>8. CASE ReadAnalysis
  BY <1>8 DEF ReadAnalysis, Step, Telling, Writing, diskVars
<1>9. CASE WritePage
  <2>1. pc = "write-page" /\ pc' \in Writing /\ pc' = After("page")
    BY <1>9 DEF WritePage, Write, After, Step, Writing
  <2>2. pc' \in {"write-analysis", "done"} => ~command.story
    BY <2>1 DEF After
  <2>3. pc' = "done" => ~command.analysis
    BY <2>1 DEF After
  <2>4. out' = [out EXCEPT !["page"] = analysis.number]
    BY <1>9 DEF WritePage, Write
  <2>5. UNCHANGED <<start, command, analysis, result, issued>>
    BY <1>9 DEF WritePage, Write, diskVars
  <2>6. Numbered'
    BY <2>1, <2>4, <2>5 DEF Telling, Writing, Outputs
  <2>7. Written'
    BY <2>1, <2>2, <2>3, <2>4, <2>5 DEF Telling, Writing, Outputs
  <2> QED
    BY <2>5, <2>6, <2>7
<1>10. CASE WriteStory
  <2>1. pc = "write-story" /\ pc' \in {"write-analysis", "done"} /\ pc' = After("story")
    BY <1>10 DEF WriteStory, Write, After, Step
  <2>2. pc' = "done" => ~command.analysis
    BY <2>1 DEF After
  <2>3. out' = [out EXCEPT !["story"] = analysis.number]
    BY <1>10 DEF WriteStory, Write
  <2>4. UNCHANGED <<start, command, analysis, result, issued>>
    BY <1>10 DEF WriteStory, Write, diskVars
  <2>5. Numbered'
    BY <2>1, <2>3, <2>4 DEF Telling, Writing, Outputs
  <2>6. Written'
    BY <2>1, <2>2, <2>3, <2>4 DEF Telling, Writing, Outputs
  <2> QED
    BY <2>4, <2>5, <2>6
<1>11. CASE WriteAnalysis
  <2>1. pc = "write-analysis" /\ pc' = "done"
    BY <1>11 DEF WriteAnalysis, Write, After, Step
  <2>2. out' = [out EXCEPT !["analysis"] = analysis]
    BY <1>11 DEF WriteAnalysis, Write
  <2>3. UNCHANGED <<start, command, analysis, result, issued>>
    BY <1>11 DEF WriteAnalysis, Write, diskVars
  <2>4. Numbered'
    <3>1. analysis.number \in Nat /\ analysis.number <= issued /\ out.page = analysis.number
      BY <2>1 DEF Telling, Writing
    <3>2. out'.analysis = analysis /\ out'.page = out.page
      BY <2>2 DEF Outputs
    <3>3. out' = [f \in Outputs |-> out'[f]]
      BY <2>2 DEF Outputs
    <3> QED
      BY <2>3, <3>1, <3>2, <3>3
  <2>5. Written'
    BY <2>1, <2>2, <2>3 DEF Telling, Writing, Outputs
  <2> QED
    BY <2>3, <2>4, <2>5
<1>12. CASE Done
  BY <1>12 DEF Done, Clear, Step, Telling, Writing, diskVars
<1>13. CASE ShowGraph
  BY <1>13 DEF ShowGraph, Step, Telling, Writing, diskVars
<1> QED
  BY <1>1, <1>2, <1>3, <1>4, <1>5, <1>6, <1>7, <1>8, <1>9, <1>10, <1>11, <1>12, <1>13
     DEF ExplainNext, ExplainStep

\* A saved analysis is never ahead of the page, and after a command that succeeded the files
\* it was asked for are of one analysis, wherever earlier commands were killed (_story_result,
\* _explain).
THEOREM BundlesAgree == ExplainSpec => []BundleAgrees
<1>1. BundleInv => BundleAgrees
  BY NoneIsNoNumber DEF BundleInv, Numbered, Written, BundleAgrees
<1> QED
  BY <1>1, BundleInit, BundleStep, PTL DEF ExplainSpec

(***************************************************************************)
(* Attested outputs.  Nothing is locked, so what an output is compared     *)
(* with may change after it was read; but a file that a command bound and  *)
(* that changed has lost its content for as long as the command runs, and  *)
(* the last check of the snapshot finds that.                              *)
(***************************************************************************)
DiskTyped ==
    /\ disk = [f \in {"files", "compile", "provenance", "outputs", "newer"} |-> disk[f]]
    /\ disk.newer \in BOOLEAN /\ torn \in BOOLEAN
    /\ disk.files = [p \in DOMAIN disk.files |-> disk.files[p]]
    /\ Definition \in DOMAIN disk.files
    /\ disk.outputs = [a \in {Used, Core} |-> disk.outputs[a]]

Fresh ==
    ~torn /\ ~disk.newer /\ disk.outputs[Used] # None =>
        BuiltOf(disk.outputs[Used], start.unity, disk.files)

\* Which steps a command of which kind can be at.
Kinds ==
    /\ pc \in {"bind", "attest-old", "attest-new", "compare-provenance", "analyse",
               "check-current"} => command.kind = "explain"
    /\ pc \in {"read-analysis", "read-compile", "write-compile", "write-provenance",
               "read-projects"} => command.kind # "explain"

Explaining == pc \notin {"ended", "bind"} /\ command.kind = "explain"

Lost == \E p \in DOMAIN binding.files :
            disk.files[p] # binding.files[p] /\ <<p, binding.files[p]>> \in past

Held ==
    /\ attested = [r \in {"old", "new"} |-> attested[r]]
    /\ ~Explaining => binding = None /\ attested = NoOutputs
    /\ Explaining =>
          /\ binding.files = [p \in DOMAIN disk.files |-> binding.files[p]]
          /\ disk.files = binding.files \/ Lost
    /\ story # None => pc \in {"draw", "write-page"} \cup Writing

\* An output is traced when it was built of what the command bound, unless a bound file
\* is lost or a build was torn.
Traced(output) == Lost \/ torn \/ BuiltOf(output, start.unity, binding.files)

Taken ==
    /\ pc \in {"read-context", "compare-times", "hash-output", "hash-definition"} =>
          draft = [f \in {"compile", "inputs", "output", "definition"} |-> draft[f]]
    /\ Explaining =>
          /\ pc = "hash-output" => Traced(disk.outputs[Used])
          /\ pc \in {"hash-definition", "compare-provenance"} => Traced(draft.output)
          /\ attested.new # None => Traced(attested.new)
          /\ pc \in Telling => analysis.attested = attested
          /\ pc \in Telling \ {"check-current"} /\ attested.new # None =>
                torn \/ BuiltOf(attested.new, start.unity, binding.files)

AttestInv == start \in Starts /\ DiskTyped /\ Fresh /\ Kinds /\ Held /\ Taken

\* The present files determine the files of a function whose paths are known.
LEMMA PresentDetermines ==
    ASSUME NEW f, NEW g, f = [p \in DOMAIN g |-> f[p]], g = [p \in DOMAIN g |-> g[p]],
           Present(f) = Present(g)
    PROVE  f = g
<1>1. DOMAIN f = DOMAIN g
  OBVIOUS
<1>2. DOMAIN Present(f) = {p \in DOMAIN f : f[p] # Absent}
  BY DEF Present, Restrict
<1>3. DOMAIN Present(g) = {p \in DOMAIN g : g[p] # Absent}
  BY DEF Present, Restrict
<1>4. ASSUME NEW p \in DOMAIN g PROVE f[p] = g[p]
  <2>1. CASE f[p] = Absent
    <3>1. p \notin DOMAIN Present(g)
      BY <1>2, <2>1
    <3> QED
      BY <1>3, <2>1, <3>1
  <2>2. CASE f[p] # Absent
    <3>1. p \in DOMAIN Present(f) /\ p \in DOMAIN Present(g)
      BY <1>1, <1>2, <2>2
    <3>2. Present(f)[p] = f[p]
      BY <1>1, <2>2 DEF Present, Restrict
    <3>3. Present(g)[p] = g[p]
      BY <1>3, <3>1 DEF Present, Restrict
    <3> QED
      BY <3>2, <3>3
  <2> QED
    BY <2>1, <2>2
<1> QED
  BY <1>4

\* What an output was built of does not depend on a path that is not observed.
LEMMA OutsideBuild ==
    ASSUME NEW unity, NEW output, NEW f, NEW p \in DOMAIN f, NEW c,
           f = [q \in DOMAIN f |-> f[q]], Definition \in DOMAIN f,
           p \notin UNION unity.projects[Used].compiles, p # Definition,
           BuiltOf(output, unity, f)
    PROVE  BuiltOf(output, unity, [f EXCEPT ![p] = c])
<1> DEFINE g == [f EXCEPT ![p] = c]
           C == UNION unity.projects[Used].compiles
<1>1. g = [q \in DOMAIN f |-> g[q]] /\ \A q \in DOMAIN f : q # p => g[q] = f[q]
  OBVIOUS
<1>2. C \cap DOMAIN Present(f) = C \cap DOMAIN Present(g)
  <2>1. DOMAIN Present(f) = {q \in DOMAIN f : f[q] # Absent}
    BY DEF Present, Restrict
  <2>2. DOMAIN Present(g) = {q \in DOMAIN g : g[q] # Absent}
    BY DEF Present, Restrict
  <2> HIDE DEF g
  <2>3. DOMAIN g = DOMAIN f
    BY <1>1
  <2> QED
    BY <1>1, <2>1, <2>2, <2>3
<1>3. CompiledBy(unity, f) = CompiledBy(unity, g)
  <2> HIDE DEF g
  <2>1. CompiledBy(unity, f) = [q \in C \cap DOMAIN Present(f) |-> f[q]]
    BY DEF CompiledBy, Restrict
  <2>2. CompiledBy(unity, g) = [q \in C \cap DOMAIN Present(g) |-> g[q]]
    BY DEF CompiledBy, Restrict
  <2>3. \A q \in C \cap DOMAIN Present(f) : q \in DOMAIN f
    BY DEF Present, Restrict
  <2>4. \A q \in C \cap DOMAIN Present(f) : g[q] = f[q]
    BY <1>1, <2>3
  <2> HIDE DEF C
  <2> QED
    BY <1>2, <2>1, <2>2, <2>4
<1>4. g[Definition] = f[Definition]
  BY <1>1
<1> QED
  BY <1>3, <1>4 DEF BuiltOf

LEMMA AttestInit == ExplainInit => AttestInv
  BY StartsAreBuilt, StartsAreTyped
     DEF ExplainInit, AttestInv, DiskTyped, Fresh, Kinds, Held, Taken, Explaining, NoOutputs,
         Telling, Writing

\* Editors and Unity.  An edit of a bound file loses what was bound for good, an edit of
\* an input makes the output old, and a build that no edit overlapped is of the files
\* there are.
LEMMA AttestMoves ==
    ASSUME AttestInv, EditFile \/ RebuildCore \/ BuildStart \/ BuildFinish,
           UNCHANGED explainVars
    PROVE  AttestInv'
<1> USE DEF AttestInv
<1>0. /\ start' = start /\ command' = command /\ pc' = pc /\ draft' = draft
      /\ binding' = binding /\ attested' = attested /\ analysis' = analysis /\ story' = story
  BY DEF EditFile, RebuildCore, BuildStart, BuildFinish, explainVars
<1>1. Kinds' /\ (Explaining' <=> Explaining)
  BY <1>0 DEF Kinds, Explaining
<1>2. CASE EditFile
  <2>1. PICK p, c :
            /\ p \in DOMAIN disk.files
            /\ c # disk.files[p]
            /\ pc # "ended" => <<p, c>> \notin past
            /\ disk' = [disk EXCEPT !.files = [disk.files EXCEPT ![p] = c],
                                    !.newer = (disk.newer \/ p \in Observed)]
            /\ past' = past \cup {<<p, disk.files[p]>>}
            /\ torn' = torn
    BY <1>2 DEF EditFile
  <2>2. /\ disk'.files = [disk.files EXCEPT ![p] = c]
        /\ disk'.outputs = disk.outputs
        /\ disk' = [f \in {"files", "compile", "provenance", "outputs", "newer"} |-> disk'[f]]
    BY <2>1 DEF DiskTyped
  <2>3. disk'.newer = (disk.newer \/ p \in Observed)
    BY <2>1, Zenon DEF DiskTyped
  <2>4. DiskTyped'
    BY <2>1, <2>2, <2>3 DEF DiskTyped
  <2>5. Fresh'
    <3>1. SUFFICES ASSUME ~torn, ~disk'.newer, disk.outputs[Used] # None
                   PROVE  BuiltOf(disk.outputs[Used], start.unity, disk'.files)
      BY <1>0, <2>1, <2>2 DEF Fresh
    <3>2. ~disk.newer /\ p \notin Observed
      BY <2>3, <3>1
    <3>3. BuiltOf(disk.outputs[Used], start.unity, disk.files)
      BY <3>1, <3>2 DEF Fresh
    <3>4. p \notin UNION start.unity.projects[Used].compiles /\ p # Definition
      BY <3>2 DEF Observed, Compiles
    <3> QED
      BY <2>2, <3>3, <3>4, OutsideBuild DEF DiskTyped
  <2>6. Explaining => Lost'
    <3> SUFFICES ASSUME Explaining PROVE Lost'
      OBVIOUS
    <3>1. pc # "ended" /\ DOMAIN binding.files = DOMAIN disk.files
      BY DEF Explaining, Held
    <3>2. CASE disk.files = binding.files
      <4>1. disk'.files[p] # binding.files[p] /\ <<p, binding.files[p]>> \in past'
        BY <2>1, <2>2, <3>2
      <4> QED
        BY <1>0, <2>1, <3>2, <4>1 DEF Lost
    <3>3. CASE Lost
      <4>1. PICK q \in DOMAIN binding.files :
                disk.files[q] # binding.files[q] /\ <<q, binding.files[q]>> \in past
        BY <3>3 DEF Lost
      <4>2. disk'.files[q] # binding.files[q]
        BY <2>1, <2>2, <3>1, <4>1
      <4> QED
        BY <1>0, <2>1, <4>1, <4>2 DEF Lost
    <3> QED
      BY <3>2, <3>3 DEF Held
  <2>7. Held'
    <3>1. DOMAIN disk'.files = DOMAIN disk.files
      BY <2>2
    <3> QED
      BY <1>0, <1>1, <2>6, <3>1 DEF Held
  <2>8. Taken'
    BY <1>0, <1>1, <2>1, <2>6 DEF Taken, Traced
  <2> QED
    BY <1>0, <1>1, <2>4, <2>5, <2>7, <2>8
<1>3. CASE RebuildCore
  <2>1. /\ disk'.files = disk.files /\ disk'.outputs[Used] = disk.outputs[Used]
        /\ disk'.newer = TRUE /\ past' = past /\ torn' = torn
        /\ DiskTyped'
    BY <1>3, UsedIsNotCore DEF RebuildCore, DiskTyped
  <2>2. Lost' <=> Lost
    BY <1>0, <2>1 DEF Lost
  <2>3. Held'
    BY <1>0, <1>1, <2>1, <2>2 DEF Held
  <2>4. Taken'
    BY <1>0, <1>1, <2>1, <2>2 DEF Taken, Traced
  <2> QED
    BY <1>0, <1>1, <2>1, <2>3, <2>4 DEF Fresh
<1>4. CASE BuildStart
  <2>1. disk' = disk /\ past' = past /\ torn' = torn
    BY <1>4 DEF BuildStart
  <2>2. Lost' <=> Lost
    BY <1>0, <2>1 DEF Lost
  <2>3. DiskTyped' /\ Fresh'
    BY <1>0, <2>1 DEF DiskTyped, Fresh
  <2>4. Held'
    BY <1>0, <1>1, <2>1, <2>2 DEF Held
  <2>5. Taken'
    BY <1>0, <1>1, <2>1, <2>2 DEF Taken, Traced
  <2> QED
    BY <1>0, <1>1, <2>3, <2>4, <2>5
<1>5. CASE BuildFinish
  <2>1. /\ disk'.files = disk.files /\ disk'.outputs[Used] = building
        /\ past' = past /\ torn' = (torn \/ building # Inputs)
        /\ DiskTyped'
    BY <1>5 DEF BuildFinish, DiskTyped
  <2>2. ~torn' => BuiltOf(building, start.unity, disk.files)
    <3>1. Inputs.sources = CompiledBy(start.unity, disk.files)
      BY DEF Inputs, SourcesOf
    <3>2. Inputs.definition = disk.files[Definition]
      BY DEF Inputs
    <3>3. ~torn' => building = Inputs
      BY <2>1
    <3> QED
      BY <3>1, <3>2, <3>3 DEF BuiltOf
  <2>3. torn => torn'
    BY <2>1
  <2>4. Lost' <=> Lost
    BY <1>0, <2>1 DEF Lost
  <2>5. Fresh'
    BY <1>0, <2>1, <2>2 DEF Fresh
  <2>6. Held'
    BY <1>0, <1>1, <2>1, <2>4 DEF Held
  <2>7. Explaining => Lost \/ torn' \/ BuiltOf(building, start.unity, binding.files)
    BY <2>2 DEF Held
  <2>8. Taken'
    BY <1>0, <1>1, <2>1, <2>3, <2>4, <2>7 DEF Taken, Traced
  <2> QED
    BY <1>0, <1>1, <2>1, <2>5, <2>6, <2>8
<1> QED
  BY <1>2, <1>3, <1>4, <1>5

\* The exporters read one thing at a time.
LEMMA AttestExports ==
    ASSUME AttestInv, UNCHANGED explainVars,
           \/ ReadCompile \/ WriteCompile \/ HoldManifest \/ ReadContext \/ CompareTimes
           \/ HashOutput \/ HashDefinition \/ WriteProvenance
    PROVE  AttestInv'
<1> USE DEF AttestInv
<1>0. /\ start' = start /\ command' = command /\ torn' = torn /\ past' = past
      /\ binding' = binding /\ attested' = attested /\ analysis' = analysis /\ story' = story
  BY DEF ReadCompile, WriteCompile, HoldManifest, ReadContext, CompareTimes, HashOutput,
         HashDefinition, WriteProvenance, explainVars, diskVars
<1>1. CASE WriteCompile \/ WriteProvenance
  <2>1. /\ disk'.files = disk.files /\ disk'.outputs = disk.outputs /\ disk'.newer = disk.newer
        /\ DiskTyped' /\ pc' = "ended" /\ pc \in {"write-compile", "write-provenance"}
    BY <1>0, <1>1 DEF WriteCompile, WriteProvenance, Step, DiskTyped
  <2>2. ~Explaining /\ ~Explaining'
    BY <2>1 DEF Explaining, Kinds
  <2>3. Fresh'
    BY <1>0, <2>1 DEF Fresh
  <2>4. Kinds'
    BY <2>1 DEF Kinds
  <2>5. Held'
    BY <1>0, <2>1, <2>2 DEF Held, Writing
  <2>6. Taken'
    BY <2>1, <2>2 DEF Taken
  <2> QED
    BY <1>0, <2>1, <2>3, <2>4, <2>5, <2>6
<1>2. CASE ReadCompile \/ HoldManifest \/ ReadContext \/ CompareTimes \/ HashOutput \/ HashDefinition
  <2>1. disk' = disk
    BY <1>2 DEF ReadCompile, HoldManifest, ReadContext, CompareTimes, HashOutput, HashDefinition,
                diskVars
  <2>2. DiskTyped' /\ Fresh'
    BY <1>0, <2>1 DEF DiskTyped, Fresh
  <2>3. Lost' <=> Lost
    BY <1>0, <2>1 DEF Lost
  <2>4. /\ pc \in {"read-compile", "hold-manifest", "read-context", "compare-times",
                   "hash-output", "hash-definition"}
        /\ pc' \in {"write-compile", "read-context", "compare-times", "hash-output",
                    "hash-definition", "compare-provenance", "write-provenance"}
        /\ pc' = "write-compile" => pc = "read-compile"
        /\ pc' = "write-provenance" => command.kind # "explain"
        /\ pc' = "compare-provenance" => command.kind = "explain"
    BY <1>2 DEF ReadCompile, HoldManifest, ReadContext, CompareTimes, HashOutput, HashDefinition,
                Step
  <2>5. Kinds'
    BY <1>0, <2>4 DEF Kinds
  <2>6. Explaining' <=> Explaining
    BY <1>0, <2>4 DEF Explaining
  <2>7. Held'
    BY <1>0, <2>1, <2>3, <2>4, <2>6 DEF Held, Writing
  <2>8. pc' \in {"read-context", "compare-times", "hash-output", "hash-definition"} =>
            draft' = [f \in {"compile", "inputs", "output", "definition"} |-> draft'[f]]
    BY <1>2, <2>4 DEF ReadCompile, HoldManifest, ReadContext, CompareTimes, HashOutput,
                      HashDefinition, Step, Taken
  <2>9. ASSUME Explaining, pc' = "hash-output" PROVE Lost \/ torn \/
            BuiltOf(disk.outputs[Used], start.unity, binding.files)
    <3>1. CompareTimes
      BY <1>2, <2>9 DEF ReadCompile, HoldManifest, ReadContext, HashOutput, HashDefinition, Step
    <3>2. ~disk.newer /\ disk.outputs[Used] # None
      BY <3>1 DEF CompareTimes, NotOlder
    <3> QED
      BY <2>9, <3>2 DEF Fresh, Held
  <2>10. ASSUME Explaining, pc' \in {"hash-definition", "compare-provenance"}
         PROVE  Lost \/ torn \/ BuiltOf(draft'.output, start.unity, binding.files)
    <3>1. CASE HashOutput
      BY <2>10, <3>1 DEF HashOutput, Taken, Traced
    <3>2. CASE HashDefinition
      BY <2>10, <3>2 DEF HashDefinition, Taken, Traced
    <3> QED
      BY <1>2, <2>10, <3>1, <3>2 DEF ReadCompile, HoldManifest, ReadContext, CompareTimes, Step
  <2>11. Taken'
    BY <1>0, <2>1, <2>3, <2>4, <2>6, <2>8, <2>9, <2>10 DEF Taken, Traced, Telling, Writing
  <2> QED
    BY <1>0, <2>2, <2>5, <2>7, <2>11
<1> QED
  BY <1>1, <1>2

\* A command binds, reads, and last compares what is there with what it bound.
LEMMA AttestCommands ==
    ASSUME AttestInv, Begin \/ Stop \/ ExplainStep
    PROVE  AttestInv'
<1> USE DEF AttestInv
<1>0. start' = start /\ disk' = disk /\ torn' = torn
  BY DEF Begin, Stop, ExplainStep, Bind, AttestOld, AttestNew, CompareProvenance, Analyse,
         CheckCurrent, ReadAnalysis, Tell, Draw, WritePage, WriteStory, WriteAnalysis, Write,
         Done, ShowGraph, diskVars
<1>1. DiskTyped' /\ Fresh'
  BY <1>0 DEF DiskTyped, Fresh
<1>2. CASE Begin
  <2>1. command'.kind \in DOMAIN FirstStep /\ pc' = FirstStep[command'.kind] /\ pc' \notin Telling
    BY <1>2, FirstSteps
  <2>2. pc' = "bind" <=> command'.kind = "explain"
    BY <2>1 DEF FirstStep
  <2>3. pc' \in {"bind", "read-analysis", "read-projects", "read-compile", "hold-manifest"}
    BY <2>1 DEF FirstStep
  <2>4. ~Explaining /\ ~Explaining'
    BY <1>2, <2>1, <2>2 DEF Begin, Explaining, FirstStep
  <2> HIDE DEF FirstStep
  <2>5. Kinds'
    BY <2>2, <2>3 DEF Kinds
  <2>6. Held'
    BY <1>2, <2>4 DEF Begin, Held, Writing
  <2>7. Taken'
    BY <2>3, <2>4 DEF Taken
  <2> QED
    BY <1>0, <1>1, <2>5, <2>6, <2>7
<1>3. CASE Stop \/ Done
  <2>1. /\ pc' = "ended" /\ binding' = None /\ attested' = NoOutputs /\ story' = None
    BY <1>3 DEF Stop, Done, Step, Clear
  <2>2. Held'
    BY <2>1 DEF Held, Explaining, NoOutputs
  <2> QED
    BY <1>0, <1>1, <2>1, <2>2 DEF Kinds, Taken, Explaining
<1>4. CASE Bind
  <2>1. /\ pc = "bind" /\ pc' = "attest-old" /\ command' = command /\ attested' = attested
        /\ story' = story /\ binding'.files = disk.files
    BY <1>4 DEF Bind, Step
  <2>2. attested = NoOutputs /\ story = None /\ command.kind = "explain"
    BY <2>1 DEF Held, Kinds, Explaining, Writing
  <2>3. Held'
    BY <1>0, <2>1, <2>2 DEF Held, DiskTyped, Explaining, NoOutputs
  <2>4. Kinds' /\ Taken'
    BY <2>1, <2>2 DEF Kinds, Taken, NoOutputs, Telling, Writing
  <2> QED
    BY <1>0, <1>1, <2>3, <2>4
<1>5. CASE AttestOld \/ AttestNew \/ CompareProvenance
  <2>1. /\ pc \in {"attest-old", "attest-new", "compare-provenance"}
        /\ pc' \in {"attest-new", "hold-manifest", "analyse"}
        /\ command' = command /\ binding' = binding /\ past' = past /\ story' = story
    BY <1>5 DEF AttestOld, AttestNew, CompareProvenance, Step, diskVars
  <2>2. command.kind = "explain" /\ Explaining /\ Explaining'
    BY <2>1 DEF Kinds, Explaining
  <2>3. Lost' <=> Lost
    BY <1>0, <2>1 DEF Lost
  <2>4. attested' = [r \in {"old", "new"} |-> attested'[r]]
    BY <1>5 DEF AttestOld, AttestNew, CompareProvenance, Held
  <2>5. Held'
    BY <1>0, <2>1, <2>2, <2>3, <2>4 DEF Held, Writing
  <2>6. ASSUME attested'.new # None
        PROVE  Lost \/ torn \/ BuiltOf(attested'.new, start.unity, binding.files)
    <3>1. CASE AttestOld \/ AttestNew
      <4>1. attested'.new = attested.new
        BY <3>1 DEF AttestOld, AttestNew, Held
      <4> QED
        BY <2>2, <2>6, <4>1 DEF Taken, Traced
    <3>2. CASE CompareProvenance
      <4>1. attested'.new = draft.output
        BY <3>2 DEF CompareProvenance, Held
      <4> QED
        BY <2>2, <3>2, <4>1 DEF CompareProvenance, Taken, Traced
    <3> QED
      BY <1>5, <3>1, <3>2
  <2>7. Kinds' /\ Taken'
    BY <1>0, <2>1, <2>2, <2>3, <2>6 DEF Kinds, Taken, Traced, Telling, Writing
  <2> QED
    BY <1>0, <1>1, <2>5, <2>7
<1>6. CASE Analyse
  <2>1. /\ pc = "analyse" /\ pc' = "check-current" /\ analysis' = Analysis
        /\ UNCHANGED <<command, past, draft, binding, attested, story>>
    BY <1>6 DEF Analyse, Step, diskVars
  <2>2. command.kind = "explain" /\ Explaining /\ Explaining'
    BY <2>1 DEF Kinds, Explaining
  <2>3. Lost' <=> Lost
    BY <1>0, <2>1 DEF Lost
  <2>4. analysis'.attested = attested
    BY <2>1 DEF Analysis
  <2>5. Held'
    BY <1>0, <2>1, <2>2, <2>3 DEF Held, Writing
  <2>6. Kinds' /\ Taken'
    BY <1>0, <2>1, <2>2, <2>3, <2>4 DEF Kinds, Taken, Traced, Telling, Writing
  <2> QED
    BY <1>0, <1>1, <2>5, <2>6
<1>7. CASE CheckCurrent
  <2>1. /\ pc = "check-current" /\ pc' = "tell" /\ Present(disk.files) = Present(binding.files)
        /\ UNCHANGED <<command, past, draft, binding, attested, analysis, story>>
    BY <1>7 DEF CheckCurrent, Current, Step, diskVars
  <2>2. command.kind = "explain" /\ Explaining /\ Explaining'
    BY <2>1 DEF Kinds, Explaining
  <2>3. disk.files = binding.files
    <3>1. /\ binding.files = [p \in DOMAIN disk.files |-> binding.files[p]]
          /\ disk.files = [p \in DOMAIN disk.files |-> disk.files[p]]
      BY <2>2 DEF Held, DiskTyped
    <3> QED
      BY <2>1, <3>1, PresentDetermines
  <2>4. ~Lost /\ ~Lost'
    BY <1>0, <2>1, <2>3 DEF Lost
  <2>5. Held'
    BY <1>0, <2>1, <2>2, <2>3 DEF Held, Writing
  <2>6. Kinds' /\ Taken'
    BY <1>0, <2>1, <2>2, <2>4 DEF Kinds, Taken, Traced, Telling, Writing
  <2> QED
    BY <1>0, <1>1, <2>5, <2>6
<1>8. CASE ReadAnalysis \/ ShowGraph
  <2>1. /\ pc \in {"read-analysis", "read-projects"} /\ pc' \in {"tell", "ended"}
        /\ UNCHANGED <<command, past, draft, binding, attested, story>>
    BY <1>8 DEF ReadAnalysis, ShowGraph, Step, diskVars
  <2>2. ~Explaining /\ ~Explaining'
    BY <2>1 DEF Kinds, Explaining
  <2>3. Held'
    BY <2>1, <2>2 DEF Held, Writing
  <2> QED
    BY <1>0, <1>1, <2>1, <2>2, <2>3 DEF Kinds, Taken
<1>9. CASE Tell \/ Draw \/ WritePage \/ WriteStory \/ WriteAnalysis
  <2>1. /\ pc \in {"tell", "draw", "write-page"} \cup Writing
        /\ pc' \in {"draw", "write-page"} \cup Writing
        /\ UNCHANGED <<command, past, draft, binding, attested, analysis>>
    BY <1>9 DEF Tell, Draw, WritePage, WriteStory, WriteAnalysis, Write, After, Step, Writing,
                diskVars
  <2>2. Explaining' <=> Explaining
    BY <2>1 DEF Explaining, Writing
  <2>3. Lost' <=> Lost
    BY <1>0, <2>1 DEF Lost
  <2>4. Held'
    BY <1>0, <2>1, <2>2, <2>3 DEF Held, Writing
  <2>5. Kinds' /\ Taken'
    BY <1>0, <2>1, <2>2, <2>3 DEF Kinds, Taken, Traced, Telling, Writing
  <2> QED
    BY <1>0, <1>1, <2>4, <2>5
<1> QED
  BY <1>2, <1>3, <1>4, <1>5, <1>6, <1>7, <1>8, <1>9 DEF ExplainStep

LEMMA AttestStep == ASSUME AttestInv, [ExplainNext]_vars PROVE AttestInv'
<1>1. CASE UNCHANGED vars
  <2>1. UNCHANGED <<start, disk, torn, past, command, pc, draft, binding, attested, analysis, story>>
    BY <1>1 DEF vars, diskVars, explainVars
  <2>2. (Lost' <=> Lost) /\ (Explaining' <=> Explaining)
    BY <2>1 DEF Lost, Explaining
  <2>3. DiskTyped' /\ Fresh' /\ Kinds' /\ Held'
    BY <2>1, <2>2 DEF AttestInv, DiskTyped, Fresh, Kinds, Held
  <2>4. Taken'
    BY <2>1, <2>2 DEF AttestInv, Taken, Traced
  <2> QED
    BY <2>1, <2>3, <2>4 DEF AttestInv
<1>2. CASE ProvenanceStep /\ UNCHANGED explainVars
  BY <1>2, AttestMoves, AttestExports DEF ProvenanceStep
<1>3. CASE Begin \/ Stop \/ ExplainStep
  BY <1>3, AttestCommands
<1> QED
  BY <1>1, <1>2, <1>3 DEF ExplainNext

\* An output that an analysis took as attested was compiled of what the analysis binds,
\* unless a file changed under a build, for every number of edits, builds and commands
\* (BuildProvenanceExporter.build, _attested_project_outputs).
THEOREM AttestedOutputsAreCompiled == ExplainSpec => []AttestedIsCompiled
<1>1. AttestInv => AttestedIsCompiled
  <2>1. SUFFICES ASSUME AttestInv, Told, binding # None, analysis.attested.new # None, ~torn
                 PROVE  BuiltOf(analysis.attested.new, start.unity, binding.files)
    BY DEF AttestedIsCompiled
  <2>2. Explaining /\ pc \in Telling \ {"check-current"}
    BY <2>1 DEF AttestInv, Told, Held, Telling, Writing
  <2> QED
    BY <2>1, <2>2 DEF AttestInv, Taken
<1> QED
  BY <1>1, AttestInit, AttestStep, PTL DEF ExplainSpec

(***************************************************************************)
(* An analysis says how complete it is, and a story repeats it.            *)
(***************************************************************************)
Sure(a) ==
    /\ a.status \in {"FRESH", "PARTIAL"}
    /\ a.status = "FRESH" <=> a.diff.status = "COMPLETE"
    /\ a.status = "FRESH" =>
          \A c \in {a.contexts.old, a.contexts.new} :
              c.applies = "APPLICABLE" /\ \A u \in c.uses : ~u.use.output

\* A complete context is that of an applicable assembly that is compiled against no output.
LEMMA CompleteStandsAlone ==
    ASSUME NEW root, NEW name, NEW outputs,
           Unity!Context(root, name, outputs).completeness = "COMPLETE"
    PROVE  LET c == Unity!Context(root, name, outputs)
           IN  /\ c.applies = "APPLICABLE"
               /\ \A u \in c.uses : ~u.use.output
               /\ \A u \in root.projects[name].uses : ~u.output
<1> DEFINE c == Unity!Context(root, name, outputs)
           status(u) == Unity!ReferenceStatus(root, u, outputs)
<1>1. c.applies = "APPLICABLE" /\ Unity!OutputDoubts(c.uses) = {}
  <2>1. PICK doubts :
            /\ c.applies # "APPLICABLE" => "applicability" \in doubts
            /\ Unity!OutputDoubts(c.uses) # {} => "outputs" \in doubts
            /\ c.completeness = IF doubts = {} THEN "COMPLETE" ELSE "PARTIAL"
    BY DEF Unity!Context, Unity!When
  <2> QED
    BY <2>1
<1>2. c.uses = {[use |-> u, status |-> status(u)] : u \in root.projects[name].uses}
  BY DEF Unity!Context
<1>3. ASSUME NEW u \in root.projects[name].uses PROVE ~u.output
  <2>1. [use |-> u, status |-> status(u)] \in c.uses
    BY <1>2, <1>3
  <2>2. status(u) = "ANALYZER_ONLY"
    BY <1>1, <2>1 DEF Unity!OutputDoubts
  <2> QED
    BY <2>2 DEF Unity!ReferenceStatus
<1> QED
  BY <1>1, <1>2, <1>3

\* Nothing is reached from an assembly that is compiled against no output.
LEMMA NothingIsReached ==
    ASSUME NEW root, NEW name, \A u \in root.projects[name].uses : ~u.output
    PROVE  Unity!AssembliesFrom(root, name) \subseteq {name}
  BY DEF Unity!AssembliesFrom

LEMMA CompleteGraphIsOne ==
    ASSUME NEW root, NEW name, Unity!AssemblyGraph(root, name).completeness = "COMPLETE"
    PROVE  Unity!AssemblyGraph(root, name).assemblies = {name}
<1> DEFINE built == Unity!AssembliesFrom(root, name) \cap DOMAIN root.projects
<1>1. /\ name \in built
      /\ Unity!Context(root, name, {}).completeness = "COMPLETE"
  <2> DEFINE contexts == [n \in built |-> Unity!Context(root, n, {})]
  <2>1. PICK doubts :
            /\ (\E n \in built : contexts[n].completeness # "COMPLETE") => "partial" \in doubts
            /\ Unity!AssemblyGraph(root, name).completeness =
                  IF name \in built /\ doubts = {} THEN "COMPLETE" ELSE "PARTIAL"
    BY DEF Unity!AssemblyGraph, Unity!When
  <2> QED
    BY <2>1
<1>2. built \subseteq {name}
  BY <1>1, CompleteStandsAlone, NothingIsReached
<1>3. Unity!AssemblyGraph(root, name).assemblies = built
  BY DEF Unity!AssemblyGraph
<1> QED
  BY <1>1, <1>2, <1>3

LEMMA ReadyGraphIsPartial ==
    ASSUME NEW files, NEW context, LaneGraph(files, context).status = "COMPLETE"
    PROVE  context.completeness = "COMPLETE"
  BY DEF LaneGraph, GraphOf

LEMMA AnalysisIsSure == Sure(Analysis)
<1> DEFINE a == Analysis
           oldUnity == ContextOf(start.base.files, attested.old)
           newUnity == ContextOf(binding.files, attested.new)
           before == LaneGraph(Present(start.base.files), oldUnity)
           after == LaneGraph(Present(binding.files), newUnity)
           diff == Diff(before, after, Renames(Present(start.base.files), Present(binding.files)),
                               start.hints)
<1>1. /\ a.diff = diff /\ a.contexts = [old |-> oldUnity, new |-> newUnity]
      /\ a.status = IF /\ diff.status = "COMPLETE"
                       /\ oldUnity.completeness = "COMPLETE" /\ newUnity.completeness = "COMPLETE"
                    THEN "FRESH" ELSE "PARTIAL"
  BY DEF Analysis
<1>2. diff.status = "COMPLETE" => before.status = "COMPLETE" /\ after.status = "COMPLETE"
  BY DEF Diff
<1>3. diff.status = "COMPLETE" =>
          oldUnity.completeness = "COMPLETE" /\ newUnity.completeness = "COMPLETE"
  BY <1>2, ReadyGraphIsPartial
<1> HIDE DEF before, after, diff
<1>4. ASSUME NEW c \in {oldUnity, newUnity}, c.completeness = "COMPLETE"
      PROVE  c.applies = "APPLICABLE" /\ \A u \in c.uses : ~u.use.output
  BY <1>4, CompleteStandsAlone DEF oldUnity, newUnity, ContextOf
<1>5. a.contexts.old = oldUnity /\ a.contexts.new = newUnity
  BY ONLY <1>1
<1>6. Sure(a)
  BY <1>1, <1>3, <1>4, <1>5 DEF Sure
<1> QED
  BY <1>6 DEF a

\* What is told before anything is drawn.
Plain(s) ==
    /\ {"status", "claims"} \subseteq DOMAIN s
    /\ DOMAIN s \cap {"risks", "map", "mission"} = {}
    /\ s.status \in {"FRESH", "PARTIAL"}
    /\ s.status = "PARTIAL" <=> \A c \in s.claims : c.confidence # "CONFIRMED_STATIC"

LEMMA FactsArePlain ==
    ASSUME NEW a, NEW intent, NEW g, Sure(a)
    PROVE  Plain(Story!Facts(a, intent, g))
<1> DEFINE s == Story!Facts(a, intent, g)
<1>1. /\ s.status = a.status /\ s.claims = Story!Claims(a, g, intent)
      /\ {"status", "claims"} \subseteq DOMAIN s
      /\ DOMAIN s \cap {"risks", "map", "mission"} = {}
  BY DEF Story!Facts
<1>2. \A c \in Story!SourceClaims(intent) : c.confidence = "UNKNOWN"
  BY DEF Story!SourceClaims
<1>3. \E c \in Story!Claims(a, g, intent) :
          c.confidence = IF a.diff.status = "COMPLETE" THEN "CONFIRMED_STATIC" ELSE "STRUCTURAL"
  <2> DEFINE said == [layer |-> "CODE_FACT", of |-> "summary",
                      confidence |-> IF a.diff.status = "COMPLETE" THEN "CONFIRMED_STATIC"
                                                                  ELSE "STRUCTURAL"]
  <2>1. said \in Story!Claims(a, g, intent)
    BY DEF Story!Claims
  <2> QED
    BY <2>1
<1>4. \A c \in Story!Claims(a, g, intent) :
          \/ c.confidence = IF a.diff.status = "COMPLETE" THEN "CONFIRMED_STATIC" ELSE "STRUCTURAL"
          \/ c.confidence \in {"MAPPED", "INFERRED", "UNKNOWN"}
  BY <1>2 DEF Story!Claims
<1>5. s.status = "PARTIAL" <=> \A c \in s.claims : c.confidence # "CONFIRMED_STATIC"
  BY <1>1, <1>3, <1>4 DEF Sure
<1> HIDE DEF s
<1>6. Plain(s)
  BY <1>1, <1>5 DEF Plain, Sure
<1> QED
  BY <1>6 DEF s

Risky == {"partial", "cross-runtime", "protocol", "configuration"}

LEMMA OneOrNone ==
    ASSUME NEW S, NEW e \in S, NEW s \in {<<>>, <<e>>}
    PROVE  s \in Seq(S) /\ Len(s) \in Nat /\ Len(s) <= 1
<1>1. <<e>> \in Seq(S) /\ Len(<<e>>) = 1
  OBVIOUS
<1>2. <<>> \in Seq(S) /\ Len(<<>>) = 0
  OBVIOUS
<1>3. CASE s = <<e>>
  BY <1>1, <1>3
<1>4. CASE s = <<>>
  BY <1>2, <1>4
<1> QED
  BY <1>3, <1>4

\* The first risk of a story is that it is PARTIAL, if it is.
LEMMA RisksSaySo ==
    ASSUME NEW status, NEW cards, NEW risks, risks = Story!RiskCards(status, cards)
    PROVE  status = "PARTIAL" <=> (risks # <<>> /\ risks[1] = "partial")
<1>1. PICK p, x, y, z :
          /\ p = IF status = "PARTIAL" THEN <<"partial">> ELSE <<>>
          /\ x \in {<<>>, <<"cross-runtime">>} /\ y \in {<<>>, <<"protocol">>}
          /\ z \in {<<>>, <<"configuration">>}
          /\ risks = Story!First(4, p \o x \o y \o z)
  BY DEF Story!RiskCards
<1>2. /\ p \in Seq(Risky) /\ x \in Seq(Risky) /\ y \in Seq(Risky) /\ z \in Seq(Risky)
      /\ Len(p) <= 1 /\ Len(x) <= 1 /\ Len(y) <= 1 /\ Len(z) <= 1
  <2>1. p \in {<<>>, <<"partial">>}
    BY <1>1
  <2> QED
    BY <1>1, <2>1, OneOrNone DEF Risky
<1> DEFINE s == p \o x \o y \o z
<1>3. Len(s) = Len(p) + Len(x) + Len(y) + Len(z) /\ Len(s) \in Nat
  BY <1>2
<1>4. risks = s
  BY <1>1, <1>2, <1>3 DEF Story!First
<1>5. CASE status = "PARTIAL"
  <2>1. p = <<"partial">> /\ Len(p) = 1 /\ p[1] = "partial"
    BY <1>1, <1>5
  <2>2. s[1] = p[1] /\ Len(s) >= 1
    BY <1>2, <1>3, <2>1
  <2> QED
    BY <1>4, <1>5, <2>1, <2>2
<1>6. CASE status # "PARTIAL"
  <2>1. p = <<>>
    BY <1>1, <1>6
  <2>2. s = x \o y \o z
    BY <1>2, <2>1
  <2>3. x \in Seq(Risky \ {"partial"}) /\ y \in Seq(Risky \ {"partial"})
        /\ z \in Seq(Risky \ {"partial"})
    BY <1>1, OneOrNone DEF Risky
  <2>4. s \in Seq(Risky \ {"partial"})
    BY <2>2, <2>3
  <2>5. s # <<>> => s[1] # "partial"
    BY <2>4
  <2> QED
    BY <1>4, <1>6, <2>5
<1> QED
  BY <1>5, <1>6

\* One of the checks, and so of the mission's steps, is of the boundary of the evidence.
LEMMA ChecksSaySo ==
    ASSUME NEW status, NEW primary, NEW shown,
           shown = Story!First(3, Story!Checks(status, primary))
    PROVE  status = "PARTIAL" <=> \E i \in DOMAIN shown : shown[i] = "EVIDENCE_BOUNDARY"
<1> DEFINE checks == Story!Checks(status, primary)
           last == IF status = "PARTIAL" THEN "EVIDENCE_BOUNDARY" ELSE "REGRESSION"
           path == primary.relationships # <<>>
           second == Len(primary.takeaways) > 1
           middle == CASE path -> <<"RELATIONSHIP_PATH">>
                       [] ~path /\ second -> <<"SECONDARY_BEHAVIOR">>
                       [] OTHER -> <<>>
<1>1. checks = <<"PRIMARY_BEHAVIOR">> \o middle \o <<last>>
  <2>1. <<last>> = IF status = "PARTIAL" THEN <<"EVIDENCE_BOUNDARY">> ELSE <<"REGRESSION">>
    OBVIOUS
  <2>2. primary.relationships = <<>> <=> ~path
    OBVIOUS
  <2> QED
    BY <2>1, <2>2 DEF Story!Checks
<1>2. middle \in {<<>>, <<"RELATIONSHIP_PATH">>, <<"SECONDARY_BEHAVIOR">>}
  <2> HIDE DEF path, second
  <2> QED
    OBVIOUS
<1>3. last \in {"EVIDENCE_BOUNDARY", "REGRESSION"} /\ (status = "PARTIAL" <=> last = "EVIDENCE_BOUNDARY")
  OBVIOUS
<1> SUFFICES last = "EVIDENCE_BOUNDARY" <=> \E i \in DOMAIN shown : shown[i] = "EVIDENCE_BOUNDARY"
  BY <1>3
<1>0. shown = Story!First(3, checks)
  OBVIOUS
<1> HIDE DEF checks, last, middle
<1> DEFINE T == {"PRIMARY_BEHAVIOR", "RELATIONSHIP_PATH", "SECONDARY_BEHAVIOR"}
           S == T \cup {"EVIDENCE_BOUNDARY", "REGRESSION"}
           before == <<"PRIMARY_BEHAVIOR">> \o middle
<1>4. middle \in Seq(T) /\ Len(middle) \in Nat /\ Len(middle) <= 1
  <2>1. "RELATIONSHIP_PATH" \in T /\ "SECONDARY_BEHAVIOR" \in T
    OBVIOUS
  <2> HIDE DEF T
  <2> QED
    BY <1>2, <2>1, OneOrNone
<1>5. <<"PRIMARY_BEHAVIOR">> \in Seq(T) /\ Len(<<"PRIMARY_BEHAVIOR">>) = 1
  OBVIOUS
<1>6. before \in Seq(T) /\ Len(before) = 1 + Len(middle)
  BY <1>4, <1>5
<1>7. <<last>> \in Seq(S) /\ Len(<<last>>) = 1 /\ <<last>>[1] = last
  BY <1>3
<1>8. before \in Seq(S)
  BY <1>6
<1>9. checks = before \o <<last>>
  BY <1>1
<1> HIDE DEF before
<1>10. /\ checks \in Seq(S) /\ Len(checks) = Len(before) + 1 /\ Len(checks) \in 1..3
       /\ checks[Len(checks)] = last
       /\ \A i \in 1..Len(before) : checks[i] = before[i]
  BY <1>4, <1>6, <1>7, <1>8, <1>9
<1>11. \A i \in 1..Len(before) : before[i] # "EVIDENCE_BOUNDARY"
  BY <1>6
<1>12. shown = checks
  BY <1>0, <1>10 DEF Story!First
<1>13. DOMAIN checks = 1..Len(checks)
  BY <1>10
<1> QED
  BY <1>6, <1>4, <1>10, <1>11, <1>12, <1>13

(***************************************************************************)
(* The commands: what is analysed, saved, told and drawn.                  *)
(***************************************************************************)
Sured ==
    /\ pc \in Telling \/ analysis # None => Sure(analysis)
    /\ out.analysis # None => Sure(out.analysis)
    /\ result # None /\ result.kind = "graph" /\ result.graph.completeness = "COMPLETE" =>
          result.graph.assemblies = {Game}
    /\ pc = "draw" => Plain(story)
    /\ PartialIsSaid

LEMMA PresentedSaysSo ==
    ASSUME Plain(story), Draw
    PROVE  PartialIsSaid'
<1> DEFINE m == Story!MapOf(story)
           s == Story!Presented(story, m)
           risks == Story!RiskCards(story.status, story.cards)
           primary == story.scenarios[1]
           shown == Story!First(3, Story!Checks(story.status, primary))
<1>1. story' = s /\ pc = "draw" /\ pc' = "write-page"
  BY DEF Draw, Step
<1>2. /\ s.status = story.status /\ s.claims = story.claims
      /\ s.risks = risks /\ s.map = m
      /\ s.mission = Story!Mission(story.status, primary, Story!DailyBrief(story.status, primary, m))
  BY DEF Story!Presented, Story!Joined, Plain
<1>3. m.risk = IF risks = <<>> THEN None ELSE risks[1]
  BY DEF Story!MapOf, Story!VisualMap
<1>4. s.mission.steps = shown
      /\ s.mission.state = IF story.status = "PARTIAL" THEN "PARTIAL" ELSE "SUGGESTED"
  BY <1>2 DEF Story!Mission, Story!DailyBrief
<1>5. story.status = "PARTIAL" <=> (risks # <<>> /\ risks[1] = "partial")
  BY RisksSaySo
<1>6. story.status = "PARTIAL" <=> "EVIDENCE_BOUNDARY" \in Range(shown)
  BY ChecksSaySo DEF Range
<1> HIDE DEF s, m, risks, shown
<1>7. s.status = "PARTIAL" <=> (s.risks # <<>> /\ s.risks[1] = "partial")
  BY ONLY <1>2, <1>5
<1>8. s.status = "PARTIAL" <=> s.map.risk = "partial"
  BY ONLY <1>2, <1>3, <1>5, NoneIsNoRisk
<1>9. s.status = "PARTIAL" <=> s.mission.state = "PARTIAL"
  BY ONLY <1>2, <1>4
<1>10. s.status = "PARTIAL" <=> "EVIDENCE_BOUNDARY" \in Range(s.mission.steps)
  BY ONLY <1>2, <1>4, <1>6
<1>11. s.status = "PARTIAL" <=> \A c \in s.claims : c.confidence # "CONFIRMED_STATIC"
  BY <1>2 DEF Plain
<1>12. /\ (story'.status = "PARTIAL") = (story'.risks # <<>> /\ story'.risks[1] = "partial")
       /\ (story'.status = "PARTIAL") = (story'.map.risk = "partial")
       /\ (story'.status = "PARTIAL") = (story'.mission.state = "PARTIAL")
       /\ (story'.status = "PARTIAL") = ("EVIDENCE_BOUNDARY" \in Range(story'.mission.steps))
  BY <1>1, <1>7, <1>8, <1>9, <1>10
<1>13. (story'.status = "PARTIAL") = (\A c \in story'.claims : c.confidence # "CONFIRMED_STATIC")
  BY <1>1, <1>11
<1> QED
  BY <1>12, <1>13 DEF PartialIsSaid, Told

LEMMA SuredInit == ExplainInit => Sured
  BY DEF ExplainInit, Sured, PartialIsSaid, Told, Telling, Writing

LEMMA SuredStep == ASSUME BundleInv, Sured, [ExplainNext]_vars PROVE Sured'
<1> USE DEF Sured
<1>0. out = [f \in Outputs |-> out[f]]
  BY DEF BundleInv, Numbered
<1>1. ASSUME UNCHANGED <<analysis, story>>,
             pc \in Telling \/ pc' \notin Telling, pc = "draw" <=> pc' = "draw"
      PROVE  /\ pc' \in Telling \/ analysis' # None => Sure(analysis')
             /\ pc' = "draw" => Plain(story')
             /\ PartialIsSaid'
  BY <1>1 DEF PartialIsSaid, Told
<1>2. CASE UNCHANGED vars
  BY <1>1, <1>2 DEF vars, diskVars, explainVars
<1>3. CASE ProvenanceStep /\ UNCHANGED explainVars
  <2>1. (pc \notin Telling /\ pc' \notin Telling) \/ pc' = pc
    BY <1>3 DEF ProvenanceStep, EditFile, RebuildCore, BuildStart, BuildFinish, ReadCompile,
       WriteCompile, HoldManifest, ReadContext, CompareTimes, HashOutput, HashDefinition,
       WriteProvenance, Step, Telling, Writing
  <2>2. "draw" \in Telling
    BY DEF Telling
  <2> QED
    BY <1>1, <1>3, <2>1, <2>2 DEF explainVars
<1>4. CASE Begin
  <2>1. pc = "ended" /\ pc' \notin Telling /\ "draw" \in Telling /\ pc' # "draw"
    BY <1>4, FirstSteps DEF Begin, Telling, BundleInv
  <2>2. UNCHANGED <<analysis, story, out>> /\ result' = None
    BY <1>4 DEF Begin
  <2> QED
    BY <1>1, <2>1, <2>2
<1>5. CASE Stop \/ Done
  <2>1. pc' = "ended" /\ analysis' = None /\ story' = None /\ out' = out
        /\ (result' = None \/ result'.kind = "story")
    BY <1>5 DEF Stop, Done, Clear, Step
  <2> QED
    BY <2>1 DEF PartialIsSaid, Told, Telling, Writing
<1>6. CASE Bind \/ AttestOld \/ AttestNew \/ CompareProvenance \/ CheckCurrent
  <2>1. /\ UNCHANGED <<analysis, story, out, result>> /\ pc # "draw" /\ pc' # "draw"
        /\ pc \in Telling \/ pc' \notin Telling
    BY <1>6 DEF Bind, AttestOld, AttestNew, CompareProvenance, CheckCurrent, Step, Telling, Writing
  <2> QED
    BY <1>1, <2>1
<1>7. CASE Analyse
  <2>1. analysis' = Analysis /\ UNCHANGED <<story, out, result>> /\ pc = "analyse"
        /\ pc' = "check-current"
    BY <1>7 DEF Analyse, Step
  <2>2. Sure(analysis')
    BY <2>1, AnalysisIsSure
  <2> QED
    BY <2>1, <2>2 DEF PartialIsSaid, Told
<1>8. CASE ReadAnalysis
  <2>1. analysis' = out.analysis /\ out.analysis # None /\ UNCHANGED <<story, out, result>>
        /\ pc = "read-analysis" /\ pc' = "tell"
    BY <1>8 DEF ReadAnalysis, Step
  <2> QED
    BY <2>1 DEF PartialIsSaid, Told
<1>9. CASE Tell
  <2>1. story' = Story!Facts(analysis, start.intent, Story!View(analysis))
        /\ pc = "tell" /\ pc' = "draw" /\ UNCHANGED <<analysis, out, result>>
    BY <1>9 DEF Tell, Step
  <2>2. Sure(analysis)
    BY <2>1 DEF Telling
  <2>3. Plain(story')
    BY <2>1, <2>2, FactsArePlain
  <2> QED
    BY <2>1, <2>2, <2>3 DEF PartialIsSaid, Told
<1>10. CASE Draw
  <2>1. pc = "draw" /\ pc' = "write-page" /\ UNCHANGED <<analysis, out, result>>
    BY <1>10 DEF Draw, Step
  <2>2. PartialIsSaid'
    BY <1>10, <2>1, PresentedSaysSo
  <2> QED
    BY <2>1, <2>2 DEF Telling
<1>11. CASE WritePage \/ WriteStory \/ WriteAnalysis
  <2>1. /\ UNCHANGED <<analysis, story, result>> /\ pc \in Telling
        /\ pc # "draw" /\ pc' # "draw"
    BY <1>11 DEF WritePage, WriteStory, WriteAnalysis, Write, After, Step, Telling, Writing
  <2>2. out'.analysis = out.analysis \/ out'.analysis = analysis
    BY <1>0, <1>11 DEF WritePage, WriteStory, WriteAnalysis, Write, Outputs
  <2> QED
    BY <1>1, <2>1, <2>2
<1>12. CASE ShowGraph
  <2>1. /\ result' = [kind |-> "graph", graph |-> Unity!AssemblyGraph(LiveRoot, Game)]
        /\ UNCHANGED <<analysis, story, out>> /\ pc = "read-projects" /\ pc' = "ended"
    BY <1>12 DEF ShowGraph, Step
  <2>2. result'.graph.completeness = "COMPLETE" => result'.graph.assemblies = {Game}
    BY <2>1, CompleteGraphIsOne
  <2>3. pc' \notin Telling
    BY <2>1 DEF Telling, Writing
  <2> QED
    BY <1>1, <2>1, <2>2, <2>3
<1> QED
  BY <1>2, <1>3, <1>4, <1>5, <1>6, <1>7, <1>8, <1>9, <1>10, <1>11, <1>12
     DEF ExplainNext, ExplainStep

\* Whatever commands analyse, save and tell again: a FRESH analysis and a COMPLETE assembly
\* graph rest on no output of another assembly (UnityContextBuilder.build, build_graph).
THEOREM FreshIsAlone == ExplainSpec => []FreshStandsAlone
<1>1. ExplainInit => BundleInv /\ Sured
  BY BundleInit, SuredInit
<1>2. BundleInv /\ Sured /\ [ExplainNext]_vars => (BundleInv /\ Sured)'
  BY BundleStep, SuredStep
<1>3. Sured => FreshStandsAlone
  BY DEF Sured, Sure, FreshStandsAlone
<1> QED
  BY <1>1, <1>2, <1>3, PTL DEF ExplainSpec

\* A story of a PARTIAL analysis says so in each of its parts, and one of a FRESH analysis in
\* none (ChangeStoryBuilder.build).
THEOREM PartialStoriesSaySo == ExplainSpec => []PartialIsSaid
<1>1. ExplainInit => BundleInv /\ Sured
  BY BundleInit, SuredInit
<1>2. BundleInv /\ Sured /\ [ExplainNext]_vars => (BundleInv /\ Sured)'
  BY BundleStep, SuredStep
<1>3. Sured => PartialIsSaid
  BY DEF Sured
<1> QED
  BY <1>1, <1>2, <1>3, PTL DEF ExplainSpec

(***************************************************************************)
(* Finite sets.                                                            *)
(***************************************************************************)

\* What a function gives for a finite set is finite.
LEMMA FiniteImage ==
    ASSUME NEW S, IsFiniteSet(S), NEW f, NEW T, \A t \in T : \E s \in S : t = f[s]
    PROVE  IsFiniteSet(T)
<1> DEFINE R == {s \in S : f[s] \in T}
           g == [s \in R |-> f[s]]
<1>1. IsFiniteSet(R)
  BY FS_Subset
<1>2. g \in Surjection(R, T)
  BY DEF Surjection
<1> QED
  BY <1>1, <1>2, FS_Surjection

\* A union of finitely many finite sets is finite.
LEMMA FiniteUnion ==
    ASSUME NEW F, IsFiniteSet(F), \A X \in F : IsFiniteSet(X)
    PROVE  IsFiniteSet(UNION F)
<1> DEFINE Bad == {n \in Nat : \E G \in SUBSET F : Cardinality(G) = n /\ ~IsFiniteSet(UNION G)}
<1> SUFFICES ASSUME ~IsFiniteSet(UNION F) PROVE FALSE
  OBVIOUS
<1>1. Cardinality(F) \in Bad
  BY FS_CardinalityType
<1>2. PICK n \in Bad : \A k \in Bad : n <= k
  BY <1>1, LeastNumber
<1>3. PICK G \in SUBSET F : Cardinality(G) = n /\ ~IsFiniteSet(UNION G)
  BY <1>2
<1>4. IsFiniteSet(G)
  BY FS_Subset
<1>5. G # {}
  <2>1. UNION {} = {}
    OBVIOUS
  <2> QED
    BY <1>3, <2>1, FS_EmptySet
<1>6. PICK X \in G : TRUE
  BY <1>5
<1>7. Cardinality(G \ {X}) = n - 1 /\ n - 1 \in Nat
  <2>1. IsFiniteSet(G \ {X}) /\ Cardinality(G \ {X}) = Cardinality(G) - 1
    BY <1>4, FS_RemoveElement
  <2>2. Cardinality(G \ {X}) \in Nat
    BY <2>1, FS_CardinalityType
  <2> QED
    BY <1>3, <2>1, <2>2
<1>8. IsFiniteSet(UNION (G \ {X}))
  <2>1. n - 1 \notin Bad
    <3> HIDE DEF Bad
    <3>1. n \in Nat /\ n - 1 < n
      BY <1>2 DEF Bad
    <3> QED
      BY <1>2, <1>7, <3>1
  <2>2. G \ {X} \in SUBSET F
    OBVIOUS
  <2> QED
    BY <1>7, <2>1, <2>2
<1>9. UNION G = X \cup UNION (G \ {X})
  BY <1>6
<1>10. IsFiniteSet(X)
  BY <1>6
<1>11. IsFiniteSet(X \cup UNION (G \ {X}))
  BY <1>8, <1>10, FS_Union
<1> QED
  BY <1>3, <1>9, <1>11

(***************************************************************************)
(* The lists of a story.  Sorting a finite set gives its elements, each    *)
(* once, whatever the keys.                                                *)
(***************************************************************************)
LEMMA SameCardinality == ASSUME NEW S PROVE Story!Cardinality(S) = Cardinality(S)
  BY DEF Story!Cardinality, Cardinality

\* f[n] lists the n elements of S that are least by key, the least first.
Sorting(S, key, f, last) ==
    /\ f[0] = <<>>
    /\ \A n \in 1..last :
          f[n] = Append(f[n - 1], Story!Least(S \ Story!Range(f[n - 1]), key))

\* A sorted list lists each element of its set once.
LEMMA SortedIs ==
    ASSUME NEW S, NEW key, NEW last \in Nat, last = Cardinality(S)
    PROVE  \E f : Story!Sorted(S, key) = f[last] /\ Sorting(S, key, f, last)
<1> DEFINE Next(s) == Append(s, Story!Least(S \ Story!Range(s), key))
           Sorts(f, n) == f[0] = <<>> /\ \A k \in 1..n : f[k] = Next(f[k - 1])
           Undefined == {n \in Nat : ~\E f : Sorts(f, n)}
<1> HIDE DEF Next, Sorting
<1>1. Undefined = {}
  <2> SUFFICES ASSUME Undefined # {} PROVE FALSE
    OBVIOUS
  <2>1. PICK m \in Undefined : \A k \in Undefined : m <= k
    BY LeastNumber
  <2>2. m # 0
    <3>1. Sorts([k \in 0..0 |-> <<>>], 0)
      OBVIOUS
    <3> QED
      BY <2>1, <3>1
  <2>3. PICK f : Sorts(f, m - 1)
    <3>1. m \in Nat /\ m - 1 \in Nat /\ m - 1 < m
      BY <2>1, <2>2
    <3>2. m - 1 \notin Undefined
      <4> HIDE DEF Undefined
      <4> QED
        BY <2>1, <3>1
    <3> QED
      BY <3>1, <3>2
  <2> DEFINE g == [k \in 0..m |-> IF k = m THEN Next(f[m - 1]) ELSE f[k]]
  <2>4. Sorts(g, m)
    BY <2>1, <2>2, <2>3
  <2> QED
    BY <2>1, <2>4
<1>2. PICK f : Sorts(f, last)
  BY <1>1
<1> DEFINE h == [k \in 0..last |-> f[k]]
           Body(g) == [k \in 0..last |-> IF k = 0 THEN <<>> ELSE Next(g[k - 1])]
           H == CHOOSE g : g = Body(g)
<1>3. h = Body(h)
  BY <1>2
<1> HIDE DEF h
<1>4. H = Body(H)
  BY <1>3
<1>5. Story!Sorted(S, key) = H[last]
  BY SameCardinality DEF Story!Sorted, Next
<1> HIDE DEF H
<1>6. Sorts(H, last)
  BY <1>4
<1> QED
  BY <1>5, <1>6 DEF Next, Sorting

LEMMA SortedIsAll ==
    ASSUME NEW S, IsFiniteSet(S), NEW key, NEW t, t = Story!Sorted(S, key)
    PROVE  /\ t \in Seq(S) /\ Len(t) = Cardinality(S) /\ Story!Range(t) = S
           /\ \A i, j \in 1..Len(t) : t[i] = t[j] => i = j
<1> DEFINE N == Cardinality(S)
<1>1. N \in Nat
  BY FS_CardinalityType
<1> DEFINE Next(s) == Append(s, Story!Least(S \ Story!Range(s), key))
<1>2. PICK f : t = f[N] /\ f[0] = <<>> /\ \A n \in 1..N : f[n] = Next(f[n - 1])
  <2>1. \E f : Story!Sorted(S, key) = f[N] /\ Sorting(S, key, f, N)
    BY <1>1, SortedIs
  <2> QED
    BY <2>1 DEF Sorting
<1> DEFINE Good(s, n) == /\ s \in Seq(S) /\ Len(s) = n
                         /\ \A i, j \in 1..Len(s) : s[i] = s[j] => i = j
           Bad == {n \in Nat : n <= N /\ ~Good(f[n], n)}
<1>3. Good(<<>>, 0)
  OBVIOUS
<1>4. ASSUME NEW n \in 1..N, NEW s, Good(s, n - 1)
      PROVE  Good(Next(s), n)
  <2>1. s \in [1..(n - 1) -> S] /\ n - 1 \in Nat
    BY <1>1, <1>4
  <2>2. Story!Range(s) = {s[i] : i \in 1..(n - 1)}
    BY <2>1 DEF Story!Range
  <2>3. Story!Range(s) # S
    <3>1. s \in Injection(1..(n - 1), S)
      BY <1>4, <2>1 DEF Injection, IsInjective
    <3>2. Story!Range(s) = S => s \in Surjection(1..(n - 1), S)
      BY <2>1, <2>2 DEF Surjection
    <3>3. Story!Range(s) = S => ExistsBijection(1..(n - 1), S)
      BY <3>1, <3>2 DEF Bijection, ExistsBijection
    <3> QED
      BY <1>1, <1>4, <2>1, <3>3, FS_CountingElements
  <2>4. Story!Range(s) \subseteq S
    BY <2>1, <2>2
  <2> DEFINE x == Story!Least(S \ Story!Range(s), key)
  <2>5. x \in S \ Story!Range(s)
    <3>1. S \ Story!Range(s) # {}
      BY <2>3, <2>4
    <3> QED
      BY <3>1 DEF Story!Least
  <2> HIDE DEF x
  <2> DEFINE u == Append(s, x)
  <2>6. /\ u \in Seq(S) /\ Len(u) = n /\ u[n] = x
        /\ \A i \in 1..(n - 1) : u[i] = s[i] /\ s[i] # x
    BY <1>4, <2>1, <2>2, <2>5
  <2> HIDE DEF u
  <2>7. \A i, j \in 1..n : u[i] = u[j] => i = j
    BY <1>4, <2>1, <2>6
  <2> QED
    BY <2>6, <2>7 DEF u, x
<1> HIDE DEF Good, Next
<1>5. Bad = {}
  <2> SUFFICES ASSUME Bad # {} PROVE FALSE
    OBVIOUS
  <2>1. PICK m \in Bad : \A k \in Bad : m <= k
    BY LeastNumber
  <2>2. m # 0
    BY <1>2, <1>3, <2>1
  <2>3. m \in 1..N /\ m - 1 \in Nat /\ Good(f[m - 1], m - 1)
    BY <1>1, <2>1, <2>2
  <2> QED
    BY <1>2, <1>4, <2>1, <2>3
<1>6. Good(t, N)
  BY <1>1, <1>2, <1>5
<1>7. t \in Injection(1..N, S)
  BY <1>1, <1>6 DEF Good, Injection, IsInjective
<1>8. t \in Surjection(1..N, S)
  <2>1. IsFiniteSet(1..N) /\ Cardinality(1..N) = N
    BY <1>1, FS_Interval
  <2> QED
    BY <1>7, <2>1, FS_Injection
<1>9. Story!Range(t) = S
  BY <1>8 DEF Surjection, Story!Range
<1> QED
  BY <1>6, <1>9 DEF Good

\* A list and the set of what it lists.
LEMMA RangeOf ==
    ASSUME NEW S, NEW s \in Seq(S)
    PROVE  /\ DOMAIN s = 1..Len(s) /\ Len(s) \in Nat /\ Story!Range(s) \subseteq S
           /\ Story!Range(s) = {s[i] : i \in 1..Len(s)} /\ IsFiniteSet(Story!Range(s))
           /\ s \in Seq(Story!Range(s))
<1>1. DOMAIN s = 1..Len(s) /\ Len(s) \in Nat
  OBVIOUS
<1>2. Story!Range(s) = {s[i] : i \in 1..Len(s)} /\ Story!Range(s) \subseteq S
  BY <1>1 DEF Story!Range
<1>3. IsFiniteSet(1..Len(s))
  BY <1>1, FS_Interval
<1>4. IsFiniteSet(Story!Range(s))
  BY <1>2, <1>3, FiniteImage
<1> QED
  BY <1>1, <1>2, <1>4

\* The first elements of a list.
LEMMA FirstIs ==
    ASSUME NEW S, NEW s \in Seq(S), NEW n \in Nat, NEW t, t = Story!First(n, s)
    PROVE  /\ t \in Seq(S) /\ Len(t) <= n /\ Len(t) <= Len(s)
           /\ \A i \in 1..Len(t) : t[i] = s[i]
           /\ Story!Range(t) \subseteq Story!Range(s)
           /\ Len(t) < n \/ Len(s) <= n => t = s
           /\ n > 0 /\ s # <<>> => t # <<>>
<1>1. CASE Len(s) <= n
  BY <1>1 DEF Story!First
<1>2. CASE ~(Len(s) <= n)
  <2>1. t = SubSeq(s, 1, n)
    BY <1>2 DEF Story!First
  <2>2. t \in Seq(S) /\ Len(t) = n /\ \A i \in 1..n : t[i] = s[i]
    BY <1>2, <2>1
  <2>3. DOMAIN t = 1..n /\ DOMAIN s = 1..Len(s) /\ 1..n \subseteq 1..Len(s)
    BY <1>2, <2>2
  <2>4. Story!Range(t) \subseteq Story!Range(s)
    BY ONLY <2>2, <2>3 DEF Story!Range
  <2> QED
    BY <1>2, <2>2, <2>4
<1> QED
  BY <1>1, <1>2

\* Keeping the elements of a set.
LEMMA OnlyIs ==
    ASSUME NEW S, NEW s \in Seq(S), NEW T, NEW t, t = Story!Only(s, T)
    PROVE  /\ t \in Seq(S) /\ Story!Range(t) = Story!Range(s) \cap T /\ Len(t) <= Len(s)
           /\ (\A i, j \in 1..Len(s) : s[i] = s[j] => i = j) =>
                 \A i, j \in 1..Len(t) : t[i] = t[j] => i = j
<1> DEFINE P == {i \in DOMAIN s : s[i] \in T}
           places == Story!Sorted(P, [i \in DOMAIN s |-> <<i>>])
<1>1. DOMAIN s = 1..Len(s) /\ Len(s) \in Nat
  OBVIOUS
<1>2. IsFiniteSet(P) /\ Cardinality(P) <= Len(s)
  <2>1. IsFiniteSet(1..Len(s)) /\ Cardinality(1..Len(s)) = Len(s)
    BY <1>1, FS_Interval
  <2>2. P \in SUBSET (1..Len(s))
    BY <1>1
  <2> QED
    BY <2>1, <2>2, FS_Subset
<1> HIDE DEF P
<1>3. /\ places \in Seq(P) /\ Len(places) = Cardinality(P) /\ Story!Range(places) = P
      /\ \A i, j \in 1..Len(places) : places[i] = places[j] => i = j
  BY <1>2, SortedIsAll
<1>4. t = [j \in DOMAIN places |-> s[places[j]]]
  BY DEF Story!Only, P
<1> HIDE DEF places
<1>5. /\ DOMAIN places = 1..Len(places) /\ Len(places) \in Nat
      /\ P = {places[i] : i \in 1..Len(places)}
      /\ \A i \in 1..Len(places) : places[i] \in P
  BY <1>3, RangeOf
<1>6. \A i \in P : i \in 1..Len(s) /\ s[i] \in T /\ s[i] \in S
  BY <1>1 DEF P
<1>7. t \in Seq(S) /\ Len(t) = Len(places) /\ \A j \in 1..Len(t) : t[j] = s[places[j]]
  BY <1>4, <1>5, <1>6
<1>8. Story!Range(t) = Story!Range(s) \cap T
  <2>1. Story!Range(t) = {t[j] : j \in 1..Len(t)} /\ Story!Range(s) = {s[i] : i \in 1..Len(s)}
    <3>1. DOMAIN t = 1..Len(t)
      BY <1>7
    <3> QED
      BY ONLY <1>1, <3>1 DEF Story!Range
  <2>2. ASSUME NEW x \in Story!Range(s) \cap T PROVE x \in Story!Range(t)
    <3>1. PICK i \in 1..Len(s) : x = s[i]
      BY <2>1, <2>2
    <3>2. i \in P
      BY <1>1, <2>2, <3>1 DEF P
    <3>3. PICK j \in 1..Len(places) : i = places[j]
      BY <1>5, <3>2
    <3> QED
      BY <1>7, <2>1, <3>1, <3>3
  <2>3. \A j \in 1..Len(t) : t[j] \in Story!Range(s) \cap T
    BY <1>5, <1>6, <1>7, <2>1
  <2> QED
    BY <2>1, <2>2, <2>3
<1>9. ASSUME \A i, j \in 1..Len(s) : s[i] = s[j] => i = j,
             NEW i \in 1..Len(t), NEW j \in 1..Len(t), t[i] = t[j]
      PROVE  i = j
  <2>1. s[places[i]] = s[places[j]] /\ places[i] \in 1..Len(s) /\ places[j] \in 1..Len(s)
    BY <1>5, <1>6, <1>7, <1>9
  <2>2. places[i] = places[j]
    BY <1>9, <2>1
  <2> QED
    BY <1>3, <1>7, <2>2
<1> QED
  BY <1>1, <1>2, <1>3, <1>7, <1>8, <1>9

\* Walking a list takes no two that are alike, and no more than the limit.
Walking(s, limit, alike, f) ==
    /\ f[0] = <<>>
    /\ \A n \in 1..Len(s) :
          f[n] = IF Len(f[n - 1]) >= limit \/ \E y \in Story!Range(f[n - 1]) : <<y, s[n]>> \in alike
                 THEN f[n - 1] ELSE Append(f[n - 1], s[n])

LEMMA UnlikeIs ==
    ASSUME NEW s, NEW limit, NEW alike, Len(s) \in Nat
    PROVE  \E f : Story!Unlike(s, limit, alike) = f[Len(s)] /\ Walking(s, limit, alike, f)
<1> DEFINE last == Len(s)
           Next(t, n) == IF Len(t) >= limit \/ \E y \in Story!Range(t) : <<y, s[n]>> \in alike
                         THEN t ELSE Append(t, s[n])
           Walks(f, n) == f[0] = <<>> /\ \A k \in 1..n : f[k] = Next(f[k - 1], k)
           Undefined == {n \in Nat : ~\E f : Walks(f, n)}
<1> HIDE DEF Next
<1>1. Undefined = {}
  <2> SUFFICES ASSUME Undefined # {} PROVE FALSE
    OBVIOUS
  <2>1. PICK m \in Undefined : \A k \in Undefined : m <= k
    BY LeastNumber
  <2>2. m # 0
    <3>1. Walks([k \in 0..0 |-> <<>>], 0)
      OBVIOUS
    <3> QED
      BY <2>1, <3>1
  <2>3. PICK f : Walks(f, m - 1)
    <3>1. m \in Nat /\ m - 1 \in Nat /\ m - 1 < m
      BY <2>1, <2>2
    <3>2. m - 1 \notin Undefined
      <4> HIDE DEF Undefined
      <4> QED
        BY <2>1, <3>1
    <3> QED
      BY <3>1, <3>2
  <2> DEFINE g == [k \in 0..m |-> IF k = m THEN Next(f[m - 1], m) ELSE f[k]]
  <2>4. Walks(g, m)
    BY <2>1, <2>2, <2>3
  <2> QED
    BY <2>1, <2>4
<1>2. PICK f : Walks(f, last)
  BY <1>1
<1> DEFINE h == [k \in 0..last |-> f[k]]
           Body(g) == [k \in 0..last |-> IF k = 0 THEN <<>> ELSE Next(g[k - 1], k)]
           H == CHOOSE g : g = Body(g)
<1>3. h = Body(h)
  BY <1>2
<1> HIDE DEF h
<1>4. H = Body(H)
  BY <1>3
<1>5. Story!Unlike(s, limit, alike) = H[last]
  BY DEF Story!Unlike, Next
<1> HIDE DEF H
<1>6. Walks(H, last)
  BY <1>4
<1> QED
  BY <1>5, <1>6 DEF Next, Walking

\* What such a walk did not take is like something it took, or the limit was reached.
LEMMA UnlikeTakes ==
    ASSUME NEW S, NEW s \in Seq(S), NEW limit \in Nat, NEW alike,
           NEW t, t = Story!Unlike(s, limit, alike)
    PROVE  /\ t \in Seq(S) /\ Len(t) <= limit
           /\ Story!Range(t) \subseteq Story!Range(s)
           /\ \A i, j \in 1..Len(t) : i < j => <<t[i], t[j]>> \notin alike
<1> DEFINE R == Story!Range(s)
<1>1. s \in Seq(R) /\ Len(s) \in Nat /\ R \subseteq S
  BY RangeOf
<1>2. PICK f : t = f[Len(s)] /\ Walking(s, limit, alike, f)
  BY <1>1, UnlikeIs
<1> DEFINE Good(u) == /\ u \in Seq(R) /\ Len(u) <= limit
                      /\ \A i, j \in 1..Len(u) : i < j => <<u[i], u[j]>> \notin alike
           Bad == {n \in Nat : n <= Len(s) /\ ~Good(f[n])}
<1> HIDE DEF R
<1>3. Good(<<>>)
  OBVIOUS
<1>4. ASSUME NEW n \in 1..Len(s), Good(f[n - 1]) PROVE Good(f[n])
  <2>1. CASE f[n] = f[n - 1]
    BY <1>4, <2>1
  <2>2. CASE f[n] # f[n - 1]
    <3> DEFINE u == f[n - 1]
               v == f[n]
    <3>1. v = Append(u, s[n]) /\ ~(Len(u) >= limit) /\ \A y \in Story!Range(u) : <<y, s[n]>> \notin alike
      BY <1>2, <2>2 DEF Walking
    <3>2. s[n] \in R /\ u \in Seq(R)
      BY <1>1, <1>4
    <3>3. \A i \in 1..Len(u) : u[i] \in Story!Range(u)
      <4>1. DOMAIN u = 1..Len(u)
        BY <3>2
      <4> QED
        BY ONLY <4>1 DEF Story!Range
    <3> HIDE DEF u, v
    <3>4. v \in Seq(R) /\ Len(v) = Len(u) + 1 /\ v[Len(v)] = s[n] /\ \A i \in 1..Len(u) : v[i] = u[i]
      BY <3>1, <3>2
    <3>5. \A i, j \in 1..Len(u) : i < j => <<u[i], u[j]>> \notin alike
      BY <1>4 DEF u
    <3>6. Len(u) \in Nat
      BY <3>2
    <3>7. Len(v) <= limit
      BY <3>1, <3>4, <3>6
    <3>8. ASSUME NEW i \in 1..Len(v), NEW j \in 1..Len(v), i < j PROVE <<v[i], v[j]>> \notin alike
      <4>1. CASE j = Len(v)
        BY <3>1, <3>3, <3>4, <3>6, <3>8, <4>1
      <4>2. CASE j # Len(v)
        BY <3>4, <3>5, <3>6, <3>8, <4>2
      <4> QED
        BY <4>1, <4>2
    <3>9. Good(v)
      BY <3>4, <3>7, <3>8
    <3> QED
      BY <3>9 DEF v
  <2> QED
    BY <2>1, <2>2
<1> HIDE DEF Good
<1>5. Bad = {}
  <2> SUFFICES ASSUME Bad # {} PROVE FALSE
    OBVIOUS
  <2>1. PICK m \in Bad : \A k \in Bad : m <= k
    BY LeastNumber
  <2>2. m # 0
    BY <1>2, <1>3, <2>1 DEF Walking
  <2>3. m \in 1..Len(s) /\ m - 1 \in Nat /\ Good(f[m - 1])
    BY <1>1, <2>1, <2>2
  <2> QED
    BY <1>4, <2>1, <2>3
<1>6. Good(t)
  BY <1>1, <1>2, <1>5
<1>7. t \in Seq(S)
  BY <1>1, <1>6 DEF Good
<1>8. Story!Range(t) \subseteq Story!Range(s)
  BY <1>6, RangeOf DEF Good, R
<1> QED
  BY <1>6, <1>7, <1>8 DEF Good

(***************************************************************************)
(* What a command analyses: finite graphs whose relations end at nodes.    *)
(***************************************************************************)

\* The files a command binds: what a compiled path holds is code, or the path is absent.
Sourced(files) ==
    Game \in DOMAIN start.unity.projects =>
        /\ IsFiniteSet(DOMAIN files)
        /\ \A p \in (UNION start.unity.projects[Game].compiles) \cap DOMAIN files :
              files[p] \in DOMAIN Declares \cup {Absent}

\* A finite graph whose relations end at its nodes.
Ending(g) ==
    /\ IsFiniteSet(g.nodes) /\ IsFiniteSet(g.edges)
    /\ \A e \in g.edges : \E n, m \in g.nodes : e.src = Id(n) /\ e.dst = Id(m)

LEMMA GraphEnds ==
    ASSUME NEW files, IsFiniteSet(DOMAIN files), \A p \in DOMAIN files : files[p] \in DOMAIN Declares,
           NEW complete
    PROVE  Ending(GraphOf(files, complete))
<1> DEFINE declared == UNION {{<<p, d>> : d \in Declares[files[p]].nodes} : p \in DOMAIN files}
           HomesOf(d) == {x[1] : x \in {y \in declared : y[2] = d}}
           FirstOf(S) == CHOOSE p \in S : \A q \in S : p <= q
           Symbol(d)  == d.kind \notin Positioned
           Node(p, d) == [kind |-> d.kind, label |-> d.label, at |-> Position(p, d),
                          path |-> IF Symbol(d) THEN FirstOf(HomesOf(d)) ELSE p]
           Ends(p, d) == IF Symbol(d) THEN Cardinality(HomesOf(d)) = 1 ELSE <<p, d>> \in declared
           stated     == UNION {{<<p, r>> : r \in Declares[files[p]].relations} : p \in DOMAIN files}
           resolved   == {x \in stated : Ends(x[1], x[2].src) /\ Ends(x[1], x[2].dst)}
           IdOf(p, d) == <<d.kind, d.label, Position(p, d)>>
           Edge(x)    == [rel |-> x[2].rel, src |-> IdOf(x[1], x[2].src), dst |-> IdOf(x[1], x[2].dst)]
           g          == GraphOf(files, complete)
<1>1. /\ g.nodes = {Node(x[1], x[2]) : x \in declared}
      /\ g.edges = {Edge(x) : x \in resolved}
  BY DEF GraphOf
<1>2. IsFiniteSet(declared)
  <2> DEFINE Of(p) == {<<p, d>> : d \in Declares[files[p]].nodes}
  <2>1. ASSUME NEW p \in DOMAIN files PROVE IsFiniteSet(Of(p))
    <3> DEFINE f == [d \in Declares[files[p]].nodes |-> <<p, d>>]
    <3>1. IsFiniteSet(Declares[files[p]].nodes)
      BY CodeIsFinite
    <3>2. \A t \in Of(p) : \E d \in Declares[files[p]].nodes : t = f[d]
      OBVIOUS
    <3> HIDE DEF f, Of
    <3> QED
      BY <3>1, <3>2, FiniteImage
  <2> DEFINE f == [p \in DOMAIN files |-> Of(p)]
             F == {Of(p) : p \in DOMAIN files}
  <2>2. \A t \in F : \E p \in DOMAIN files : t = f[p]
    OBVIOUS
  <2> HIDE DEF f, Of
  <2>3. IsFiniteSet(F)
    BY <2>2, FiniteImage
  <2>4. \A X \in F : IsFiniteSet(X)
    BY <2>1
  <2>5. IsFiniteSet(UNION F)
    BY <2>3, <2>4, FiniteUnion
  <2> QED
    BY <2>5 DEF Of
<1>3. IsFiniteSet(stated)
  <2> DEFINE Of(p) == {<<p, r>> : r \in Declares[files[p]].relations}
  <2>1. ASSUME NEW p \in DOMAIN files PROVE IsFiniteSet(Of(p))
    <3> DEFINE f == [d \in Declares[files[p]].relations |-> <<p, d>>]
    <3>1. IsFiniteSet(Declares[files[p]].relations)
      BY CodeIsFinite
    <3>2. \A t \in Of(p) : \E d \in Declares[files[p]].relations : t = f[d]
      OBVIOUS
    <3> HIDE DEF f, Of
    <3> QED
      BY <3>1, <3>2, FiniteImage
  <2> DEFINE f == [p \in DOMAIN files |-> Of(p)]
             F == {Of(p) : p \in DOMAIN files}
  <2>2. \A t \in F : \E p \in DOMAIN files : t = f[p]
    OBVIOUS
  <2> HIDE DEF f, Of
  <2>3. IsFiniteSet(F)
    BY <2>2, FiniteImage
  <2>4. \A X \in F : IsFiniteSet(X)
    BY <2>1
  <2>5. IsFiniteSet(UNION F)
    BY <2>3, <2>4, FiniteUnion
  <2> QED
    BY <2>5 DEF Of
<1>4. \A y \in declared : y = <<y[1], y[2]>>
  OBVIOUS
<1> HIDE DEF declared, stated, Ends, HomesOf, FirstOf, Edge
<1>5. IsFiniteSet(g.nodes)
  <2> DEFINE f == [x \in declared |-> Node(x[1], x[2])]
  <2>1. \A t \in g.nodes : \E x \in declared : t = f[x]
    BY <1>1
  <2> HIDE DEF f, g
  <2> QED
    BY <1>2, <2>1, FiniteImage
<1>6. IsFiniteSet(g.edges)
  <2> DEFINE f == [x \in resolved |-> Edge(x)]
  <2>1. \A t \in g.edges : \E x \in resolved : t = f[x]
    BY <1>1
  <2>2. IsFiniteSet(resolved)
    BY <1>3, FS_Subset
  <2> HIDE DEF f, g, resolved
  <2> QED
    BY <2>1, <2>2, FiniteImage
<1>7. ASSUME NEW p, NEW d, Ends(p, d) PROVE \E n \in g.nodes : IdOf(p, d) = Id(n)
  <2>1. CASE Symbol(d)
    <3>1. HomesOf(d) # {}
      BY <1>7, <2>1, FS_EmptySet DEF Ends
    <3>2. PICK y \in declared : y[2] = d
      BY <3>1 DEF HomesOf
    <3>3. Node(y[1], d) \in g.nodes
      BY <1>1, <3>2
    <3>4. Id(Node(y[1], d)) = <<d.kind, d.label, Position(y[1], d)>>
      BY DEF Id
    <3>5. Position(y[1], d) = Position(p, d)
      BY <2>1 DEF Position
    <3> QED
      BY <3>3, <3>4, <3>5
  <2>2. CASE ~Symbol(d)
    <3>1. <<p, d>> \in declared
      BY <1>7, <2>2 DEF Ends
    <3>2. Node(p, d) \in g.nodes
      <4>1. <<p, d>>[1] = p /\ <<p, d>>[2] = d
        OBVIOUS
      <4> QED
        BY <1>1, <3>1, <4>1
    <3>3. Id(Node(p, d)) = IdOf(p, d)
      BY DEF Id
    <3> QED
      BY <3>2, <3>3
  <2> QED
    BY <2>1, <2>2
<1>8. ASSUME NEW e \in g.edges PROVE \E n, m \in g.nodes : e.src = Id(n) /\ e.dst = Id(m)
  <2>1. PICK x \in resolved : e = Edge(x)
    BY <1>1, <1>8
  <2>2. e.src = IdOf(x[1], x[2].src) /\ e.dst = IdOf(x[1], x[2].dst)
    BY <2>1 DEF Edge
  <2>3. \E n \in g.nodes : e.src = Id(n)
    BY ONLY <1>7, <2>1, <2>2
  <2>4. \E n \in g.nodes : e.dst = Id(n)
    BY ONLY <1>7, <2>1, <2>2
  <2> QED
    BY <2>3, <2>4
<1> QED
  BY <1>5, <1>6, <1>8 DEF Ending

LEMMA LaneEnds ==
    ASSUME start \in Starts, Game \in DOMAIN start.unity.projects,
           NEW files, Sourced(files), NEW output
    PROVE  Ending(LaneGraph(Present(files), ContextOf(files, output)))
<1> DEFINE sources == ContextOf(files, output).sources
           compiled == UNION start.unity.projects[Game].compiles
<1>1. sources = compiled \cap (start.unity.files \cup DOMAIN Present(files))
  BY DEF ContextOf, Unity!Context, RootOf
<1>2. compiled \cap start.unity.files = {}
  BY SourcesAreCode
<1>3. DOMAIN Present(files) = {p \in DOMAIN files : files[p] # Absent}
      /\ \A p \in DOMAIN Present(files) : Present(files)[p] = files[p]
  BY DEF Present, Restrict
<1> HIDE DEF sources
<1>4. sources \subseteq compiled \cap DOMAIN Present(files)
  BY <1>1, <1>2
<1> DEFINE kept == Restrict(Present(files), sources)
<1>5. DOMAIN kept = sources /\ \A p \in sources : kept[p] = files[p]
  BY <1>3, <1>4 DEF Restrict
<1>6. IsFiniteSet(DOMAIN kept)
  BY <1>3, <1>4, <1>5, FS_Subset DEF Sourced
<1>7. \A p \in DOMAIN kept : kept[p] \in DOMAIN Declares
  BY <1>3, <1>4, <1>5 DEF Sourced
<1> HIDE DEF kept
<1>8. \A complete : Ending(GraphOf(kept, complete))
  BY <1>6, <1>7, GraphEnds
<1> QED
  BY <1>8 DEF LaneGraph, kept, sources

\* An analysis: two such graphs, the pairs between their nodes, and what these say of each
\* node.
Whole(a) ==
    /\ Ending(a.old) /\ Ending(a.new)
    /\ Exclusive(a.old, a.new, a.diff.mappings)
    /\ Alike(a.diff.labels, a.diff.mappings)
    /\ \A n \in a.old.nodes \ OldOf(a.diff.mappings) : a.diff.labels.old[n] = "REMOVED"
    /\ \A n \in a.new.nodes \ NewOf(a.diff.mappings) : a.diff.labels.new[n] = "ADDED"

\* The analysis of any bound files is whole, whatever was attested.
LEMMA AnalysisIsWhole ==
    ASSUME start \in Starts, Analyse, Sourced(binding.files)
    PROVE  Whole(Analysis)
<1> DEFINE old == LaneGraph(Present(start.base.files), ContextOf(start.base.files, attested.old))
           new == LaneGraph(Present(binding.files), ContextOf(binding.files, attested.new))
           renames == Renames(Present(start.base.files), Present(binding.files))
           diff == Diff(old, new, renames, start.hints)
<1>1. LaneReady(binding.files, attested.new) /\ HintsResolve(old, new, start.hints)
  BY DEF Analyse
<1>2. Game \in DOMAIN start.unity.projects
  BY <1>1 DEF LaneReady, Unity!Buildable, RootOf
<1>3. Sourced(start.base.files)
  BY <1>2, SourcesAreCode DEF Sourced
<1>4. Ending(new)
  BY <1>1, <1>2, LaneEnds
<1>5. Ending(old)
  BY <1>2, <1>3, LaneEnds
<1>6. Analysis.old = old /\ Analysis.new = new /\ Analysis.diff = diff
  BY DEF Analysis
<1> HIDE DEF old, new, renames
<1>7. Len(start.hints) \in Nat
  BY HintsAreList
<1>8. /\ Exclusive(old, new, diff.mappings)
      /\ Alike(diff.labels, diff.mappings)
      /\ \A n \in old.nodes \ OldOf(diff.mappings) : diff.labels.old[n] = "REMOVED"
      /\ \A n \in new.nodes \ NewOf(diff.mappings) : diff.labels.new[n] = "ADDED"
  BY <1>1, <1>7, DiffPairs
<1> QED
  BY <1>4, <1>5, <1>6, <1>8 DEF Whole

(***************************************************************************)
(* The graph that is told.                                                 *)
(***************************************************************************)
Shown(g) ==
    /\ IsFiniteSet(g.nodes) /\ IsFiniteSet(g.edges) /\ IsFiniteSet(g.mappings)
    /\ \A e \in g.edges : /\ e.src \in g.nodes /\ e.src.role = e.role
                          /\ e.dst \in g.nodes /\ e.dst.role = e.role
    /\ \A m \in g.mappings : m.old \in g.nodes /\ m.new \in g.nodes /\ m.old.change = m.new.change
    /\ \A n \in g.nodes : \/ \E m \in g.mappings : n = m.old \/ n = m.new
                          \/ n.change \in {"ADDED", "REMOVED"}

\* The relations of one revision, among the nodes of both.
Stands(own, role, nodes) ==
    \A n \in own.nodes : \E k \in nodes : k.role = role /\ Story!Id(k) = Id(n)
Among(edges, nodes) ==
    /\ IsFiniteSet(edges)
    /\ \A e \in edges : /\ e.src \in nodes /\ e.src.role = e.role
                        /\ e.dst \in nodes /\ e.dst.role = e.role

LEMMA EdgesEnd ==
    ASSUME NEW own, Ending(own), NEW role, NEW changed, NEW change, NEW nodes,
           Stands(own, role, nodes),
           NEW edges, edges = Story!EdgesOf(role, own.edges, changed, change, nodes)
    PROVE  Among(edges, nodes)
<1> DEFINE EndOf(id) == CHOOSE n \in nodes : n.role = role /\ Story!Id(n) = id
           Edge(e) == [role |-> role, rel |-> e.rel, src |-> EndOf(e.src), dst |-> EndOf(e.dst),
                       change |-> IF e \in changed THEN change ELSE "UNCHANGED_CONTEXT"]
           f == [e \in own.edges |-> Edge(e)]
<1>1. edges = {Edge(e) : e \in own.edges}
  BY DEF Story!EdgesOf
<1>2. IsFiniteSet(own.edges)
      /\ \A e \in own.edges : \E n, m \in own.nodes : e.src = Id(n) /\ e.dst = Id(m)
  BY DEF Ending
<1>3. \A t \in edges : \E e \in own.edges : t = f[e]
  BY <1>1
<1>4. IsFiniteSet(edges)
  <2> HIDE DEF f
  <2> QED
    BY <1>2, <1>3, FiniteImage
<1>5. ASSUME NEW n \in own.nodes PROVE EndOf(Id(n)) \in nodes /\ EndOf(Id(n)).role = role
  <2>1. \E k \in nodes : k.role = role /\ Story!Id(k) = Id(n)
    BY DEF Stands
  <2> QED
    BY <2>1
<1>6. \A e : Edge(e).src = EndOf(e.src) /\ Edge(e).dst = EndOf(e.dst) /\ Edge(e).role = role
  OBVIOUS
<1> HIDE DEF Edge, EndOf
<1>7. ASSUME NEW t \in edges
      PROVE  t.src \in nodes /\ t.src.role = t.role /\ t.dst \in nodes /\ t.dst.role = t.role
  <2>1. PICK e \in own.edges : t = Edge(e)
    BY <1>1, <1>7
  <2> QED
    BY <1>2, <1>5, <1>6, <2>1
<1> QED
  BY <1>4, <1>7 DEF Among

LEMMA RelatedIsShown == ASSUME NEW a, Whole(a) PROVE Shown(Story!Relate(a))
<1> DEFINE Old(n) == Story!NodeOf("OLD", n, a.diff.labels.old[n])
           New(n) == Story!NodeOf("NEW", n, a.diff.labels.new[n])
           g == Story!Relate(a)
           nodes == {Old(n) : n \in a.old.nodes} \cup {New(n) : n \in a.new.nodes}
           Mapping(m) == [old |-> Old(m.old), new |-> New(m.new), kind |-> m.kind]
<1>1. /\ g.nodes = nodes
      /\ g.edges = Story!EdgesOf("OLD", a.old.edges, a.diff.removed, "REMOVED", nodes)
                   \cup Story!EdgesOf("NEW", a.new.edges, a.diff.added, "ADDED", nodes)
      /\ g.mappings = {Mapping(m) : m \in a.diff.mappings}
  BY DEF Story!Relate
<1>2. /\ \A n : Old(n).role = "OLD" /\ Old(n).change = a.diff.labels.old[n]
                /\ Story!Id(Old(n)) = Id(n)
      /\ \A n : New(n).role = "NEW" /\ New(n).change = a.diff.labels.new[n]
                /\ Story!Id(New(n)) = Id(n)
  BY DEF Story!NodeOf, Story!Id, Id
<1>3. \A m : Mapping(m).old = Old(m.old) /\ Mapping(m).new = New(m.new)
  OBVIOUS
<1>4. /\ \A n \in a.old.nodes : Old(n) \in nodes
      /\ \A n \in a.new.nodes : New(n) \in nodes
      /\ \A k \in nodes : (\E n \in a.old.nodes : k = Old(n)) \/ (\E n \in a.new.nodes : k = New(n))
  OBVIOUS
<1>5. IsFiniteSet(nodes)
  <2> DEFINE f == [n \in a.old.nodes |-> Old(n)]
             h == [n \in a.new.nodes |-> New(n)]
             left == {Old(n) : n \in a.old.nodes}
             right == {New(n) : n \in a.new.nodes}
  <2>1. \A t \in left : \E n \in a.old.nodes : t = f[n]
    OBVIOUS
  <2>2. \A t \in right : \E n \in a.new.nodes : t = h[n]
    OBVIOUS
  <2>3. IsFiniteSet(a.old.nodes) /\ IsFiniteSet(a.new.nodes)
    BY DEF Whole, Ending
  <2> HIDE DEF f, h, left, right
  <2>4. IsFiniteSet(left)
    BY <2>1, <2>3, FiniteImage
  <2>5. IsFiniteSet(right)
    BY <2>2, <2>3, FiniteImage
  <2>6. IsFiniteSet(left \cup right)
    BY <2>4, <2>5, FS_Union
  <2> QED
    BY <2>6 DEF left, right
<1> HIDE DEF Old, New, Mapping, nodes
<1>6. /\ Exclusive(a.old, a.new, a.diff.mappings) /\ Alike(a.diff.labels, a.diff.mappings)
      /\ Ending(a.old) /\ Ending(a.new)
  BY DEF Whole
<1>7. Among(g.edges, nodes)
  <2> DEFINE before == Story!EdgesOf("OLD", a.old.edges, a.diff.removed, "REMOVED", nodes)
             after == Story!EdgesOf("NEW", a.new.edges, a.diff.added, "ADDED", nodes)
  <2>1. Stands(a.old, "OLD", nodes)
    BY <1>2, <1>4 DEF Stands
  <2>2. Stands(a.new, "NEW", nodes)
    BY <1>2, <1>4 DEF Stands
  <2>3. Among(before, nodes)
    BY <1>6, <2>1, EdgesEnd
  <2>4. Among(after, nodes)
    BY <1>6, <2>2, EdgesEnd
  <2>5. g.edges = before \cup after
    BY <1>1
  <2> HIDE DEF before, after, g
  <2>6. IsFiniteSet(before \cup after)
    BY <2>3, <2>4, FS_Union DEF Among
  <2> QED
    BY <2>3, <2>4, <2>5, <2>6 DEF Among
<1> HIDE DEF g
<1>8. IsFiniteSet(g.mappings)
  <2> DEFINE By(o) == CHOOSE m \in a.diff.mappings : m.old = o
             f == [o \in a.old.nodes |-> Mapping(By(o))]
  <2>1. ASSUME NEW t \in g.mappings PROVE \E o \in a.old.nodes : t = f[o]
    <3>1. PICK m \in a.diff.mappings : t = Mapping(m)
      BY <1>1
    <3>2. m.old \in a.old.nodes /\ By(m.old) = m
      BY <1>6 DEF Exclusive
    <3> QED
      BY <3>1, <3>2
  <2>2. IsFiniteSet(a.old.nodes)
    BY DEF Whole, Ending
  <2> HIDE DEF f
  <2> QED
    BY <2>1, <2>2, FiniteImage
<1>9. ASSUME NEW t \in g.mappings
      PROVE  t.old \in nodes /\ t.new \in nodes /\ t.old.change = t.new.change
  <2>1. PICK m \in a.diff.mappings : t = Mapping(m)
    BY <1>1
  <2>2. m.old \in a.old.nodes /\ m.new \in a.new.nodes
        /\ a.diff.labels.old[m.old] = a.diff.labels.new[m.new]
    BY <1>6 DEF Exclusive, Alike
  <2> QED
    BY <1>2, <1>3, <1>4, <2>1, <2>2
<1>10. ASSUME NEW k \in nodes
       PROVE  \/ \E t \in g.mappings : k = t.old \/ k = t.new
              \/ k.change \in {"ADDED", "REMOVED"}
  <2>1. CASE \E n \in a.old.nodes : k = Old(n)
    <3>1. PICK n \in a.old.nodes : k = Old(n)
      BY <2>1
    <3>2. CASE n \in OldOf(a.diff.mappings)
      <4>1. PICK m \in a.diff.mappings : n = m.old
        BY <3>2 DEF OldOf
      <4>2. Mapping(m) \in g.mappings /\ k = Mapping(m).old
        BY <1>1, <1>3, <3>1, <4>1
      <4> QED
        BY <4>2
    <3>3. CASE n \notin OldOf(a.diff.mappings)
      <4>1. a.diff.labels.old[n] = "REMOVED"
        BY <3>3 DEF Whole
      <4> QED
        BY <1>2, <3>1, <4>1
    <3> QED
      BY <3>2, <3>3
  <2>2. CASE \E n \in a.new.nodes : k = New(n)
    <3>1. PICK n \in a.new.nodes : k = New(n)
      BY <2>2
    <3>2. CASE n \in NewOf(a.diff.mappings)
      <4>1. PICK m \in a.diff.mappings : n = m.new
        BY <3>2 DEF NewOf
      <4>2. Mapping(m) \in g.mappings /\ k = Mapping(m).new
        BY <1>1, <1>3, <3>1, <4>1
      <4> QED
        BY <4>2
    <3>3. CASE n \notin NewOf(a.diff.mappings)
      <4>1. a.diff.labels.new[n] = "ADDED"
        BY <3>3 DEF Whole
      <4> QED
        BY <1>2, <3>1, <4>1
    <3> QED
      BY <3>2, <3>3
  <2> QED
    BY <1>4, <2>1, <2>2
<1> QED
  BY <1>1, <1>5, <1>7, <1>8, <1>9, <1>10 DEF Shown, Among, g

\* With what the reader should look at.
Viewed(g) ==
    /\ Shown(g)
    /\ g.focus \in Seq(g.nodes)
    /\ Story!Range(g.focus) = {n \in g.nodes : ~Story!IsContext(n)}

LEMMA ViewIsShown == ASSUME NEW a, Whole(a), NEW g, g = Story!View(a) PROVE Viewed(g)
<1> DEFINE r == Story!Relate(a)
           S == {n \in r.nodes : ~Story!IsContext(n)}
<1>1. g.nodes = r.nodes /\ g.edges = r.edges /\ g.mappings = r.mappings
      /\ g.focus = Story!FocusNodes(r)
  BY DEF Story!View, Story!Joined, Story!Relate
<1>2. Shown(r)
  BY RelatedIsShown
<1>3. \E key : Story!FocusNodes(r) = Story!Sorted(S, key)
  BY DEF Story!FocusNodes, Story!Ordered
<1> HIDE DEF r
<1>4. IsFiniteSet(S) /\ S \subseteq r.nodes
  BY <1>2, FS_Subset DEF Shown
<1>5. g.focus \in Seq(S) /\ Story!Range(g.focus) = S
  BY <1>1, <1>3, <1>4, SortedIsAll
<1>6. g.focus \in Seq(g.nodes)
  BY <1>1, <1>4, <1>5
<1> QED
  BY <1>1, <1>2, <1>5, <1>6 DEF Viewed, Shown

(***************************************************************************)
(* The scenarios.                                                          *)
(***************************************************************************)
Business(n) == AreaOf(n) \notin {"TEST", "GENERATED"}
Central(g)  == \E n \in g.nodes :
                  ~Context(n) /\ n.kind \in {"TYPE", "METHOD", "STATE", "EVENT"} /\ Business(n)

\* The candidates are nodes that changed; one of a test is there only if no node of the
\* product changed.
LEMMA CandidatesAre ==
    ASSUME NEW g, Viewed(g), NEW c, c = Story!Candidates(g)
    PROVE  /\ c \in Seq(g.nodes)
           /\ Central(g) => \A n \in Story!Range(c) : Business(n)
<1> DEFINE F == {n \in Story!Range(g.focus) : Story!AreaOf(n) # "GENERATED" /\ Story!Subject(n)}
           focus == Story!Only(g.focus, F)
           B == {n \in Story!Range(focus) : Story!AreaOf(n) # "TEST"}
           business == Story!Only(focus, B)
<1>1. c = IF business # <<>> THEN business ELSE focus
  BY DEF Story!Candidates, Story!Where
<1>2. g.focus \in Seq(g.nodes) /\ Story!Range(g.focus) = {n \in g.nodes : ~Story!IsContext(n)}
  BY DEF Viewed
<1> HIDE DEF F, B
<1>3. focus \in Seq(g.nodes) /\ Story!Range(focus) = Story!Range(g.focus) \cap F
  BY <1>2, OnlyIs
<1> HIDE DEF focus
<1>4. business \in Seq(g.nodes) /\ Story!Range(business) = Story!Range(focus) \cap B
  BY <1>3, OnlyIs
<1> HIDE DEF business
<1>5. ASSUME NEW n \in g.nodes, ~Context(n), n.kind \in {"TYPE", "METHOD", "STATE", "EVENT"},
             Business(n)
      PROVE  business # <<>>
  <2>1. n \in Story!Range(focus)
    BY <1>2, <1>3, <1>5 DEF F, Context, Story!IsContext, AreaOf, Story!AreaOf, Story!Subject, Business
  <2>2. n \in Story!Range(business)
    BY <1>4, <1>5, <2>1 DEF B, AreaOf, Story!AreaOf, Business
  <2>3. Story!Range(<<>>) = {}
    BY DEF Story!Range
  <2> QED
    BY <2>2, <2>3
<1>6. \A n \in Story!Range(business) : Business(n)
  BY <1>3, <1>4 DEF F, B, AreaOf, Story!AreaOf, Business
<1> QED
  BY <1>1, <1>3, <1>4, <1>5, <1>6 DEF Central

\* Buckets part the candidates.
LEMMA BucketsAre ==
    ASSUME NEW g, Viewed(g)
    PROVE  /\ IsFiniteSet(Story!Buckets(g))
           /\ \A b \in Story!Buckets(g) : b.nodes \subseteq Story!Range(Story!Candidates(g))
<1> DEFINE c == Story!Candidates(g)
           R == Story!Range(c)
           With(key) == Story!Only(c, {n \in R : Story!ScenarioKey(n) = key})
           bucket(key) == [key |-> key, specific |-> Story!Recipe(With(key)[1]) # None,
                           nodes |-> Story!Range(With(key))]
           keys == {Story!ScenarioKey(n) : n \in R}
           all == {bucket(key) : key \in keys}
           claimed == {Story!AreaKey[Story!AreaOf(n)] :
                          n \in UNION {b.nodes : b \in {x \in all : x.specific}}}
           none == [key |-> "runtime", specific |-> FALSE, nodes |-> {}]
<1>1. Story!Buckets(g) = IF all = {} THEN {none}
                         ELSE {b \in all : b.specific \/ b.key \notin claimed}
  BY DEF Story!Buckets, Story!Where
<1>2. c \in Seq(g.nodes)
  BY CandidatesAre
<1> HIDE DEF c
<1>3. IsFiniteSet(R)
  BY <1>2, RangeOf
<1>4. IsFiniteSet(keys)
  <2> DEFINE f == [n \in R |-> Story!ScenarioKey(n)]
  <2>1. \A t \in keys : \E n \in R : t = f[n]
    OBVIOUS
  <2> HIDE DEF f, keys, R
  <2> QED
    BY <1>3, <2>1, FiniteImage
<1>5. \A key : Story!Range(With(key)) \subseteq R
  <2> TAKE key
  <2> DEFINE T == {n \in R : Story!ScenarioKey(n) = key}
  <2> HIDE DEF T
  <2>1. Story!Range(Story!Only(c, T)) = Story!Range(c) \cap T
    BY <1>2, OnlyIs
  <2> QED
    BY <2>1 DEF T
<1> HIDE DEF With, keys
<1>6. IsFiniteSet(all)
  <2> DEFINE f == [k \in keys |-> bucket(k)]
  <2>1. \A t \in all : \E k \in keys : t = f[k]
    OBVIOUS
  <2> HIDE DEF f, bucket, all
  <2> QED
    BY <1>4, <2>1, FiniteImage
<1>7. \A b \in all : b.nodes \subseteq R
  BY <1>5
<1>8. none.nodes = {}
  OBVIOUS
<1> HIDE DEF all, none, claimed
<1>9. Story!Buckets(g) = {none} \/ Story!Buckets(g) \subseteq all
  BY <1>1
<1>10. IsFiniteSet({none})
  BY FS_Singleton
<1>11. IsFiniteSet(Story!Buckets(g))
  BY <1>6, <1>9, <1>10, FS_Subset
<1>12. \A b \in Story!Buckets(g) : b.nodes \subseteq R
  BY <1>7, <1>8, <1>9
<1> QED
  BY <1>11, <1>12 DEF c

\* The items of one revision: no two of them say the same.
Picked(g, key, role, limit, items) ==
    /\ items \in Seq({n \in g.nodes : n.role = role})
    /\ Len(items) <= limit
    /\ \A i, j \in 1..Len(items) : i < j => Story!Says(key, items[i]) # Story!Says(key, items[j])

LEMMA PickSideIs ==
    ASSUME NEW g, Viewed(g), NEW b, b.nodes \subseteq g.nodes, NEW role, NEW limit \in Nat,
           NEW t, t = Story!PickSide(g, b, role, limit)
    PROVE  Picked(g, b.key, role, limit, t) /\ Story!Range(t) \subseteq b.nodes
<1> DEFINE S == {n \in b.nodes : n.role = role}
           N == {n \in g.nodes : n.role = role}
<1>1. PICK key : LET s == Story!Sorted(S, key)
                     R == Story!Range(s)
                 IN  t = Story!Unlike(s, limit, {p \in R \X R :
                            \/ Story!Compact(p[1]) = Story!Compact(p[2])
                            \/ Story!Says(b.key, p[1]) = Story!Says(b.key, p[2])})
  BY DEF Story!PickSide, Story!Ordered, Story!Distinct
<1> DEFINE s == Story!Sorted(S, key)
           R == Story!Range(s)
           alike == {p \in R \X R : \/ Story!Compact(p[1]) = Story!Compact(p[2])
                                    \/ Story!Says(b.key, p[1]) = Story!Says(b.key, p[2])}
<1>2. t = Story!Unlike(s, limit, alike)
  BY <1>1
<1>3. IsFiniteSet(g.nodes)
  BY DEF Viewed, Shown
<1>4. S \subseteq g.nodes /\ S \subseteq N /\ S \subseteq b.nodes
  OBVIOUS
<1> HIDE DEF S, N
<1>5. IsFiniteSet(S)
  BY <1>3, <1>4, FS_Subset
<1>6. s \in Seq(S) /\ R = S
  BY <1>5, SortedIsAll
<1> HIDE DEF s
<1>7. /\ t \in Seq(S) /\ Len(t) <= limit /\ Story!Range(t) \subseteq R
      /\ \A i, j \in 1..Len(t) : i < j => <<t[i], t[j]>> \notin alike
  <2> HIDE DEF alike
  <2> QED
    BY <1>2, <1>6, UnlikeTakes
<1>8. \A i \in 1..Len(t) : t[i] \in R
  BY <1>6, <1>7
<1>9. ASSUME NEW i \in 1..Len(t), NEW j \in 1..Len(t), i < j
      PROVE  Story!Says(b.key, t[i]) # Story!Says(b.key, t[j])
  <2>1. <<t[i], t[j]>> \notin alike /\ t[i] \in R /\ t[j] \in R
    BY <1>7, <1>8, <1>9
  <2> QED
    BY <2>1
<1>10. t \in Seq(N)
  BY <1>4, <1>7
<1> QED
  BY <1>4, <1>6, <1>7, <1>9, <1>10 DEF Picked, N

\* A scenario shows items of both revisions and relations that changed between them.
Framed(g, scenario) ==
    /\ Picked(g, scenario.key, "OLD", Limit.before, scenario.before)
    /\ Picked(g, scenario.key, "NEW", Limit.after, scenario.after)
    /\ scenario.relationships \in Seq({e \in g.edges : ~Context(e)})

\* What a bucket gives is a scenario.
LEMMA ScenarioIs ==
    ASSUME NEW g, Viewed(g), NEW b \in Story!Buckets(g), NEW scenario, scenario = Story!Scenario(g, b)
    PROVE  /\ Framed(g, scenario)
           /\ Story!Range(scenario.before) \cup Story!Range(scenario.after) \subseteq b.nodes
<1> DEFINE before == Story!PickSide(g, b, "OLD", Limit.before)
           after  == Story!PickSide(g, b, "NEW", Limit.after)
           shown  == Story!Range(before) \cup Story!Range(after)
           E      == {e \in Story!Changed(g) : e.src \in shown /\ e.dst \in shown}
           D      == {e \in g.edges : ~Context(e)}
<1>1. /\ scenario.key = b.key /\ scenario.before = before /\ scenario.after = after
      /\ \E key : scenario.relationships = Story!First(Limit.links, Story!Sorted(E, key))
  BY DEF Story!Scenario, Story!Ordered
<1>2. Limit.before \in Nat /\ Limit.after \in Nat /\ Limit.links \in Nat
  BY LimitsAre
<1>3. b.nodes \subseteq g.nodes
  <2>1. b.nodes \subseteq Story!Range(Story!Candidates(g))
    BY BucketsAre
  <2>2. Story!Candidates(g) \in Seq(g.nodes)
    BY CandidatesAre
  <2>3. Story!Range(Story!Candidates(g)) \subseteq g.nodes
    BY <2>2, RangeOf
  <2> QED
    BY <2>1, <2>3
<1>4. Picked(g, b.key, "OLD", Limit.before, before) /\ Story!Range(before) \subseteq b.nodes
  BY <1>2, <1>3, PickSideIs
<1>5. Picked(g, b.key, "NEW", Limit.after, after) /\ Story!Range(after) \subseteq b.nodes
  BY <1>2, <1>3, PickSideIs
<1> HIDE DEF before, after
<1>6. E \subseteq D /\ D \subseteq g.edges
  BY DEF Story!Changed, Story!IsContext, Context
<1>7. IsFiniteSet(g.edges)
  BY DEF Viewed, Shown
<1> HIDE DEF E, D
<1>8. IsFiniteSet(E)
  BY <1>6, <1>7, FS_Subset
<1>9. PICK key : scenario.relationships = Story!First(Limit.links, Story!Sorted(E, key))
  BY <1>1
<1>10. Story!Sorted(E, key) \in Seq(E)
  BY <1>8, SortedIsAll
<1>11. scenario.relationships \in Seq(E)
  BY <1>2, <1>9, <1>10, FirstIs
<1>12. scenario.relationships \in Seq(D)
  BY <1>6, <1>11
<1> QED
  BY <1>1, <1>4, <1>5, <1>12 DEF Framed, D

\* The scenarios of a story, and what tests may displace.
Scenarios(g, s) ==
    \A i \in 1..Len(s) :
        /\ Framed(g, s[i])
        /\ Central(g) => \A n \in Story!Range(s[i].before) \cup Story!Range(s[i].after) : Business(n)

LEMMA ScenariosAre ==
    ASSUME NEW g, Viewed(g), NEW s, s = Story!ScenarioLens(g)
    PROVE  s # <<>> /\ DOMAIN s = 1..Len(s) /\ Len(s) \in Nat /\ Scenarios(g, s)
<1> DEFINE B == Story!Buckets(g)
           r == Story!Ranking(g)
<1>1. s = [i \in DOMAIN r |-> Story!Scenario(g, r[i])]
  BY DEF Story!ScenarioLens
<1>2. PICK key : r = Story!First(Limit.scenarios, Story!Sorted(B, key))
  BY DEF Story!Ranking, Story!Ordered
<1>3. IsFiniteSet(B) /\ \A b \in B : b.nodes \subseteq Story!Range(Story!Candidates(g))
  BY BucketsAre
<1>4. B # {}
  <2> DEFINE c == Story!Candidates(g)
             R == Story!Range(c)
  <2> QED
    BY DEF Story!Buckets
<1> HIDE DEF B, r
<1>5. Story!Sorted(B, key) \in Seq(B) /\ Story!Range(Story!Sorted(B, key)) = B
  BY <1>3, SortedIsAll
<1>6. Limit.scenarios \in Nat /\ Limit.scenarios > 0
  BY LimitsAre
<1>7. Story!Sorted(B, key) # <<>>
  <2>1. Story!Range(<<>>) = {}
    BY DEF Story!Range
  <2> QED
    BY <1>4, <1>5, <2>1
<1>8. r \in Seq(B) /\ r # <<>>
  BY <1>2, <1>5, <1>6, <1>7, FirstIs
<1>9. DOMAIN r = 1..Len(r) /\ Len(r) \in Nat /\ Len(r) # 0
  BY <1>8
<1>10. DOMAIN s = 1..Len(s) /\ Len(s) = Len(r) /\ s # <<>>
  BY <1>1, <1>9
<1>11. ASSUME NEW i \in 1..Len(s)
       PROVE  /\ Framed(g, s[i])
              /\ Central(g) => \A n \in Story!Range(s[i].before) \cup Story!Range(s[i].after) : Business(n)
  <2>1. r[i] \in B /\ s[i] = Story!Scenario(g, r[i])
    BY <1>1, <1>8, <1>9, <1>10
  <2>2. /\ Framed(g, s[i])
        /\ Story!Range(s[i].before) \cup Story!Range(s[i].after) \subseteq r[i].nodes
    BY <2>1, ScenarioIs DEF B
  <2>3. r[i].nodes \subseteq Story!Range(Story!Candidates(g))
    BY <1>3, <2>1
  <2>4. Central(g) => \A n \in Story!Range(Story!Candidates(g)) : Business(n)
    BY CandidatesAre
  <2> QED
    BY <2>2, <2>3, <2>4
<1> QED
  BY <1>9, <1>10, <1>11 DEF Scenarios

(***************************************************************************)
(* The storyboard.                                                         *)
(***************************************************************************)

\* One slot for each item before, with the items after that say the same, then one for
\* each item after (in left) that no item before says.
Slotted(scenario, left, slots) ==
    LET Says(n) == Story!Says(scenario.key, n)
        last    == Len(scenario.before)
    IN  /\ DOMAIN left = 1..Len(left) /\ Len(left) \in Nat
        /\ \A i, j \in 1..Len(left) : left[i] = left[j] => i = j
        /\ Story!Range(left) = {n \in Story!Range(scenario.after) :
                                   \A o \in Story!Range(scenario.before) : Says(o) # Says(n)}
        /\ DOMAIN slots = 1..(last + Len(left))
        /\ \A i \in 1..last :
              /\ slots[i].before = {scenario.before[i]}
              /\ slots[i].after = {n \in Story!Range(scenario.after) : Says(scenario.before[i]) = Says(n)}
        /\ \A j \in 1..Len(left) :
              slots[last + j].before = {} /\ slots[last + j].after = {left[j]}

\* One list is another and a third after it.
Joins(u, s, t) ==
    /\ Len(u) = Len(s) + Len(t) /\ DOMAIN u = 1..Len(u)
    /\ \A i \in 1..Len(s) : u[i] = s[i]
    /\ \A j \in 1..Len(t) : u[Len(s) + j] = t[j]

LEMMA Concatenated ==
    ASSUME NEW S, NEW s \in Seq(S), NEW t \in Seq(S), NEW u, u = s \o t
    PROVE  u \in Seq(S) /\ Joins(u, s, t)
  BY DEF Joins

\* A list of a finite set.
LEMMA ListOf ==
    ASSUME NEW S, NEW n \in Nat, NEW s, s = [i \in 1..n |-> s[i]], \A i \in 1..n : s[i] \in S
    PROVE  s \in Seq(S) /\ Len(s) = n
<1>1. s \in [1..n -> S]
  OBVIOUS
<1> QED
  BY <1>1

\* No two items of the list say the same.
Different(key, items) ==
    \A i, j \in 1..Len(items) : Story!Says(key, items[i]) = Story!Says(key, items[j]) => i = j

\* What was picked for a side is picked once.
LEMMA PickedOnce ==
    ASSUME NEW g, NEW key, NEW role, NEW limit, NEW items, Picked(g, key, role, limit, items)
    PROVE  /\ DOMAIN items = 1..Len(items) /\ Len(items) \in Nat /\ Len(items) <= limit
           /\ items \in Seq({n \in g.nodes : n.role = role})
           /\ Different(key, items)
<1>1. DOMAIN items = 1..Len(items) /\ Len(items) \in Nat
  BY DEF Picked
<1>2. ASSUME NEW i \in 1..Len(items), NEW j \in 1..Len(items),
             Story!Says(key, items[i]) = Story!Says(key, items[j])
      PROVE  i = j
  <2>1. ~(i < j) /\ ~(j < i)
    BY <1>2 DEF Picked
  <2> QED
    BY <1>1, <2>1
<1> QED
  BY <1>1, <1>2 DEF Picked, Different

\* The slots of a scenario are its items before and those of its items after that say
\* something else.
LEMMA SlotsAre ==
    ASSUME NEW g, NEW scenario, Framed(g, scenario), NEW slots, slots = Story!Slots(scenario)
    PROVE  \E left : Slotted(scenario, left, slots)
<1> DEFINE before == scenario.before
           after == scenario.after
           Says(n) == Story!Says(scenario.key, n)
           Match(o) == {n \in Story!Range(after) : Says(o) = Says(n)}
           alone == {n \in Story!Range(after) : \A o \in Story!Range(before) : ~(Says(o) = Says(n))}
           left == Story!Only(after, alone)
           paired == [i \in DOMAIN before |-> Story!Slot({before[i]}, Match(before[i]))]
           rest == [i \in DOMAIN left |-> Story!Slot({}, {left[i]})]
           whole == paired \o rest
<1>1. slots = Story!First(7, whole)
  BY DEF Story!Slots, Story!Where
<1>0. /\ Picked(g, scenario.key, "OLD", Limit.before, before)
      /\ Picked(g, scenario.key, "NEW", Limit.after, after)
  BY DEF Framed
<1>2. /\ DOMAIN before = 1..Len(before) /\ Len(before) \in Nat /\ Len(before) <= Limit.before
  BY <1>0, PickedOnce
<1>3. /\ DOMAIN after = 1..Len(after) /\ Len(after) \in Nat /\ Len(after) <= Limit.after
      /\ after \in Seq({n \in g.nodes : n.role = "NEW"})
      /\ Different(scenario.key, after)
  BY <1>0, PickedOnce
<1>4. \A i, j \in 1..Len(after) : after[i] = after[j] => i = j
  BY <1>3 DEF Different
<1> HIDE DEF Says, Match
<1>5. /\ left \in Seq({n \in g.nodes : n.role = "NEW"}) /\ Story!Range(left) = Story!Range(after) \cap alone
      /\ Len(left) <= Len(after)
      /\ \A i, j \in 1..Len(left) : left[i] = left[j] => i = j
  <2> HIDE DEF alone
  <2> QED
    BY <1>3, <1>4, OnlyIs
<1>6. Story!Range(left) = alone
  BY <1>5
<1> HIDE DEF left, alone
<1>7. DOMAIN left = 1..Len(left) /\ Len(left) \in Nat
  BY <1>5
<1> DEFINE S == {paired[i] : i \in 1..Len(before)} \cup {rest[i] : i \in 1..Len(left)}
<1>8. paired \in Seq(S) /\ Len(paired) = Len(before)
  <2>1. paired = [i \in 1..Len(before) |-> paired[i]] /\ \A i \in 1..Len(before) : paired[i] \in S
    BY <1>2
  <2> HIDE DEF S, paired
  <2> QED
    BY <1>2, <2>1, ListOf
<1>9. rest \in Seq(S) /\ Len(rest) = Len(left)
  <2>1. rest = [i \in 1..Len(left) |-> rest[i]] /\ \A i \in 1..Len(left) : rest[i] \in S
    BY <1>7
  <2> HIDE DEF S, rest
  <2> QED
    BY <1>7, <2>1, ListOf
<1>10. /\ \A i \in 1..Len(before) : paired[i].before = {before[i]} /\ paired[i].after = Match(before[i])
       /\ \A j \in 1..Len(left) : rest[j].before = {} /\ rest[j].after = {left[j]}
  BY <1>2, <1>7 DEF Story!Slot
<1> HIDE DEF paired, rest, S
<1>11. /\ whole \in Seq(S) /\ Len(whole) = Len(before) + Len(left) /\ DOMAIN whole = 1..Len(whole)
       /\ \A i \in 1..Len(before) : whole[i] = paired[i]
       /\ \A j \in 1..Len(left) : whole[Len(before) + j] = rest[j]
  <2>1. whole \in Seq(S) /\ Joins(whole, paired, rest)
    <3>1. whole = paired \o rest
      OBVIOUS
    <3> HIDE DEF whole
    <3> QED
      BY <1>8, <1>9, <3>1, Concatenated
  <2> QED
    BY <1>8, <1>9, <2>1 DEF Joins
<1> HIDE DEF whole
<1>12. Len(whole) <= 7
  <2>1. Limit.before \in Nat /\ Limit.after \in Nat /\ Limit.before + Limit.after <= 7
    BY LimitsAre
  <2> QED
    BY <1>2, <1>3, <1>5, <1>7, <1>11, <2>1
<1>13. slots = whole
  BY <1>1, <1>12 DEF Story!First
<1> HIDE DEF before, after
<1>14. /\ DOMAIN slots = 1..(Len(before) + Len(left))
       /\ \A i \in 1..Len(before) : slots[i].before = {before[i]} /\ slots[i].after = Match(before[i])
       /\ \A j \in 1..Len(left) :
             slots[Len(before) + j].before = {} /\ slots[Len(before) + j].after = {left[j]}
  BY <1>10, <1>11, <1>13
<1>15. Slotted(scenario, left, slots)
  BY ONLY <1>5, <1>6, <1>7, <1>14 DEF Slotted, before, after, Match, Says, alone
<1> QED
  BY <1>15

\* Each item is in one slot of its revision.
LEMMA ItemsInOneSlot ==
    ASSUME NEW g, NEW scenario, Framed(g, scenario), NEW slots, slots = Story!Slots(scenario)
    PROVE  /\ \A n \in Range(scenario.before) : Cardinality({i \in DOMAIN slots : n \in slots[i].before}) = 1
           /\ \A n \in Range(scenario.after) : Cardinality({i \in DOMAIN slots : n \in slots[i].after}) = 1
<1> DEFINE before == scenario.before
           after == scenario.after
           Says(n) == Story!Says(scenario.key, n)
<1>1. PICK left : Slotted(scenario, left, slots)
  BY SlotsAre
<1>0. /\ Picked(g, scenario.key, "OLD", Limit.before, before)
      /\ Picked(g, scenario.key, "NEW", Limit.after, after)
  BY DEF Framed
<1>2. /\ DOMAIN before = 1..Len(before) /\ Len(before) \in Nat
      /\ \A i, j \in 1..Len(before) : Says(before[i]) = Says(before[j]) => i = j
  <2>1. DOMAIN before = 1..Len(before) /\ Len(before) \in Nat /\ Different(scenario.key, before)
    BY <1>0, PickedOnce
  <2> QED
    BY <2>1 DEF Different
<1>3. DOMAIN after = 1..Len(after)
  BY <1>0, PickedOnce
<1>4. /\ DOMAIN left = 1..Len(left) /\ Len(left) \in Nat
      /\ \A i, j \in 1..Len(left) : left[i] = left[j] => i = j
      /\ Story!Range(left) = {n \in Story!Range(after) : \A o \in Story!Range(before) : Says(o) # Says(n)}
      /\ DOMAIN slots = 1..(Len(before) + Len(left))
      /\ \A i \in 1..Len(before) :
            slots[i].before = {before[i]} /\ slots[i].after = {n \in Story!Range(after) : Says(before[i]) = Says(n)}
      /\ \A j \in 1..Len(left) :
            slots[Len(before) + j].before = {} /\ slots[Len(before) + j].after = {left[j]}
  BY <1>1 DEF Slotted
<1>5. Range(before) = Story!Range(before) /\ Range(after) = Story!Range(after)
  BY DEF Range, Story!Range
<1>6. /\ \A n \in Story!Range(before) : \E i \in 1..Len(before) : n = before[i]
      /\ \A i \in 1..Len(before) : before[i] \in Story!Range(before)
      /\ \A n \in Story!Range(left) : \E i \in 1..Len(left) : n = left[i]
      /\ \A i \in 1..Len(left) : left[i] \in Story!Range(left)
  BY <1>2, <1>4 DEF Story!Range
<1>7. \A i \in DOMAIN slots : i \in 1..Len(before)
          \/ (i - Len(before) \in 1..Len(left) /\ i = Len(before) + (i - Len(before)))
  BY <1>2, <1>4
<1> HIDE DEF before, after, Says
<1>8. ASSUME NEW n \in Story!Range(before)
      PROVE  \E k : {i \in DOMAIN slots : n \in slots[i].before} = {k}
  <2>1. PICK k \in 1..Len(before) : n = before[k]
    BY <1>6
  <2>2. k \in DOMAIN slots /\ n \in slots[k].before
    BY <1>2, <1>4, <2>1
  <2>3. ASSUME NEW i \in DOMAIN slots, n \in slots[i].before PROVE i = k
    <3>1. CASE i \in 1..Len(before)
      <4>1. before[i] = n
        BY <1>4, <2>3, <3>1
      <4> QED
        BY <1>2, <2>1, <3>1, <4>1
    <3>2. CASE i - Len(before) \in 1..Len(left) /\ i = Len(before) + (i - Len(before))
      BY <1>4, <2>3, <3>2
    <3> QED
      BY <1>7, <3>1, <3>2
  <2> QED
    BY <2>2, <2>3
<1>9. ASSUME NEW n \in Story!Range(after)
      PROVE  \E k : {i \in DOMAIN slots : n \in slots[i].after} = {k}
  <2>1. CASE \E o \in Story!Range(before) : Says(o) = Says(n)
    <3>1. PICK k \in 1..Len(before) : Says(before[k]) = Says(n)
      BY <1>6, <2>1
    <3>2. k \in DOMAIN slots /\ n \in slots[k].after
      BY <1>2, <1>4, <1>9, <3>1
    <3>3. ASSUME NEW i \in DOMAIN slots, n \in slots[i].after PROVE i = k
      <4>1. CASE i \in 1..Len(before)
        <5>1. Says(before[i]) = Says(n)
          BY <1>4, <3>3, <4>1
        <5> QED
          BY <1>2, <3>1, <4>1, <5>1
      <4>2. CASE i - Len(before) \in 1..Len(left) /\ i = Len(before) + (i - Len(before))
        <5> DEFINE j == i - Len(before)
        <5>1. left[j] = n /\ j \in 1..Len(left)
          BY <1>4, <3>3, <4>2
        <5>2. n \in Story!Range(left)
          BY <1>6, <5>1
        <5> QED
          BY <1>4, <2>1, <5>2
      <4> QED
        BY <1>7, <4>1, <4>2
    <3> QED
      BY <3>2, <3>3
  <2>2. CASE ~\E o \in Story!Range(before) : Says(o) = Says(n)
    <3>1. PICK j \in 1..Len(left) : n = left[j]
      BY <1>4, <1>6, <1>9, <2>2
    <3>2. Len(before) + j \in DOMAIN slots /\ n \in slots[Len(before) + j].after
      BY <1>2, <1>4, <3>1
    <3>3. ASSUME NEW i \in DOMAIN slots, n \in slots[i].after PROVE i = Len(before) + j
      <4>1. CASE i \in 1..Len(before)
        <5>1. Says(before[i]) = Says(n)
          BY <1>4, <3>3, <4>1
        <5> QED
          BY <1>6, <2>2, <4>1, <5>1
      <4>2. CASE i - Len(before) \in 1..Len(left) /\ i = Len(before) + (i - Len(before))
        <5> DEFINE m == i - Len(before)
        <5>1. left[m] = n /\ m \in 1..Len(left)
          BY <1>4, <3>3, <4>2
        <5>2. m = j
          BY <1>4, <3>1, <5>1
        <5> QED
          BY <4>2, <5>2
      <4> QED
        BY <1>7, <4>1, <4>2
    <3> QED
      BY <3>2, <3>3
  <2> QED
    BY <2>1, <2>2
<1>10. \A k : Cardinality({k}) = 1
  BY FS_Singleton
<1>11. ASSUME NEW n \in Range(before) PROVE Cardinality({i \in DOMAIN slots : n \in slots[i].before}) = 1
  BY <1>5, <1>8, <1>10
<1>12. ASSUME NEW n \in Range(after) PROVE Cardinality({i \in DOMAIN slots : n \in slots[i].after}) = 1
  BY <1>5, <1>9, <1>10
<1> QED
  BY <1>11, <1>12 DEF before, after

\* An arrow is a relation of the scenario, between slots that hold its ends.
Arrow(g, slots, c) ==
    /\ c.edge \in g.edges /\ ~Context(c.edge)
    /\ c.edge.src \in slots[c.src].before \cup slots[c.src].after
    /\ c.edge.dst \in slots[c.dst].before \cup slots[c.dst].after
    /\ "BEFORE" \in c.views => c.edge.role = "OLD"
    /\ "AFTER" \in c.views => c.edge.role = "NEW"

LEMMA ConnectorsAre ==
    ASSUME NEW g, Viewed(g), NEW scenario, Framed(g, scenario), NEW slots,
           NEW c \in Range(Story!Connectors(scenario, slots))
    PROVE  Arrow(g, slots, c)
<1> DEFINE before == scenario.before
           after == scenario.after
           links == scenario.relationships
           SlotOf(n) == {i \in DOMAIN slots : n \in slots[i].before \cup slots[i].after}
           T == {x \in Story!Range(links) : SlotOf(x.src) # {} /\ SlotOf(x.dst) # {}}
           placed == Story!Only(links, T)
           arrow(e) == [edge |-> e, src |-> CHOOSE i \in SlotOf(e.src) : TRUE,
                        dst |-> CHOOSE i \in SlotOf(e.dst) : TRUE,
                        views |-> Story!ViewsOf(scenario, slots, e)]
           arrows == [i \in DOMAIN placed |-> arrow(placed[i])]
           E == {e \in g.edges : ~Context(e)}
<1>1. Story!Connectors(scenario, slots) = <<>>
      \/ Story!Connectors(scenario, slots) = Story!First(6, arrows)
  BY DEF Story!Connectors, Story!Where
<1>2. links \in Seq(E)
  BY DEF Framed
<1> HIDE DEF T, E
<1>3. placed \in Seq(E) /\ Story!Range(placed) = Story!Range(links) \cap T
  BY <1>2, OnlyIs
<1> HIDE DEF placed, links
<1> DEFINE A == {arrow(e) : e \in Story!Range(placed)}
<1>4. DOMAIN placed = 1..Len(placed) /\ Len(placed) \in Nat
  BY <1>3
<1>5. arrows \in Seq(A)
  <2>1. arrows = [i \in 1..Len(placed) |-> arrows[i]] /\ \A i \in 1..Len(placed) : arrows[i] \in A
    BY <1>4 DEF Story!Range
  <2> HIDE DEF arrows, A
  <2> QED
    BY <1>4, <2>1, ListOf
<1> HIDE DEF arrows, A
<1>6. c \in A
  <2> DEFINE s == Story!Connectors(scenario, slots)
  <2>1. s \in Seq(A)
    <3>1. CASE s = <<>>
      BY <3>1
    <3>2. CASE s = Story!First(6, arrows)
      BY <1>5, <3>2, FirstIs
    <3> QED
      BY <1>1, <3>1, <3>2
  <2> HIDE DEF s
  <2>2. DOMAIN s = 1..Len(s)
    BY <2>1
  <2>3. c \in Range(s)
    BY DEF s
  <2>4. PICK i \in 1..Len(s) : c = s[i]
    BY <2>2, <2>3 DEF Range
  <2> QED
    BY <2>1, <2>4
<1>7. PICK e \in Story!Range(placed) : c = arrow(e)
  BY <1>6 DEF A
<1>8. e \in E /\ e \in T
  <2>1. Story!Range(placed) \subseteq E
    BY <1>3, RangeOf
  <2> QED
    BY <1>3, <1>7, <2>1
<1>9. e \in g.edges /\ ~Context(e)
  BY <1>8 DEF E
<1>10. SlotOf(e.src) # {} /\ SlotOf(e.dst) # {}
  BY <1>8 DEF T
<1>11. c.edge = e /\ c.src \in SlotOf(e.src) /\ c.dst \in SlotOf(e.dst)
       /\ c.views = Story!ViewsOf(scenario, slots, e)
  BY <1>7, <1>10
<1> HIDE DEF arrow
<1>12. e.src.role = e.role
  BY <1>9 DEF Viewed, Shown
<1>13. Story!Range(before) \subseteq {n \in g.nodes : n.role = "OLD"}
  <2>1. before \in Seq({n \in g.nodes : n.role = "OLD"})
    BY DEF Framed, Picked
  <2> QED
    BY <2>1, RangeOf
<1>14. Story!Range(after) \subseteq {n \in g.nodes : n.role = "NEW"}
  <2>1. after \in Seq({n \in g.nodes : n.role = "NEW"})
    BY DEF Framed, Picked
  <2> QED
    BY <2>1, RangeOf
<1>15. ("BEFORE" \in c.views => e.src \in Story!Range(before))
       /\ ("AFTER" \in c.views => e.src \in Story!Range(after))
  BY <1>11, <1>12, <1>13, <1>14 DEF Story!ViewsOf
<1>16. "BEFORE" \in c.views => e.role = "OLD"
  BY <1>12, <1>13, <1>15
<1>17. "AFTER" \in c.views => e.role = "NEW"
  BY <1>12, <1>14, <1>15
<1> QED
  BY <1>9, <1>11, <1>16, <1>17 DEF Arrow

(***************************************************************************)
(* The list of changes.                                                    *)
(***************************************************************************)

\* Every changed node is in the list of changes, unless the list is at its cap.
Listing(g, changes) ==
    Len(changes) < Limit.changes =>
        \A n \in g.nodes : ~Context(n) => \E i \in DOMAIN changes : n \in changes[i].nodes

LEMMA ChangesAreListed ==
    ASSUME NEW g, Viewed(g), NEW changes, changes = Story!ChangesOf(g)
    PROVE  Listing(g, changes)
<1> DEFINE pairs == {m \in g.mappings : Story!Renaming(m) \/ ~Story!IsContext(m.old)}
           paired == UNION {{m.old, m.new} : m \in g.mappings}
           single == {n \in g.nodes \ paired : n.change \in {"ADDED", "REMOVED"}}
           Both(m) == [kind |-> IF Story!Renaming(m) THEN m.kind ELSE m.old.change,
                       nodes |-> {m.old, m.new}]
           Alone(n) == [kind |-> n.change, nodes |-> {n}]
<1>1. PICK told, rest :
          /\ \E key : told = Story!Sorted(pairs, key)
          /\ \E key : rest = Story!Sorted(single, key)
          /\ changes = Story!First(Limit.changes, [i \in DOMAIN told |-> Both(told[i])]
                                                  \o [i \in DOMAIN rest |-> Alone(rest[i])])
  BY DEF Story!ChangesOf, Story!Entries, Story!Ordered
<1>2. IsFiniteSet(pairs) /\ IsFiniteSet(single)
  <2>1. IsFiniteSet(g.mappings) /\ IsFiniteSet(g.nodes)
    BY DEF Viewed, Shown
  <2>2. pairs \subseteq g.mappings /\ single \subseteq g.nodes
    OBVIOUS
  <2> HIDE DEF pairs, single
  <2> QED
    BY <2>1, <2>2, FS_Subset
<1> HIDE DEF pairs, single
<1>3. told \in Seq(pairs) /\ Story!Range(told) = pairs
  BY <1>1, <1>2, SortedIsAll
<1>4. rest \in Seq(single) /\ Story!Range(rest) = single
  BY <1>1, <1>2, SortedIsAll
<1> DEFINE one == [i \in DOMAIN told |-> Both(told[i])]
           two == [i \in DOMAIN rest |-> Alone(rest[i])]
           whole == one \o two
           S == {Both(told[i]) : i \in 1..Len(told)} \cup {Alone(rest[i]) : i \in 1..Len(rest)}
<1>5. /\ DOMAIN told = 1..Len(told) /\ Len(told) \in Nat
      /\ DOMAIN rest = 1..Len(rest) /\ Len(rest) \in Nat
  BY <1>3, <1>4
<1>6. one \in Seq(S) /\ Len(one) = Len(told) /\ \A i \in 1..Len(told) : one[i].nodes = {told[i].old, told[i].new}
  <2>1. /\ one = [i \in 1..Len(told) |-> one[i]] /\ \A i \in 1..Len(told) : one[i] \in S
        /\ \A i \in 1..Len(told) : one[i].nodes = {told[i].old, told[i].new}
    BY <1>5
  <2> HIDE DEF one, S
  <2> QED
    BY <1>5, <2>1, ListOf
<1>7. two \in Seq(S) /\ Len(two) = Len(rest) /\ \A i \in 1..Len(rest) : two[i].nodes = {rest[i]}
  <2>1. /\ two = [i \in 1..Len(rest) |-> two[i]] /\ \A i \in 1..Len(rest) : two[i] \in S
        /\ \A i \in 1..Len(rest) : two[i].nodes = {rest[i]}
    BY <1>5
  <2> HIDE DEF two, S
  <2> QED
    BY <1>5, <2>1, ListOf
<1>8. changes = Story!First(Limit.changes, whole)
  BY <1>1
<1> HIDE DEF one, two, S
<1>9. whole \in Seq(S) /\ Joins(whole, one, two)
  <2>1. whole = one \o two
    OBVIOUS
  <2> HIDE DEF whole
  <2> QED
    BY <1>6, <1>7, <2>1, Concatenated
<1> HIDE DEF whole
<1>10. Limit.changes \in Nat
  BY LimitsAre
<1>11. Len(changes) < Limit.changes => changes = whole
  BY <1>8, <1>9, <1>10, FirstIs
<1>12. /\ DOMAIN whole = 1..(Len(told) + Len(rest))
       /\ \A i \in 1..Len(told) : whole[i].nodes = {told[i].old, told[i].new}
       /\ \A j \in 1..Len(rest) : whole[Len(told) + j].nodes = {rest[j]}
  BY <1>6, <1>7, <1>9 DEF Joins
<1>13. ASSUME NEW n \in g.nodes, ~Context(n) PROVE \E i \in DOMAIN whole : n \in whole[i].nodes
  <2>1. CASE \E m \in g.mappings : n = m.old \/ n = m.new
    <3>1. PICK m \in g.mappings : n = m.old \/ n = m.new
      BY <2>1
    <3>2. m.old.change = m.new.change
      BY DEF Viewed, Shown
    <3>3. m \in pairs
      BY <1>13, <3>1, <3>2 DEF pairs, Context, Story!IsContext
    <3>4. PICK i \in 1..Len(told) : m = told[i]
      BY <1>3, <1>5, <3>3 DEF Story!Range
    <3>5. i \in DOMAIN whole /\ whole[i].nodes = {m.old, m.new}
      BY <1>5, <1>12, <3>4
    <3> QED
      BY <3>1, <3>5
  <2>2. CASE ~\E m \in g.mappings : n = m.old \/ n = m.new
    <3>1. n.change \in {"ADDED", "REMOVED"}
      BY <2>2 DEF Viewed, Shown
    <3>2. n \in single
      BY <2>2, <3>1 DEF single
    <3>3. PICK j \in 1..Len(rest) : n = rest[j]
      BY <1>4, <1>5, <3>2 DEF Story!Range
    <3>4. Len(told) + j \in DOMAIN whole /\ n \in whole[Len(told) + j].nodes
      BY <1>5, <1>12, <3>3
    <3> QED
      BY <3>4
  <2> QED
    BY <2>1, <2>2
<1> QED
  BY <1>11, <1>13 DEF Listing

(***************************************************************************)
(* The chains of a lane.                                                   *)
(***************************************************************************)

\* One more hop for each walk.
Steps(E, W) == UNION {{Story!Follow(w, e) : e \in Story!Onward(E, w)} : w \in W}

\* The walks of each length, from the roots on.
Reaching(E, f) ==
    /\ f[0] = {Story!StartAt(root) : root \in Story!Roots(E)}
    /\ \A i \in 1..Limit.hops : f[i] = Steps(E, f[i - 1])

\* All walks of at most the number of hops.
Walked(E, f) ==
    {w \in UNION {f[i] : i \in 1..Limit.hops} :
        Story!Onward(E, w) = {} \/ Len(w.path) = Limit.hops}

\* Walks(E) is what is reached so.
LEMMA WalksAre ==
    ASSUME NEW E
    PROVE  \E f : Reaching(E, f) /\ Story!Walks(E) = Walked(E, f)
<1> DEFINE last == Limit.hops
           First == {Story!StartAt(root) : root \in Story!Roots(E)}
           Next(W) == Steps(E, W)
           Reaches(f, n) == f[0] = First /\ \A k \in 1..n : f[k] = Next(f[k - 1])
           Undefined == {n \in Nat : ~\E f : Reaches(f, n)}
<1>0. last \in Nat
  BY LimitsAre
<1> HIDE DEF Next, First, last
<1>1. Undefined = {}
  <2> SUFFICES ASSUME Undefined # {} PROVE FALSE
    OBVIOUS
  <2>1. PICK m \in Undefined : \A k \in Undefined : m <= k
    BY LeastNumber
  <2>2. m # 0
    <3>1. Reaches([k \in 0..0 |-> First], 0)
      OBVIOUS
    <3> QED
      BY <2>1, <3>1
  <2>3. PICK f : Reaches(f, m - 1)
    <3>1. m \in Nat /\ m - 1 \in Nat /\ m - 1 < m
      BY <2>1, <2>2
    <3>2. m - 1 \notin Undefined
      <4> HIDE DEF Undefined
      <4> QED
        BY <2>1, <3>1
    <3> QED
      BY <3>1, <3>2
  <2> DEFINE g == [k \in 0..m |-> IF k = m THEN Next(f[m - 1]) ELSE f[k]]
  <2>4. Reaches(g, m)
    BY <2>1, <2>2, <2>3
  <2> QED
    BY <2>1, <2>4
<1>2. PICK f : Reaches(f, last)
  BY <1>0, <1>1
<1> DEFINE h == [k \in 0..last |-> f[k]]
           Body(g) == [k \in 0..last |-> IF k = 0 THEN First ELSE Next(g[k - 1])]
           H == CHOOSE g : g = Body(g)
<1>3. h = Body(h)
  BY <1>0, <1>2
<1> HIDE DEF h
<1>4. H = Body(H)
  BY <1>3
<1>5. Story!Walks(E) = {w \in UNION {H[i] : i \in 1..last} :
                           Story!Onward(E, w) = {} \/ Len(w.path) = last}
  BY DEF Story!Walks, Next, First, Steps, last
<1> HIDE DEF H
<1>6. Reaches(H, last)
  BY <1>0, <1>4
<1>7. Reaching(E, H)
  BY <1>6 DEF Reaching, First, Next, last
<1>8. Story!Walks(E) = Walked(E, H)
  BY <1>5 DEF Walked, last
<1> QED
  BY <1>7, <1>8

\* The nodes from one that a walk met to where it is, each after another of them.
Behind(E, w, n) ==
    \E S : /\ n \in S /\ w.at \in S
           /\ \A m \in S : m = n \/ \E e \in E : e.dst = m /\ e.src \in S

\* What every walk is: its chain ends where it is, and it met no node twice.
Walk(E, w, i) ==
    /\ w.path \in Seq(E) /\ Len(w.path) = i
    /\ \A n \in w.met : Behind(E, w, n)

\* A root starts a walk.
LEMMA StartWalks == ASSUME NEW E, NEW root PROVE Walk(E, Story!StartAt(root), 0)
<1> DEFINE w == Story!StartAt(root)
<1>1. w.at = root /\ w.met = {root} /\ w.path = <<>>
  BY DEF Story!StartAt
<1> HIDE DEF w
<1>2. Behind(E, w, root)
  <2>1. root \in {root} /\ w.at \in {root}
    BY <1>1
  <2> QED
    BY <2>1 DEF Behind
<1> QED
  BY <1>1, <1>2 DEF Walk, w

\* A hop keeps a walk one.
LEMMA FollowWalks ==
    ASSUME NEW E, NEW w, NEW i \in Nat, Walk(E, w, i), NEW e \in E, e.src = w.at
    PROVE  /\ Walk(E, Story!Follow(w, e), i + 1)
           /\ Story!Follow(w, e).path = Append(w.path, e)
           /\ Story!Follow(w, e).at = e.dst
<1> DEFINE v == Story!Follow(w, e)
<1>1. v.at = e.dst /\ v.met = w.met \cup {e.dst} /\ v.path = Append(w.path, e)
  BY DEF Story!Follow
<1> HIDE DEF v
<1>2. w.path \in Seq(E) /\ Len(w.path) = i
  BY DEF Walk
<1>3. v.path \in Seq(E) /\ Len(v.path) = i + 1
  BY <1>1, <1>2
<1>4. Behind(E, v, e.dst)
  <2>1. e.dst \in {e.dst} /\ v.at \in {e.dst}
    BY <1>1
  <2> QED
    BY <2>1 DEF Behind
<1>5. ASSUME NEW n \in w.met PROVE Behind(E, v, n)
  <2>1. Behind(E, w, n)
    BY <1>5 DEF Walk
  <2>2. PICK S : /\ n \in S /\ w.at \in S
                 /\ \A m \in S : m = n \/ \E d \in E : d.dst = m /\ d.src \in S
    BY <2>1 DEF Behind
  <2> DEFINE T == S \cup {e.dst}
  <2>3. n \in T /\ v.at \in T
    BY <1>1, <2>2
  <2>4. ASSUME NEW m \in T PROVE m = n \/ \E d \in E : d.dst = m /\ d.src \in T
    BY <2>2, <2>4
  <2> HIDE DEF T
  <2> QED
    BY <2>3, <2>4 DEF Behind
<1> QED
  BY <1>1, <1>3, <1>4, <1>5 DEF Walk, v

\* Where relations form no cycle, every relation from where a walk is leads on.
LEMMA EveryRelationLeadsOn ==
    ASSUME NEW E, Acyclic(E), NEW w, NEW i, Walk(E, w, i), NEW e \in E, e.src = w.at
    PROVE  e \in Story!Onward(E, w)
<1>1. e.dst \notin w.met
  <2> SUFFICES ASSUME e.dst \in w.met PROVE FALSE
    OBVIOUS
  <2>1. Behind(E, w, e.dst)
    BY DEF Walk
  <2>2. PICK S : /\ e.dst \in S /\ w.at \in S
                 /\ \A m \in S : m = e.dst \/ \E d \in E : d.dst = m /\ d.src \in S
    BY <2>1 DEF Behind
  <2>3. \A m \in S : \E d \in E : d.dst = m /\ d.src \in S
    BY <2>2
  <2>4. S \in SUBSET ({d.src : d \in E} \cup {d.dst : d \in E})
    BY <2>3
  <2>5. PICK m \in S : \A d \in E : d.dst = m => d.src \notin S
    BY <2>2, <2>4 DEF Acyclic
  <2> QED
    BY <2>3, <2>5
<1> QED
  BY <1>1 DEF Story!Onward

\* Whatever is reached is a walk.
LEMMA ReachedWalk ==
    ASSUME NEW E, NEW f, Reaching(E, f), NEW i \in Nat, i <= Limit.hops, NEW w \in f[i]
    PROVE  Walk(E, w, i)
<1> DEFINE Bad == {k \in Nat : k <= Limit.hops /\ \E v \in f[k] : ~Walk(E, v, k)}
<1>0. Limit.hops \in Nat
  BY LimitsAre
<1>1. Bad = {}
  <2> SUFFICES ASSUME Bad # {} PROVE FALSE
    OBVIOUS
  <2>1. PICK m \in Bad : \A k \in Bad : m <= k
    BY LeastNumber
  <2>2. PICK v \in f[m] : ~Walk(E, v, m)
    BY <2>1
  <2>3. m # 0
    BY <2>2, StartWalks DEF Reaching
  <2>4. m \in 1..Limit.hops /\ m - 1 \in Nat /\ m - 1 < m /\ m - 1 <= Limit.hops
    BY <1>0, <2>1, <2>3
  <2>5. f[m] = Steps(E, f[m - 1])
    BY <2>4 DEF Reaching
  <2>6. PICK u \in f[m - 1] : \E e \in Story!Onward(E, u) : v = Story!Follow(u, e)
    BY <2>2, <2>5 DEF Steps
  <2>7. PICK e \in Story!Onward(E, u) : v = Story!Follow(u, e)
    BY <2>6
  <2>8. m - 1 \notin Bad
    <3> HIDE DEF Bad
    <3> QED
      BY <2>1, <2>4, <1>0
  <2>9. Walk(E, u, m - 1)
    BY <2>4, <2>8
  <2>10. e \in E /\ e.src = u.at
    BY DEF Story!Onward
  <2>11. Walk(E, v, (m - 1) + 1)
    BY <2>4, <2>7, <2>9, <2>10, FollowWalks
  <2>12. (m - 1) + 1 = m
    BY <2>4
  <2> QED
    BY <2>2, <2>11, <2>12
<1> QED
  BY <1>1

\* Finitely many walks reach finitely many.
LEMMA FiniteSteps ==
    ASSUME NEW E, IsFiniteSet(E), NEW W, IsFiniteSet(W)
    PROVE  IsFiniteSet(Steps(E, W))
<1> DEFINE Of(w) == {Story!Follow(w, e) : e \in Story!Onward(E, w)}
           F == {Of(w) : w \in W}
<1>1. ASSUME NEW w PROVE IsFiniteSet(Of(w))
  <2> DEFINE f == [e \in Story!Onward(E, w) |-> Story!Follow(w, e)]
  <2>1. Story!Onward(E, w) \subseteq E
    BY DEF Story!Onward
  <2>2. IsFiniteSet(Story!Onward(E, w))
    BY <2>1, FS_Subset
  <2>3. \A t \in Of(w) : \E e \in Story!Onward(E, w) : t = f[e]
    OBVIOUS
  <2> HIDE DEF f, Of
  <2> QED
    BY <2>2, <2>3, FiniteImage
<1>2. IsFiniteSet(F)
  <2> DEFINE f == [w \in W |-> Of(w)]
  <2>1. \A t \in F : \E w \in W : t = f[w]
    OBVIOUS
  <2> HIDE DEF f, F
  <2> QED
    BY <2>1, FiniteImage
<1>3. \A X \in F : IsFiniteSet(X)
  BY <1>1
<1>4. Steps(E, W) = UNION F
  BY DEF Steps
<1> HIDE DEF F
<1> QED
  BY <1>2, <1>3, <1>4, FiniteUnion

\* There are finitely many walks.
LEMMA FiniteWalks ==
    ASSUME NEW E, IsFiniteSet(E), NEW f, Reaching(E, f)
    PROVE  IsFiniteSet(Walked(E, f))
<1> DEFINE Bad == {k \in Nat : k <= Limit.hops /\ ~IsFiniteSet(f[k])}
<1>0. Limit.hops \in Nat
  BY LimitsAre
<1>1. IsFiniteSet(f[0])
  <2> DEFINE sources == {e.src : e \in E}
             s == [e \in E |-> e.src]
             t == [r \in Story!Roots(E) |-> Story!StartAt(r)]
  <2>1. \A x \in sources : \E e \in E : x = s[e]
    OBVIOUS
  <2>2. Story!Roots(E) \subseteq sources
    BY DEF Story!Roots
  <2> HIDE DEF sources, s
  <2>3. IsFiniteSet(sources)
    BY <2>1, FiniteImage
  <2>4. IsFiniteSet(Story!Roots(E))
    BY <2>2, <2>3, FS_Subset
  <2>5. \A x \in f[0] : \E r \in Story!Roots(E) : x = t[r]
    BY DEF Reaching
  <2> HIDE DEF t
  <2> QED
    BY <2>4, <2>5, FiniteImage
<1>2. Bad = {}
  <2> SUFFICES ASSUME Bad # {} PROVE FALSE
    OBVIOUS
  <2>1. PICK m \in Bad : \A k \in Bad : m <= k
    BY LeastNumber
  <2>2. m # 0
    BY <1>1, <2>1
  <2>3. m \in 1..Limit.hops /\ m - 1 \in Nat /\ m - 1 < m /\ m - 1 <= Limit.hops
    BY <1>0, <2>1, <2>2
  <2>4. m - 1 \notin Bad
    <3> HIDE DEF Bad
    <3> QED
      BY <1>0, <2>1, <2>3
  <2>5. IsFiniteSet(f[m - 1])
    BY <2>3, <2>4
  <2>6. f[m] = Steps(E, f[m - 1])
    BY <2>3 DEF Reaching
  <2> QED
    BY <2>1, <2>5, <2>6, FiniteSteps
<1> DEFINE F == {f[i] : i \in 1..Limit.hops}
<1>3. IsFiniteSet(F)
  <2>1. IsFiniteSet(1..Limit.hops)
    BY <1>0, FS_Interval
  <2>2. \A X \in F : \E i \in 1..Limit.hops : X = f[i]
    OBVIOUS
  <2> HIDE DEF F
  <2> QED
    BY <2>1, <2>2, FiniteImage
<1>4. \A X \in F : IsFiniteSet(X)
  BY <1>0, <1>2
<1> HIDE DEF F
<1>5. IsFiniteSet(UNION F)
  BY <1>3, <1>4, FiniteUnion
<1>6. Walked(E, f) \subseteq UNION F
  BY DEF Walked, F
<1> QED
  BY <1>5, <1>6, FS_Subset

\* Where relations form no cycle and no walk was cut, every relation is on a walk.
LEMMA EveryNodeIsReached ==
    ASSUME NEW E, Acyclic(E), NEW f, Reaching(E, f),
           \A w \in Walked(E, f) : Story!Onward(E, w) = {},
           NEW e \in E
    PROVE  \E i \in Nat : i < Limit.hops /\ \E w \in f[i] : w.at = e.src
<1> DEFINE Reached(n) == \E i \in Nat : i <= Limit.hops /\ \E w \in f[i] : w.at = n
           ends == {d.src : d \in E} \cup {d.dst : d \in E}
           S == {n \in ends : ~Reached(n)}
<1>0. Limit.hops \in Nat /\ Limit.hops # 0
  BY LimitsAre
<1>1. ASSUME NEW d \in E, NEW i \in Nat, i <= Limit.hops, NEW w \in f[i], w.at = d.src
      PROVE  i < Limit.hops /\ Story!Follow(w, d) \in f[i + 1] /\ Story!Follow(w, d).at = d.dst
  <2>1. Walk(E, w, i)
    BY <1>1, ReachedWalk
  <2>2. d \in Story!Onward(E, w)
    BY <1>1, <2>1, EveryRelationLeadsOn
  <2>3. i < Limit.hops
    <3> SUFFICES ASSUME i = Limit.hops PROVE FALSE
      BY <1>0, <1>1
    <3>1. Len(w.path) = Limit.hops
      BY <2>1 DEF Walk
    <3>2. w \in f[Limit.hops] /\ Limit.hops \in 1..Limit.hops
      BY <1>0, <1>1
    <3>3. w \in Walked(E, f)
      BY <3>1, <3>2 DEF Walked
    <3> QED
      BY <2>2, <3>3
  <2>4. i + 1 \in 1..Limit.hops /\ (i + 1) - 1 = i
    BY <1>0, <2>3
  <2>5. f[i + 1] = Steps(E, f[i])
    BY <2>4 DEF Reaching
  <2>6. Story!Follow(w, d) \in f[i + 1]
    BY <2>2, <2>5 DEF Steps
  <2> QED
    BY <1>1, <2>1, <2>3, <2>6, FollowWalks
<1>2. S = {}
  <2> SUFFICES ASSUME S # {} PROVE FALSE
    OBVIOUS
  <2>1. S \in SUBSET ends
    OBVIOUS
  <2>2. PICK n \in S : \A d \in E : d.dst = n => d.src \notin S
    BY <2>1 DEF Acyclic
  <2>3. n \in ends /\ ~Reached(n)
    OBVIOUS
  <2>4. CASE \E d \in E : d.dst = n
    <3>1. PICK d \in E : d.dst = n
      BY <2>4
    <3>2. d.src \in ends /\ d.src \notin S
      BY <2>2, <3>1
    <3>3. Reached(d.src)
      BY <3>2
    <3>4. PICK i \in Nat : i <= Limit.hops /\ \E w \in f[i] : w.at = d.src
      BY <3>3
    <3>5. PICK w \in f[i] : w.at = d.src
      BY <3>4
    <3>6. i < Limit.hops /\ Story!Follow(w, d) \in f[i + 1] /\ Story!Follow(w, d).at = n
      BY <1>1, <3>1, <3>4, <3>5
    <3>7. i + 1 \in Nat /\ i + 1 <= Limit.hops
      BY <1>0, <3>4, <3>6
    <3>8. Reached(n)
      BY <3>6, <3>7
    <3> QED
      BY <2>3, <3>8
  <2>5. CASE ~\E d \in E : d.dst = n
    <3>1. n \in {d.src : d \in E} \ {d.dst : d \in E}
      BY <2>3, <2>5
    <3>2. n \in Story!Roots(E)
      BY <3>1 DEF Story!Roots
    <3>3. Story!StartAt(n) \in f[0] /\ Story!StartAt(n).at = n
      BY <3>2 DEF Reaching, Story!StartAt
    <3>4. 0 \in Nat /\ 0 <= Limit.hops
      BY <1>0
    <3>5. Reached(n)
      BY <3>3, <3>4
    <3> QED
      BY <2>3, <3>5
  <2> QED
    BY <2>4, <2>5
<1>3. Reached(e.src)
  BY <1>2
<1> QED
  BY <1>1, <1>3

\* A relation that a walk meets is on a chain: the walk ends at a leaf, or chains were
\* cut.
LEMMA WalksEnd ==
    ASSUME NEW E, NEW f, Reaching(E, f), NEW e,
           NEW i \in Nat, i \in 1..Limit.hops, NEW w \in f[i], e \in Story!Range(w.path)
    PROVE  \E v \in Walked(E, f) : e \in Story!Range(v.path)
<1> DEFINE Holding(k) == \E v \in f[k] : e \in Story!Range(v.path)
           Left == {n \in Nat : n < Limit.hops /\ Holding(Limit.hops - n)}
<1>0. Limit.hops \in Nat
  BY LimitsAre
<1>1. Limit.hops - i \in Left
  <2>1. Limit.hops - i \in Nat /\ Limit.hops - i < Limit.hops /\ Limit.hops - (Limit.hops - i) = i
    BY <1>0
  <2> QED
    BY <2>1
<1>2. PICK m \in Left : \A k \in Left : m <= k
  BY <1>1, LeastNumber
<1> DEFINE k == Limit.hops - m
<1>3. k \in 1..Limit.hops /\ k \in Nat
  BY <1>0, <1>2
<1>4. PICK v \in f[k] : e \in Story!Range(v.path)
  BY <1>2
<1>5. Walk(E, v, k)
  BY <1>0, <1>3, ReachedWalk
<1>6. CASE Story!Onward(E, v) = {} \/ k = Limit.hops
  <2>1. v \in UNION {f[j] : j \in 1..Limit.hops}
    BY <1>3
  <2>2. v \in Walked(E, f)
    BY <1>5, <1>6, <2>1 DEF Walked, Walk
  <2> QED
    BY <1>4, <2>2
<1>7. CASE Story!Onward(E, v) # {} /\ k # Limit.hops
  <2>1. PICK d \in Story!Onward(E, v) : TRUE
    BY <1>7
  <2>2. d \in E /\ d.src = v.at
    BY DEF Story!Onward
  <2>3. k + 1 \in 1..Limit.hops /\ (k + 1) - 1 = k
    BY <1>0, <1>3, <1>7
  <2> HIDE DEF k
  <2>4. f[k + 1] = Steps(E, f[k])
    BY <2>3 DEF Reaching
  <2> DEFINE u == Story!Follow(v, d)
  <2>5. u \in f[k + 1]
    BY <2>4 DEF Steps
  <2>6. u.path = Append(v.path, d) /\ v.path \in Seq(E)
    BY <1>5 DEF Walk, Story!Follow
  <2> HIDE DEF u
  <2>7. e \in Story!Range(u.path)
    <3>1. DOMAIN v.path = 1..Len(v.path) /\ Len(v.path) \in Nat
      BY <2>6
    <3>2. DOMAIN u.path = 1..(Len(v.path) + 1) /\ \A j \in 1..Len(v.path) : u.path[j] = v.path[j]
      BY <2>2, <2>6, <3>1
    <3>3. PICK j \in 1..Len(v.path) : e = v.path[j]
      BY <1>4, <3>1 DEF Story!Range
    <3>4. j \in DOMAIN u.path /\ e = u.path[j]
      BY <3>1, <3>2, <3>3
    <3> QED
      BY <3>4 DEF Story!Range
  <2>8. Holding(k + 1)
    BY <2>5, <2>7
  <2>9. m - 1 \in Nat /\ m - 1 < m /\ m - 1 < Limit.hops /\ Limit.hops - (m - 1) = k + 1
    BY <1>0, <1>2, <1>7 DEF k
  <2>10. m - 1 \in Left
    BY <2>8, <2>9
  <2>11. m <= m - 1
    <3> HIDE DEF Left
    <3> QED
      BY <1>2, <2>10
  <2> QED
    BY <1>0, <1>2, <2>11
<1> QED
  BY <1>6, <1>7

\* The chains of a lane show each of its relations, if these form no cycle and nothing was
\* cut.
Chained(lane) ==
    Acyclic(Range(lane.relationships)) /\ "chains" \notin lane.limitations =>
        \A e \in Range(lane.relationships) : \E c \in Range(lane.chains) : e \in Range(c)

\* Chains that were not cut show every relation.
LEMMA ChainsAre ==
    ASSUME NEW E, IsFiniteSet(E), Acyclic(E), NEW e \in E, ~Story!Chains(E).truncated
    PROVE  \E c \in Story!Range(Story!Chains(E).chains) : e \in Story!Range(c)
<1>1. PICK f : Reaching(E, f) /\ Story!Walks(E) = Walked(E, f)
  BY WalksAre
<1> DEFINE W == Walked(E, f)
<1>2. PICK walks :
          /\ \E key : walks = Story!Sorted(W, key)
          /\ Story!Chains(E).chains =
                [i \in DOMAIN Story!First(Limit.chains, walks) |-> walks[i].path]
          /\ Story!Chains(E).truncated <=>
                Len(walks) > Limit.chains \/ \E w \in Story!Range(walks) : Story!Onward(E, w) # {}
  BY <1>1 DEF Story!Chains, Story!Ordered
<1>3. IsFiniteSet(W)
  BY <1>1, FiniteWalks
<1> HIDE DEF W
<1>4. walks \in Seq(W) /\ Story!Range(walks) = W
  BY <1>2, <1>3, SortedIsAll
<1>5. Len(walks) <= Limit.chains /\ \A w \in W : Story!Onward(E, w) = {}
  <2>1. Len(walks) \in Nat /\ Limit.chains \in Nat
    BY <1>4, LimitsAre
  <2> QED
    BY <1>2, <1>4, <2>1
<1>6. Story!First(Limit.chains, walks) = walks
  BY <1>5 DEF Story!First
<1>7. PICK i \in Nat : i < Limit.hops /\ \E w \in f[i] : w.at = e.src
  BY <1>1, <1>5, EveryNodeIsReached DEF W
<1>8. PICK w \in f[i] : w.at = e.src
  BY <1>7
<1>9. Limit.hops \in Nat
  BY LimitsAre
<1>10. Walk(E, w, i)
  BY <1>1, <1>7, <1>8, <1>9, ReachedWalk
<1>11. e \in Story!Onward(E, w)
  BY <1>8, <1>10, EveryRelationLeadsOn
<1>12. i + 1 \in 1..Limit.hops /\ i + 1 \in Nat /\ (i + 1) - 1 = i
  BY <1>7, <1>9
<1>13. f[i + 1] = Steps(E, f[i])
  BY <1>1, <1>12 DEF Reaching
<1> DEFINE v == Story!Follow(w, e)
<1>14. v \in f[i + 1]
  BY <1>11, <1>13 DEF Steps
<1>15. v.path = Append(w.path, e) /\ w.path \in Seq(E)
  BY <1>10 DEF Walk, Story!Follow
<1> HIDE DEF v
<1>16. e \in Story!Range(v.path)
  <2>1. DOMAIN w.path = 1..Len(w.path) /\ Len(w.path) \in Nat
    BY <1>15
  <2>2. Len(w.path) + 1 \in DOMAIN v.path /\ v.path[Len(w.path) + 1] = e
    BY <1>15, <2>1
  <2> QED
    BY <2>2 DEF Story!Range
<1>17. PICK u \in W : e \in Story!Range(u.path)
  BY <1>1, <1>12, <1>14, <1>16, WalksEnd DEF W
<1>18. PICK j \in DOMAIN walks : u = walks[j]
  BY <1>4 DEF Story!Range
<1>19. u.path \in Story!Range(Story!Chains(E).chains)
  BY <1>2, <1>6, <1>18 DEF Story!Range
<1> QED
  BY <1>17, <1>19

\* A lane of a story is chained.
LEMMA LaneIsChained == ASSUME NEW g, Viewed(g), NEW role PROVE Chained(Story!LaneOf(g, role))
<1> DEFINE lane == Story!LaneOf(g, role)
           S == {e \in g.edges : e.role = role /\ ~(Story!IsContext(e) /\ Story!IsContext(e.src)
                                                      /\ Story!IsContext(e.dst))}
<1>1. PICK all, shown :
          /\ \E key : all = Story!Sorted(S, key)
          /\ shown = Story!First(Limit.relationships, all)
          /\ lane.relationships = shown
          /\ lane.chains = Story!Chains(Story!Range(shown)).chains
          /\ Story!Chains(Story!Range(shown)).truncated => "chains" \in lane.limitations
  BY DEF Story!LaneOf, Story!Relationships, Story!Ordered
<1> HIDE DEF lane
<1>2. IsFiniteSet(g.edges) /\ S \subseteq g.edges
  BY DEF Viewed, Shown
<1> HIDE DEF S
<1>3. IsFiniteSet(S)
  BY <1>2, FS_Subset
<1>4. all \in Seq(S)
  BY <1>1, <1>3, SortedIsAll
<1>5. Limit.relationships \in Nat
  BY LimitsAre
<1>6. shown \in Seq(S)
  BY <1>1, <1>4, <1>5, FirstIs
<1> DEFINE E == Story!Range(shown)
<1>7. IsFiniteSet(E)
  BY <1>6, RangeOf
<1>8. Range(shown) = E
  BY DEF Range, Story!Range
<1> HIDE DEF E
<1>9. ASSUME Acyclic(E), "chains" \notin lane.limitations, NEW e \in E
      PROVE  \E c \in Range(lane.chains) : e \in Range(c)
  <2>1. ~Story!Chains(E).truncated
    BY <1>1, <1>9 DEF E
  <2>2. \E c \in Story!Range(Story!Chains(E).chains) : e \in Story!Range(c)
    BY <1>7, <1>9, <2>1, ChainsAre
  <2>3. lane.chains = Story!Chains(E).chains
    BY <1>1 DEF E
  <2>4. \A s : Range(s) = Story!Range(s)
    BY DEF Range, Story!Range
  <2> QED
    BY <2>2, <2>3, <2>4
<1>10. Chained(lane)
  BY <1>1, <1>8, <1>9 DEF Chained
<1> QED
  BY <1>10 DEF lane

(***************************************************************************)
(* Telling: a story of a whole analysis, before it is drawn and after.     *)
(***************************************************************************)

\* A story that is told: its graph, its scenarios, its changes and its lanes agree.
Related(s) ==
    /\ {"graph", "scenarios", "lanes", "changes"} \subseteq DOMAIN s
    /\ "board" \notin DOMAIN s
    /\ Viewed(s.graph)
    /\ s.scenarios # <<>> /\ DOMAIN s.scenarios = 1..Len(s.scenarios) /\ Len(s.scenarios) \in Nat
    /\ Scenarios(s.graph, s.scenarios)
    /\ Listing(s.graph, s.changes)
    /\ Chained(s.lanes.old) /\ Chained(s.lanes.new)

\* What is told of a whole analysis.
LEMMA FactsAreRelated ==
    ASSUME NEW a, Whole(a), NEW intent
    PROVE  Related(Story!Facts(a, intent, Story!View(a)))
<1> DEFINE g == Story!View(a)
           s == Story!Facts(a, intent, g)
<1>1. Viewed(g)
  BY ViewIsShown
<1> HIDE DEF g
<1>2. /\ s.graph = g /\ s.scenarios = Story!ScenarioLens(g)
      /\ {"graph", "scenarios", "lanes", "changes"} \subseteq DOMAIN s /\ "board" \notin DOMAIN s
      /\ s.changes = Story!ChangesOf(g)
      /\ s.lanes.old = Story!LaneOf(g, "OLD") /\ s.lanes.new = Story!LaneOf(g, "NEW")
  BY DEF Story!Facts
<1> HIDE DEF s
<1>3. s.scenarios # <<>> /\ DOMAIN s.scenarios = 1..Len(s.scenarios) /\ Len(s.scenarios) \in Nat
      /\ Scenarios(g, s.scenarios)
  BY <1>1, <1>2, ScenariosAre
<1>4. Listing(g, s.changes)
  BY <1>1, <1>2, ChangesAreListed
<1>5. Chained(s.lanes.old) /\ Chained(s.lanes.new)
  BY <1>1, <1>2, LaneIsChained
<1>6. Related(s)
  BY <1>1, <1>2, <1>3, <1>4, <1>5 DEF Related
<1> QED
  BY <1>6 DEF s, g

\* What drawing keeps of the story s, and the board it adds.
Drawn(s, t) ==
    /\ t.graph = s.graph /\ t.scenarios = s.scenarios
    /\ t.changes = s.changes /\ t.lanes = s.lanes
    /\ \A side \in {"before", "after"} : \A n \in Range(t.scenarios[1][side]) :
          Cardinality({i \in DOMAIN t.board.slots : n \in t.board.slots[i][side]}) = 1
    /\ \A c \in Range(t.board.connectors) : Arrow(t.graph, t.board.slots, c)

\* Drawing keeps it.
LEMMA DrawnIsRelated ==
    ASSUME NEW s, Related(s), NEW map, NEW t, t = Story!Presented(s, map)
    PROVE  Drawn(s, t)
<1> DEFINE primary == s.scenarios[1]
           slots == Story!Slots(primary)
<1>1. t.graph = s.graph /\ t.scenarios = s.scenarios /\ t.board = Story!VisualStory(primary)
      /\ t.changes = s.changes /\ t.lanes = s.lanes
  BY DEF Story!Presented, Story!Joined, Related
<1>2. t.board.slots = slots /\ t.board.connectors = Story!Connectors(primary, slots)
  BY <1>1 DEF Story!VisualStory
<1>3. 1 \in 1..Len(s.scenarios)
  BY DEF Related
<1>4. Framed(s.graph, primary) /\ Viewed(s.graph)
  BY <1>3 DEF Related, Scenarios
<1> HIDE DEF slots, primary
<1>5. /\ \A n \in Range(primary.before) : Cardinality({i \in DOMAIN slots : n \in slots[i].before}) = 1
      /\ \A n \in Range(primary.after) : Cardinality({i \in DOMAIN slots : n \in slots[i].after}) = 1
  BY <1>4, ItemsInOneSlot DEF slots
<1>6. ASSUME NEW c \in Range(t.board.connectors) PROVE Arrow(t.graph, t.board.slots, c)
  BY <1>1, <1>2, <1>4, <1>6, ConnectorsAre
<1>7. ASSUME NEW side \in {"before", "after"}, NEW n \in Range(t.scenarios[1][side])
      PROVE  Cardinality({i \in DOMAIN t.board.slots : n \in t.board.slots[i][side]}) = 1
  <2>1. t.scenarios[1] = primary
    BY <1>1 DEF primary
  <2>2. CASE side = "before"
    BY <1>2, <1>5, <1>7, <2>1, <2>2
  <2>3. CASE side = "after"
    BY <1>2, <1>5, <1>7, <2>1, <2>3
  <2> QED
    BY <2>2, <2>3
<1> QED
  BY <1>1, <1>6, <1>7 DEF Drawn

\* What is drawn is faithful to what was told.
LEMMA DrawTells ==
    ASSUME Draw, Related(story)
    PROVE  NothingHidden' /\ ChainsDisclosed' /\ ArrowsAreRelations' /\ TestsNeverDisplace'
<1>0. story' = Story!Presented(story, Story!MapOf(story)) /\ pc' = "write-page"
  BY DEF Draw, Step
<1>1. Drawn(story, story')
  <2> PICK t : t = story'
    OBVIOUS
  <2>1. Drawn(story, t)
    BY <1>0, DrawnIsRelated
  <2> QED
    BY <2>1
<1> DEFINE s == story
           t == story'
<1>2. Drawn(s, t)
  BY <1>1
<1> HIDE DEF t
<1>3. Listing(t.graph, t.changes)
  BY <1>2 DEF Related, Drawn
<1>4. Chained(t.lanes.old) /\ Chained(t.lanes.new)
  BY <1>2 DEF Related, Drawn
<1>5. Scenarios(t.graph, t.scenarios) /\ DOMAIN t.scenarios = 1..Len(t.scenarios)
  BY <1>2 DEF Related, Drawn
<1>6. NothingHidden'
  BY <1>3 DEF NothingHidden, Listing, t
<1>7. ChainsDisclosed'
  BY <1>4 DEF ChainsDisclosed, Chained, t
<1>8. ArrowsAreRelations'
  BY <1>2 DEF ArrowsAreRelations, Arrow, Drawn, t
<1>9. TestsNeverDisplace'
  <2>1. ASSUME Central(t.graph), NEW scenario \in Range(t.scenarios),
               NEW n \in Range(scenario.before) \cup Range(scenario.after)
        PROVE  Business(n)
    <3>1. PICK i \in 1..Len(t.scenarios) : scenario = t.scenarios[i]
      BY <1>5, <2>1 DEF Range
    <3>2. n \in Story!Range(scenario.before) \cup Story!Range(scenario.after)
      BY <2>1 DEF Range, Story!Range
    <3> QED
      BY <1>5, <2>1, <3>1, <3>2 DEF Scenarios
  <2> QED
    BY <2>1 DEF TestsNeverDisplace, Central, Business, t
<1> QED
  BY <1>6, <1>7, <1>8, <1>9

(***************************************************************************)
(* The commands: what is bound, analysed, saved, told and drawn.           *)
(***************************************************************************)

\* The four properties of a story that was drawn.
Faithful == NothingHidden /\ ChainsDisclosed /\ ArrowsAreRelations /\ TestsNeverDisplace

\* What is on disk, and what a command bound of it, is code where it is compiled.
Bound ==
    /\ Sourced(disk.files)
    /\ Explaining => Sourced(binding.files)

\* The inductive invariant: an analysis is whole while a command holds it and where it was
\* saved, and what is to be drawn was told of one.
Wholly ==
    /\ pc \in Telling \/ analysis # None => Whole(analysis)
    /\ out.analysis # None => Whole(out.analysis)
    /\ pc = "draw" => Related(story)
    /\ Faithful

LEMMA BoundInit == ExplainInit => Bound
  BY SourcesAreCode DEF ExplainInit, Bound, Sourced, Explaining

LEMMA BoundStep == ASSUME AttestInv, Bound, [ExplainNext]_vars PROVE Bound'
<1> USE DEF Bound
<1>0. disk.files = [p \in DOMAIN disk.files |-> disk.files[p]]
      /\ disk = [f \in {"files", "compile", "provenance", "outputs", "newer"} |-> disk[f]]
      /\ start \in Starts
  BY DEF AttestInv, DiskTyped
<1>1. start' = start
  BY DEF ExplainNext, ExplainStep, ProvenanceStep, EditFile, RebuildCore, BuildStart, BuildFinish,
     ReadCompile, WriteCompile, HoldManifest, ReadContext, CompareTimes, HashOutput,
     HashDefinition, WriteProvenance, Begin, Stop, Bind, AttestOld, AttestNew, CompareProvenance,
     Analyse, CheckCurrent, ReadAnalysis, Tell, Draw, WritePage, WriteStory, WriteAnalysis, Write,
     Done, ShowGraph, vars, diskVars
<1>2. ASSUME disk'.files = disk.files, binding' = binding, Explaining' => Explaining PROVE Bound'
  BY <1>1, <1>2 DEF Sourced
<1>3. ASSUME UNCHANGED <<disk, binding>>, Explaining' => Explaining PROVE Bound'
  BY <1>2, <1>3
<1>4. CASE EditFile /\ UNCHANGED explainVars
  <2>0. PICK p \in DOMAIN Contents \cap DOMAIN disk.files : \E c \in Contents[p] :
            disk' = [disk EXCEPT !.files = [disk.files EXCEPT ![p] = c],
                                 !.newer = (@ \/ p \in Observed)]
    BY <1>4 DEF EditFile
  <2>1. PICK c \in Contents[p] :
            disk' = [disk EXCEPT !.files = [disk.files EXCEPT ![p] = c],
                                 !.newer = (@ \/ p \in Observed)]
    BY <2>0
  <2>2. disk'.files = [disk.files EXCEPT ![p] = c]
    BY ONLY <1>0, <2>1
  <2>3. Sourced(disk'.files)
    <3> SUFFICES ASSUME Game \in DOMAIN start.unity.projects PROVE Sourced(disk'.files)
      BY DEF Sourced
    <3> DEFINE compiled == UNION start.unity.projects[Game].compiles
               code == DOMAIN Declares \cup {Absent}
    <3>1. IsFiniteSet(DOMAIN disk.files) /\ \A q \in compiled \cap DOMAIN disk.files : disk.files[q] \in code
      BY DEF Sourced
    <3>2. p \in compiled => c \in code
      BY <1>0, SourcesAreCode
    <3>3. DOMAIN disk'.files = DOMAIN disk.files
          /\ \A q \in DOMAIN disk.files : disk'.files[q] = IF q = p THEN c ELSE disk.files[q]
      BY <1>0, <2>2
    <3> HIDE DEF compiled, code
    <3>4. IsFiniteSet(DOMAIN disk'.files)
          /\ \A q \in compiled \cap DOMAIN disk'.files : disk'.files[q] \in code
      BY <3>1, <3>2, <3>3
    <3> QED
      BY <3>4 DEF Sourced, compiled, code
  <2>4. binding' = binding /\ (Explaining' => Explaining)
    BY <1>4 DEF EditFile, explainVars, Explaining
  <2> QED
    BY <1>1, <2>3, <2>4 DEF Sourced
<1>5. CASE (RebuildCore \/ BuildStart \/ BuildFinish \/ WriteCompile \/ WriteProvenance)
           /\ UNCHANGED explainVars
  <2>1. disk'.files = disk.files
    BY <1>0, <1>5 DEF RebuildCore, BuildStart, BuildFinish, WriteCompile, WriteProvenance
  <2>2. binding' = binding /\ (Explaining' => Explaining)
    BY <1>5 DEF RebuildCore, BuildStart, BuildFinish, WriteCompile, WriteProvenance, explainVars,
       Explaining, Step
  <2> QED
    BY <1>2, <2>1, <2>2
<1>6. CASE (ReadCompile \/ HoldManifest \/ ReadContext \/ CompareTimes \/ HashOutput
            \/ HashDefinition) /\ UNCHANGED explainVars
  <2>1. UNCHANGED <<disk, binding>> /\ (Explaining' => Explaining)
    BY <1>6 DEF ReadCompile, HoldManifest, ReadContext, CompareTimes, HashOutput, HashDefinition,
       explainVars, diskVars, Explaining
  <2> QED
    BY <1>3, <2>1
<1>7. CASE Begin
  <2>1. UNCHANGED <<disk, binding>> /\ pc' = FirstStep[command'.kind]
    BY <1>7, <1>0, FirstSteps DEF Begin
  <2>2. ~Explaining'
    BY <2>1 DEF Explaining, FirstStep
  <2> QED
    BY <1>3, <2>1, <2>2
<1>8. CASE Bind
  <2>1. binding'.files = disk.files /\ disk' = disk
    BY <1>8 DEF Bind, diskVars
  <2> QED
    BY <1>1, <2>1 DEF Sourced
<1>9. CASE Stop \/ Done \/ ShowGraph
  <2>1. disk' = disk /\ pc' = "ended"
    BY <1>9 DEF Stop, Done, ShowGraph, diskVars, Step
  <2>2. ~Explaining'
    BY <2>1 DEF Explaining
  <2> QED
    BY <1>1, <2>1, <2>2 DEF Sourced
<1>10. CASE AttestOld \/ AttestNew \/ CompareProvenance \/ Analyse \/ CheckCurrent
  <2>1. UNCHANGED <<disk, binding, command>>
    BY <1>10 DEF AttestOld, AttestNew, CompareProvenance, Analyse, CheckCurrent, diskVars
  <2>2. pc \notin {"ended", "bind"}
    BY <1>10 DEF AttestOld, AttestNew, CompareProvenance, Analyse, CheckCurrent
  <2> QED
    BY <1>3, <2>1, <2>2 DEF Explaining
<1>11. CASE ReadAnalysis \/ Tell \/ Draw \/ WritePage \/ WriteStory \/ WriteAnalysis
  <2>1. UNCHANGED <<disk, binding, command>>
    BY <1>11 DEF ReadAnalysis, Tell, Draw, WritePage, WriteStory, WriteAnalysis, Write, diskVars
  <2>2. pc \notin {"ended", "bind"}
    BY <1>11 DEF ReadAnalysis, Tell, Draw, WritePage, WriteStory, WriteAnalysis
  <2> QED
    BY <1>3, <2>1, <2>2 DEF Explaining
<1>12. CASE UNCHANGED vars
  <2>1. UNCHANGED <<disk, binding, pc, command>>
    BY <1>12 DEF vars, diskVars, explainVars
  <2> QED
    BY <1>3, <2>1 DEF Explaining
<1> QED
  BY <1>4, <1>5, <1>6, <1>7, <1>8, <1>9, <1>10, <1>11, <1>12
     DEF ExplainNext, ExplainStep, ProvenanceStep

LEMMA WhollyInit == ExplainInit => Wholly
  BY DEF ExplainInit, Wholly, Faithful, NothingHidden, ChainsDisclosed, ArrowsAreRelations,
     TestsNeverDisplace, Told, Telling, Writing

LEMMA WhollyStep ==
    ASSUME BundleInv, AttestInv, Bound, Wholly, [ExplainNext]_vars
    PROVE  Wholly'
<1> USE DEF Wholly
<1>0. out = [f \in Outputs |-> out[f]]
  BY DEF BundleInv, Numbered
<1>13. ASSUME ~Told' PROVE Faithful'
  BY <1>13 DEF Faithful, NothingHidden, ChainsDisclosed, ArrowsAreRelations, TestsNeverDisplace
<1>14. ASSUME UNCHANGED story, Told' => Told PROVE Faithful'
  BY <1>14 DEF Faithful, NothingHidden, ChainsDisclosed, ArrowsAreRelations, TestsNeverDisplace
<1>1. ASSUME UNCHANGED <<analysis, story>>,
             pc \in Telling \/ pc' \notin Telling, pc = "draw" <=> pc' = "draw"
      PROVE  /\ pc' \in Telling \/ analysis' # None => Whole(analysis')
             /\ pc' = "draw" => Related(story')
             /\ Faithful'
  BY <1>1, <1>14 DEF Told
<1>2. CASE UNCHANGED vars
  BY <1>1, <1>2 DEF vars, diskVars, explainVars
<1>3. CASE ProvenanceStep /\ UNCHANGED explainVars
  <2>1. (pc \notin Telling /\ pc' \notin Telling) \/ pc' = pc
    BY <1>3 DEF ProvenanceStep, EditFile, RebuildCore, BuildStart, BuildFinish, ReadCompile,
       WriteCompile, HoldManifest, ReadContext, CompareTimes, HashOutput, HashDefinition,
       WriteProvenance, Step, Telling, Writing
  <2>2. "draw" \in Telling
    BY DEF Telling
  <2> QED
    BY <1>1, <1>3, <2>1, <2>2 DEF explainVars
<1>4. CASE Begin
  <2>1. pc = "ended" /\ pc' \notin Telling /\ "draw" \in Telling /\ pc' # "draw"
    BY <1>4, FirstSteps DEF Begin, Telling, BundleInv
  <2>2. UNCHANGED <<analysis, story, out>>
    BY <1>4 DEF Begin
  <2> QED
    BY <1>1, <2>1, <2>2
<1>5. CASE Stop \/ Done
  <2>1. pc' = "ended" /\ analysis' = None /\ story' = None /\ out' = out
    BY <1>5 DEF Stop, Done, Clear, Step
  <2>2. ~Told' /\ pc' \notin Telling
    BY <2>1 DEF Told, Telling, Writing
  <2> QED
    BY <1>13, <2>1, <2>2
<1>6. CASE Bind \/ AttestOld \/ AttestNew \/ CompareProvenance \/ CheckCurrent
  <2>1. /\ UNCHANGED <<analysis, story, out>> /\ pc # "draw" /\ pc' # "draw"
        /\ pc \in Telling \/ pc' \notin Telling
    BY <1>6 DEF Bind, AttestOld, AttestNew, CompareProvenance, CheckCurrent, Step, Telling, Writing
  <2> QED
    BY <1>1, <2>1
<1>7. CASE Analyse
  <2>1. analysis' = Analysis /\ UNCHANGED <<story, out>> /\ pc = "analyse" /\ pc' = "check-current"
    BY <1>7 DEF Analyse, Step
  <2>2. start \in Starts /\ Sourced(binding.files)
    BY <2>1 DEF AttestInv, Bound, Kinds, Explaining
  <2>3. Whole(analysis')
    BY <1>7, <2>1, <2>2, AnalysisIsWhole
  <2>4. Faithful'
    BY <1>14, <2>1 DEF Told
  <2> QED
    BY <2>1, <2>3, <2>4
<1>8. CASE ReadAnalysis
  <2>1. analysis' = out.analysis /\ out.analysis # None /\ UNCHANGED <<story, out>>
        /\ pc = "read-analysis" /\ pc' = "tell"
    BY <1>8 DEF ReadAnalysis, Step
  <2>2. Faithful'
    BY <1>14, <2>1 DEF Told
  <2> QED
    BY <2>1, <2>2
<1>9. CASE Tell
  <2>1. story' = Story!Facts(analysis, start.intent, Story!View(analysis))
        /\ pc = "tell" /\ pc' = "draw" /\ UNCHANGED <<analysis, out>>
    BY <1>9 DEF Tell, Step
  <2>2. Whole(analysis)
    BY <2>1 DEF Telling
  <2>3. Related(story')
    BY <2>1, <2>2, FactsAreRelated
  <2>4. Faithful'
    BY <1>13, <2>1 DEF Told
  <2> QED
    BY <2>1, <2>2, <2>3, <2>4
<1>10. CASE Draw
  <2>1. pc = "draw" /\ pc' = "write-page" /\ UNCHANGED <<analysis, out>>
    BY <1>10 DEF Draw, Step
  <2>2. Faithful'
    BY <1>10, <2>1, DrawTells DEF Faithful
  <2> QED
    BY <2>1, <2>2 DEF Telling
<1>11. CASE WritePage \/ WriteStory \/ WriteAnalysis
  <2>1. /\ UNCHANGED <<analysis, story>> /\ pc \in Telling
        /\ pc # "draw" /\ pc' # "draw"
    BY <1>11 DEF WritePage, WriteStory, WriteAnalysis, Write, After, Step, Telling, Writing
  <2>2. out'.analysis = out.analysis \/ out'.analysis = analysis
    BY <1>0, <1>11 DEF WritePage, WriteStory, WriteAnalysis, Write, Outputs
  <2> QED
    BY <1>1, <2>1, <2>2
<1>12. CASE ShowGraph
  <2>1. UNCHANGED <<analysis, story, out>> /\ pc = "read-projects" /\ pc' = "ended"
    BY <1>12 DEF ShowGraph, Step
  <2>2. pc' \notin Telling
    BY <2>1 DEF Telling, Writing
  <2> QED
    BY <1>1, <2>1, <2>2
<1> QED
  BY <1>2, <1>3, <1>4, <1>5, <1>6, <1>7, <1>8, <1>9, <1>10, <1>11, <1>12
     DEF ExplainNext, ExplainStep

LEMMA StoriesAreFaithful == ExplainSpec => []Faithful
<1> DEFINE Inv == BundleInv /\ AttestInv /\ Bound /\ Wholly
<1>1. ExplainInit => Inv
  BY BundleInit, AttestInit, BoundInit, WhollyInit
<1>2. Inv /\ [ExplainNext]_vars => Inv'
  BY BundleStep, AttestStep, BoundStep, WhollyStep
<1>3. Inv => Faithful
  BY DEF Wholly
<1> QED
  BY <1>1, <1>2, <1>3, PTL DEF ExplainSpec

\* Whatever was paired, renamed, moved or marked through its relations: what changed is in
\* the list of changes, or the list is at its cap (ChangeStoryBuilder._changes).
THEOREM NothingIsHidden == ExplainSpec => []NothingHidden
<1>1. Faithful => NothingHidden
  BY DEF Faithful
<1> QED
  BY <1>1, StoriesAreFaithful, PTL

\* A lane whose relations form no cycle shows each of them on a chain, or says that chains
\* were cut (ChangeStoryBuilder._chains, _lane).
THEOREM ChainsAreDisclosed == ExplainSpec => []ChainsDisclosed
<1>1. Faithful => ChainsDisclosed
  BY DEF Faithful
<1> QED
  BY <1>1, StoriesAreFaithful, PTL

\* The storyboard shows each item of its scenario once, and its arrows are relations that
\* changed, between the slots of their ends and in their own revision.
THEOREM ArrowsAreRelationsOfCode == ExplainSpec => []ArrowsAreRelations
<1>1. Faithful => ArrowsAreRelations
  BY DEF Faithful
<1> QED
  BY <1>1, StoriesAreFaithful, PTL

\* Tests and generated code displace no change of the product from the scenarios.
THEOREM TestsDisplaceNothing == ExplainSpec => []TestsNeverDisplace
<1>1. Faithful => TestsNeverDisplace
  BY DEF Faithful
<1> QED
  BY <1>1, StoriesAreFaithful, PTL
=============================================================================
