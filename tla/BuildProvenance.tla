--------------------------- MODULE BuildProvenance ---------------------------
(***************************************************************************)
(* The compile manifest and the build provenance of an assembly (Change    *)
(* Lens), exported from a worktree that editors and Unity go on changing.  *)
(*                                                                         *)
(* A digest is the content it is taken of, and the bytes of an assembly    *)
(* are the inputs it was built of.  One file, the assembly definition,     *)
(* stands for all that provenance records besides sources and outputs: the *)
(* Unity version and the package lock are bound in the same way.           *)
(***************************************************************************)
EXTENDS Integers, Sequences, FiniteSets, Functions

CONSTANTS
    Starts,     \* a base commit, a worktree, what Unity generated, requests and bounds
    Contents,   \* what an editor may write to a path
    Used,       \* the assembly that is built by Unity and attested
    Core,       \* an assembly that Used is compiled against
    Definition, \* the path of the assembly definition of Used
    Absent, None

Present(files) == Restrict(files, {p \in DOMAIN files : files[p] # Absent})

\* The sources of Used among the files of a revision, and what an output was built of.
CompiledBy(unity, files) ==
    Restrict(files, (UNION unity.projects[Used].compiles) \cap DOMAIN Present(files))

BuiltOf(output, unity, files) ==
    /\ output.sources = CompiledBy(unity, files)
    /\ output.definition = files[Definition]

ASSUME UsedIsNotCore == Used # Core
ASSUME NoneIsNoNumber == None \notin Nat

\* An output that is not older than its inputs is an output of them.
ASSUME StartsAreBuilt ==
    \A s \in Starts :
        ~s.disk.newer /\ s.disk.outputs[Used] # None =>
            BuiltOf(s.disk.outputs[Used], s.unity, s.disk.files)

ASSUME StartsAreTyped ==
    \A s \in Starts :
        /\ s.disk = [f \in {"files", "compile", "provenance", "outputs", "newer"} |-> s.disk[f]]
        /\ s.disk.newer \in BOOLEAN
        /\ s.disk.files = [p \in DOMAIN s.disk.files |-> s.disk.files[p]]
        /\ Definition \in DOMAIN s.disk.files
        /\ s.disk.outputs = [a \in {Used, Core} |-> s.disk.outputs[a]]

VARIABLES
    start,    \* the start this behaviour has, which never changes
    disk,     \* [files, compile, provenance, outputs, newer]; newer: an input is newer than Used
    building, \* what Unity has read for the build in progress, or None
    torn,     \* an input changed between the start and the end of a build
    past,     \* the contents that paths had and lost since the command began
    moves,    \* changes of the worktree so far
    command,  \* the command that runs, or the last one
    pc,       \* its step
    draft     \* what an exporter has read so far, or None

diskVars == <<start, disk, building, torn, past, moves>>

Unity == INSTANCE UnityContext

\* The Unity project as a set of files shows it, with the outputs there are.
RootOf(files, outputs) ==
    [start.unity EXCEPT
        !.files   = @ \cup DOMAIN Present(files),
        !.asmdefs = {d \in @ : d.path \in DOMAIN Present(files)},
        !.outputs = outputs]

LiveRoot == RootOf(disk.files, {a \in {Used, Core} : disk.outputs[a] # None})

(***************************************************************************)
(* Editors and Unity, which builds what is out of date.  A path never      *)
(* returns to a content it lost while a command runs: re-reading cannot    *)
(* tell a restored file from an untouched one.                             *)
(***************************************************************************)
Compiles == UNION start.unity.projects[Used].compiles
SourcesOf(files) == CompiledBy(start.unity, files)

Inputs == [sources |-> SourcesOf(disk.files), definition |-> disk.files[Definition],
           core    |-> disk.outputs[Core]]

Observed == Compiles \cup {Definition}

EditFile ==
    /\ moves < start.moves
    /\ moves' = moves + 1
    /\ \E p \in DOMAIN Contents \cap DOMAIN disk.files : \E c \in Contents[p] \ {disk.files[p]} :
        /\ pc # "ended" => <<p, c>> \notin past
        /\ LET files == [disk.files EXCEPT ![p] = c]
           IN  disk' = [disk EXCEPT !.files = files, !.newer = (@ \/ p \in Observed)]
        /\ past' = past \cup {<<p, disk.files[p]>>}
    /\ UNCHANGED <<start, building, torn, command, pc, draft>>

RebuildCore ==
    /\ moves < start.moves
    /\ moves' = moves + 1
    /\ disk.outputs[Core] # None
    /\ disk' = [disk EXCEPT !.outputs[Core] = @ + 1, !.newer = TRUE]
    /\ UNCHANGED <<start, building, torn, past, command, pc, draft>>

BuildStart ==
    /\ building = None
    /\ disk.newer \/ disk.outputs[Used] = None
    /\ building' = Inputs
    /\ UNCHANGED <<start, disk, torn, past, moves, command, pc, draft>>

\* The output is written last, so that it is newer than every input.
BuildFinish ==
    /\ building # None
    /\ disk' = [disk EXCEPT !.outputs[Used] = building, !.newer = FALSE]
    /\ torn' = (torn \/ building # Inputs)
    /\ building' = None
    /\ UNCHANGED <<start, past, moves, command, pc, draft>>

(***************************************************************************)
(* CompileManifestExporter.build and BuildProvenanceExporter.build.  They  *)
(* raise, and the command fails, where a guard of a step does not hold.    *)
(***************************************************************************)
CompileManifest == [sources |-> SourcesOf(disk.files)]

CompileReady == Unity!Buildable(LiveRoot, Used)

Step(next) == pc' = next

ReadCompile ==
    /\ pc = "read-compile"
    /\ CompileReady
    /\ draft' = CompileManifest
    /\ Step("write-compile")
    /\ UNCHANGED <<diskVars, command>>

\* A temporary file is renamed over the manifest.
WriteCompile ==
    /\ pc = "write-compile"
    /\ disk' = [disk EXCEPT !.compile = draft]
    /\ draft' = None
    /\ Step("ended")
    /\ UNCHANGED <<start, building, torn, past, moves, command>>

\* The manifest must be there and be what would be exported now.
ManifestStands == disk.compile # None /\ CompileReady /\ disk.compile = CompileManifest

HoldManifest ==
    /\ pc = "hold-manifest"
    /\ ManifestStands
    /\ draft' = [compile |-> disk.compile, inputs |-> None, output |-> None, definition |-> None]
    /\ Step("read-context")
    /\ UNCHANGED <<diskVars, command>>

\* Every assembly it is compiled against must have an output to hash.
ReadContext ==
    /\ pc = "read-context"
    /\ CompileReady
    /\ LET context == Unity!Context(LiveRoot, Used, {})
       IN  /\ context.asmdef # None
           /\ start.unity.version # None
           /\ \A u \in context.uses : u.use.output => u.status = "BOUND_UNVERIFIED"
    /\ draft' = [draft EXCEPT !.inputs = disk.outputs[Core]]
    /\ Step("compare-times")
    /\ UNCHANGED <<diskVars, command>>

NotOlder == ~disk.newer

CompareTimes ==
    /\ pc = "compare-times"
    /\ disk.outputs[Used] # None
    /\ NotOlder
    /\ Step("hash-output")
    /\ UNCHANGED <<diskVars, command, draft>>

HashOutput ==
    /\ pc = "hash-output"
    /\ draft' = [draft EXCEPT !.output = disk.outputs[Used]]
    /\ Step("hash-definition")
    /\ UNCHANGED <<diskVars, command>>

HashDefinition ==
    /\ pc = "hash-definition"
    /\ disk.files[Definition] # Absent
    /\ draft' = [draft EXCEPT !.definition = disk.files[Definition]]
    /\ Step(IF command.kind = "explain" THEN "compare-provenance" ELSE "write-provenance")
    /\ UNCHANGED <<diskVars, command>>

WriteProvenance ==
    /\ pc = "write-provenance"
    /\ disk' = [disk EXCEPT !.provenance = draft]
    /\ draft' = None
    /\ Step("ended")
    /\ UNCHANGED <<start, building, torn, past, moves, command>>

(***************************************************************************)
(* _attested_project_outputs: the provenance a snapshot binds must close   *)
(* over what it binds: each source of the manifest is there and the same.  *)
(***************************************************************************)
Closes(snapshot) ==
    /\ snapshot.compile # None
    /\ snapshot.compile = snapshot.provenance.compile
    /\ \A p \in DOMAIN snapshot.compile.sources :
          p \in DOMAIN snapshot.files /\ snapshot.files[p] = snapshot.compile.sources[p]
    /\ snapshot.files[Definition] # Absent
    /\ snapshot.files[Definition] = snapshot.provenance.definition

\* "none" leaves the reference without an output; "stale" fails the command.
OutputStatus(snapshot) ==
    CASE snapshot.provenance = None -> "none"
      [] snapshot.provenance # None /\ ~Closes(snapshot) -> "stale"
      [] OTHER -> IF disk.outputs[Used] = None THEN "none"
                  ELSE IF disk.outputs[Used] = snapshot.provenance.output THEN "exact"
                  ELSE "other"

ProvenanceStep ==
    \/ EditFile \/ RebuildCore \/ BuildStart \/ BuildFinish
    \/ ReadCompile \/ WriteCompile
    \/ HoldManifest \/ ReadContext \/ CompareTimes \/ HashOutput \/ HashDefinition
    \/ WriteProvenance
=============================================================================
