---------------------------- MODULE UnityContext ----------------------------
(***************************************************************************)
(* UnityContextBuilder (Change Lens): what a Unity project directory says  *)
(* of the compilation of an assembly, and of the assemblies it needs.      *)
(*                                                                         *)
(* A root is [projects, asmdefs, version, packages, libraries, files,      *)
(* outputs]: the generated projects by assembly name, the assembly         *)
(* definitions, the Unity and package versions (numbers, in their order),  *)
(* and the libraries, files and ScriptAssemblies there are.  A project     *)
(* compiles the files that its patterns match.                             *)
(***************************************************************************)
EXTENDS Integers, Sequences, FiniteSets

CONSTANT None

(***************************************************************************)
(* Version defines and the applicability of an assembly.                   *)
(***************************************************************************)
\* An expression is a minimum (no high end) or a range with open or closed ends.
Matches(version, e) ==
    /\ IF e.low.closed THEN version >= e.low.at ELSE version > e.low.at
    /\ e.high # None => IF e.high.closed THEN version <= e.high.at ELSE version < e.high.at

Meaningful(e) == e.high # None => e.low.at <= e.high.at

VersionDefine(root, v) ==
    LET known   == v.resource = "Unity" \/ root.packages # None
        version == IF v.resource = "Unity" THEN root.version
                   ELSE IF known /\ v.resource \in DOMAIN root.packages
                   THEN root.packages[v.resource] ELSE None
    IN  CASE version = None -> IF v.resource = "Unity" \/ ~known THEN "UNKNOWN" ELSE "NOT_DEFINED"
          [] version # None /\ ~Meaningful(v.expression) -> "INVALID"
          [] OTHER -> IF Matches(version, v.expression) THEN "DEFINED" ELSE "NOT_DEFINED"

PlatformOf == [UNITY_ANDROID |-> "Android", UNITY_IOS |-> "iOS", UNITY_TVOS |-> "tvOS",
               UNITY_WEBGL |-> "WebGL", UNITY_WSA |-> "WSA", UNITY_SWITCH |-> "Switch",
               UNITY_STANDALONE_OSX |-> "macOSStandalone",
               UNITY_STANDALONE_LINUX |-> "LinuxStandalone64", UNITY_PS4 |-> "PS4",
               UNITY_PS5 |-> "PS5", UNITY_XBOXONE |-> "XboxOne",
               UNITY_GAMECORE |-> "GameCoreXboxSeries"]

ActivePlatforms(defines) ==
    IF "UNITY_EDITOR" \in defines THEN {"Editor"}
    ELSE {PlatformOf[d] : d \in defines \cap DOMAIN PlatformOf}
         \cup (IF "UNITY_STANDALONE_WIN" \notin defines THEN {}
               ELSE IF "UNITY_64" \in defines THEN {"WindowsStandalone64"}
               ELSE {"WindowsStandalone32"})

PlatformStatus(asmdef, active) ==
    CASE asmdef.include # {} /\ asmdef.exclude # {} -> "INVALID"
      [] asmdef.include = {} /\ asmdef.exclude = {} -> "APPLICABLE"
      [] OTHER ->
            IF active = {} THEN "UNKNOWN"
            ELSE IF asmdef.include # {}
            THEN IF asmdef.include \cap active # {} THEN "APPLICABLE" ELSE "EXCLUDED"
            ELSE IF asmdef.exclude \cap active # {} THEN "EXCLUDED" ELSE "APPLICABLE"

\* A constraint is a set of terms [define, negated], or None when it cannot be read;
\* one that cannot be read leaves all of them undecided.
ConstraintStatus(asmdef, defines) ==
    LET holds(c) == \E t \in c : (t.define \in defines) # t.negated
    IN  IF None \in asmdef.constraints THEN "UNKNOWN"
        ELSE IF \A c \in asmdef.constraints : holds(c) THEN "APPLICABLE" ELSE "EXCLUDED"

Applicability(asmdef, defines) ==
    LET said == {PlatformStatus(asmdef, ActivePlatforms(defines)),
                 ConstraintStatus(asmdef, defines)}
    IN  IF "EXCLUDED" \in said THEN "EXCLUDED"
        ELSE IF said = {"APPLICABLE"} THEN "APPLICABLE" ELSE "UNKNOWN"

(***************************************************************************)
(* One assembly.  A build raises without a generated project and with two  *)
(* definitions of its name.                                                *)
(***************************************************************************)
Definitions(root, name) == {d \in root.asmdefs : d.name = name}
Buildable(root, name) ==
    name \in DOMAIN root.projects /\ Cardinality(Definitions(root, name)) <= 1

\* The status of a ProjectReference, given the outputs that have been attested.
ReferenceStatus(root, use, attested) ==
    CASE ~use.output -> "ANALYZER_ONLY"
      [] use.output /\ ~use.inside -> "OUTSIDE_UNITY_ROOT"
      [] OTHER ->
            IF use.name \in attested THEN "BOUND_ATTESTED"
            ELSE IF use.name \in root.outputs THEN "BOUND_UNVERIFIED" ELSE "MISSING"

\* What an output that is compiled against leaves open: even an attested one was built
\* by somebody else.
OutputDoubts_Attested(uses) ==
    {u.status : u \in uses} \ {"ANALYZER_ONLY", "BOUND_ATTESTED"}
OutputDoubts(uses) == {u.status : u \in uses} \ {"ANALYZER_ONLY"}

When(open, doubt) == IF open THEN {doubt} ELSE {}

Context(root, name, attested) ==
    LET project  == root.projects[name]
        asmdef   == IF Definitions(root, name) = {} THEN None
                    ELSE CHOOSE d \in Definitions(root, name) : TRUE
        versions == IF asmdef = None THEN {}
                    ELSE {[define |-> v.define, status |-> VersionDefine(root, v)] :
                             v \in asmdef.versions}
        defines  == project.defines \cup {v.define : v \in {x \in versions : x.status = "DEFINED"}}
        applies  == IF asmdef = None THEN "UNKNOWN" ELSE Applicability(asmdef, defines)
        present  == {r \in project.references : r \in root.libraries}
        uses     == {[use |-> u, status |-> ReferenceStatus(root, u, attested)] :
                        u \in project.uses}
        doubts   == UNION {
            When(asmdef = None, "asmdef"),
            When(root.version = None, "version"),
            When(defines = {}, "defines"),
            When("UnityEngine.CoreModule" \notin present /\ ~(asmdef # None /\ asmdef.noEngine),
                 "engine"),
            When(applies # "APPLICABLE", "applicability"),
            When(\E v \in versions : v.status \in {"INVALID", "UNKNOWN"}, "version defines"),
            When(present # project.references, "references"),
            When(OutputDoubts(uses) # {}, "outputs"),
            When(\E pattern \in project.compiles : pattern \cap root.files = {}, "sources")}
    IN  [asmdef |-> asmdef, applies |-> applies, uses |-> uses,
         sources |-> (UNION project.compiles) \cap root.files,
         limitations |-> doubts, completeness |-> IF doubts = {} THEN "COMPLETE" ELSE "PARTIAL"]

(***************************************************************************)
(* build_graph: the assemblies an assembly needs, followed through the     *)
(* references that are compiled against.                                   *)
(***************************************************************************)
AssembliesFrom(root, start) ==
    LET Needs(name) == {u.name : u \in {x \in root.projects[name].uses : x.output /\ x.inside}}
        named       == {start} \cup UNION {{n} \cup Needs(n) : n \in DOMAIN root.projects}
        Followed(S) == start \in S /\ \A n \in S \cap DOMAIN root.projects : Needs(n) \subseteq S
    IN  {n \in named : \A S \in SUBSET named : Followed(S) => n \in S}

AssemblyGraph(root, start) ==
    LET reached  == AssembliesFrom(root, start)
        built    == reached \cap DOMAIN root.projects
        contexts == [n \in built |-> Context(root, n, {})]
        edges    == UNION {{[src |-> n, dst |-> u.use.name, status |-> u.status] :
                               u \in contexts[n].uses} : n \in built}
        doubts   == UNION {
            When(reached # built, "missing projects"),
            When(\E e \in edges : e.status # "ANALYZER_ONLY" /\ e.dst \notin built, "unresolved"),
            When(\E n \in built : contexts[n].completeness # "COMPLETE", "partial")}
    IN  [assemblies |-> built, dependencies |-> edges, limitations |-> doubts,
         completeness |-> IF start \in built /\ doubts = {} THEN "COMPLETE" ELSE "PARTIAL"]
=============================================================================
