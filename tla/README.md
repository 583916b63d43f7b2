# Ares Workbench: TLA+ verification project

Ares Workbench is a local engineering harness. It freezes what an Owner and an
AI agreed on, lets the agent (or a driven workflow) change a source tree, runs
build, test and review steps, keeps the evidence, and lets the Owner accept or
return the result. All of its promises are about *order*: which revision was
agreed, what was tested after it was last changed, who may write a project
now, what a stop or a crash leaves behind. This directory models the parts
that keep that order, and the reports of Change Lens that an Owner judges by;
model-checks them with TLC on small instances; and proves, with TLAPS and for
instances of every size, that the Direct workflow keeps the Owner's contract and
one writer per project, the safety of the workflow coordinator and of the host around it,
that a project serves one fusion task at a time and runs it as agreed, that a report of
Change Lens is of one instant and compares what it says it does, that its story hides no
change and draws no relation the code does not have, and what its files can be relied on for.

    tlc -workers 2 -config direct_cycle.cfg MCDirectWorkflow.tla   # one run
    tlapm CoordinatorProofs.tla                                    # one module's proofs

`PROJECT.json` lists the runs, the lines each definition models (`map`), a
plausible bug for each property that makes it fail (`mutants`), the findings
and the hazards. Paths below are relative to `src/`; `src/src/...` in the
JSON is the repository's own `src` directory.

## 1. Inventory

### Components

| Component | State it keeps | Operations | Hard behaviour |
|---|---|---|---|
| **Direct workflow** (`DirectWorkflowService`, `DirectCli`) | task record (stage, revision, agreement, submitted source, evidence, decisions), the verification's ticket, checkpoint and run | create, document, agree, begin, submit, verify, align, lens, accept, feedback, recover, project | several store transactions per command, source snapshots awaited between guard and write, kill anywhere, editors at work, the Web host as a competitor |
| **Workflow coordinator** (`WorkflowCoordinator`) | one run: state, node, executions, rework count, pending request; the task's lifecycle | StartAsync, ResumeAsync, SubmitHumanAsync; internally Dispatch, Advance, Drive | stop racing completion, events that fail after the commit, deadlines and retries of steps that write, the engine ending early |
| **Workflow catalogs** | none (definitions) | Create, CreateV02, CreateFusion, Definition, Validate | a route that skips evidence |
| **Workbench host** (`WorkbenchService`, `RunQueue`) | tickets, approvals, checkpoints, project configuration; in memory: queue, tokens, coordinators waiting for a decision | RequestRun, RequestResume, RequestStop, RequestApproval, SaveProject, ProcessAsync, RecoverInterruptedAsync | pages' threads against the worker, crash with everything in memory lost, recovery itself cut short |
| **Workflow fusion** (`WorkflowFusionService`) | discussion state, native session, Ready snapshots, discussion checkpoint | create, discuss, stop, freeze, return, accept or reject | tasks that compete for one project; runs paused under an older snapshot; a session known to a checkpoint only |
| **Stores** (`SqliteWorkbenchStore`, `MemoryStores`) | the tables | atomic commits | what lies between two commits |
| **Direct documents** | document files and hashes | Validate, Save, Deliver, CaptureEvidence | files edited behind the service's back |
| **Process runner, project commands, policy, tool host** | running child processes | RunAsync, Authorize | output readers, timeout and kill order |
| **Agent framework backend, Codex adapters** | engine and child processes | ExecuteAsync | external; a step may stop, throw or hang anywhere |
| **Event sink** | an append-only file | Emit | an append that fails |
| **Web pages, legacy CLI** | instance lock | start, stop | the lease shared with the Direct command line |
| **Change Lens**: snapshots and analysis (snapshot resolver, revision analysis, C# graph difference, analyzer worker) | none between commands; within one, the bound snapshot, the renames, two graphs | analyze-change, roslyn-input, graph-diff | a worktree that changes while it is read, compiled and reported; files no digest covers; pairs that could be several |
| **Change Lens**: Unity context and evidence (`UnityContextBuilder`, `CompileManifestExporter`, `BuildProvenanceExporter`) | the compile manifest and the build provenance of an assembly, on disk | unity-context, compile-manifest, build-provenance; attesting outputs for an analysis | an edit and a rebuild between two steps of an exporter; an output built again after it was attested |
| **Change Lens**: change story and command line (`ChangeStoryBuilder`, `cli`) | the page, the story and the analysis of the last command, on disk | explain, render-report | facts lost between an analysis and its presentation; lists cut silently; a command killed between two files |

### How they interact

A *Direct* command opens the project's `.writer.lock` exclusively, loads the
task record, may await one or more snapshots of the source, and writes. Verify
calls the coordinator on a definition of its own (`DirectFlow`) and translates
the run's end into a stage. The *host* takes the same lease for as long as it
runs; its pages call `WorkbenchService` under one lock, which queues work for
one worker; the worker prepares the run without the lock, calls the
coordinator and files approval and ticket when the call returns. The
*coordinator* talks to the store, to the event sink (which may throw), to the
engine and to handlers, and its completion commit shares the lock with the
Owner's stop request. *Fusion* tasks add discussions to the same queue and
the same notion of a busy project. *Change Lens* is a separate process whose
report a Direct task may attach. Its commands share files with editors, with
Unity and with each other: an exporter writes what a later analysis binds, and
`render-report` tells again the analysis that an `explain` saved.

### What makes them correct

- Direct: one writer per project; acceptance only of a source that passed, and
  was aligned with, under the agreement in force; no evidence outlives the
  source it describes; no command decides on one record and writes another;
  nothing a crash leaves behind shuts the other tasks out.
- Coordinator: a completed run has fresh evidence in order; an accepted stop
  is honoured; events do not manufacture or undo ends; a step with an unknown
  effect is not repeated blindly; every call ends.
- Host: nothing claims to run with nobody running it; a run is completed only
  on tests made with its commands; approvals say what the run did; restarts end
  runs; tickets settle.
- Fusion: one thing at a time per project; runs execute what was agreed; what awaits
  acceptance is finished work of the latest run; one native session per task.
- Change Lens, analysis: a report is of one instant or is refused; a comparison
  pairs each node once and hides no changed relation.
- Change Lens, evidence: an output that is taken as attested was compiled of the
  sources that are reported on; complete evidence rests on no other assembly.
- Change Lens, story: a report claims no more than the analysis found, shows
  relations where they are, says what it left out, and agrees with the files
  beside it.

## 2. Modules

    DeliveryContract                    abstract: the Owner's contract
          ^ implemented by
    DirectWorkflow  <- DirectProperties <- DirectProofs <- DirectContractProofs
                                        <- MCDirectWorkflow
    WorkflowCatalog <- WorkflowCoordinator <- CoordinatorProperties <- CoordinatorProofs
                                                                    <- MCWorkflowCoordinator
                                           <- RunHost <- RunHostProperties <- HostProofs
                                                                           <- MCRunHost
    FusionTask <- FusionProperties <- FusionProofs
                                   <- MCFusionTask
    GraphDiff <- ChangeLens <- ChangeLensProperties <- ChangeLensProofs
                                                    <- MCChangeLens
    GraphDiff <- ChangeStory, ExplainChange, GraphDiffProofs
    UnityContext ... BuildProvenance <- ExplainChange <- ExplainProperties <- ExplainProofs
                     ChangeStory    ...                                    <- MCExplainChange

`A <- B` says that B extends A, `A ... B` that B has an instance of A
(`ExplainChange` has one of `ChangeStory`). `HostProofs` extends `CoordinatorProofs` as well,
and `ChangeLensProofs` and `ExplainProofs` extend `GraphDiffProofs`. Each component module holds state, one
action per operation and the specification; its properties are in a module of their own. Definitions called
`X_Something` next to an `X` are the plausible bugs of `PROJECT.json`; no
specification uses them.

### DirectWorkflow

One project, its tasks, one command process per client, the legacy host and the
outside world.

- `task[t]` is the part of the stored `DirectTask` and its lifecycle that some
  guard reads. `agr` is the frozen agreement (version, source baseline, project
  fingerprint, document version); `risk` is the agreement version the Owner
  approved, 0 when none; `captured` is the run whose evidence files the task's
  documents hold. `run[r]` bundles the four rows keyed by a run id: ticket,
  checkpoint (`stamp`, `agr`), run state and approval.
- A source snapshot is a record: the Git reference (`ref`), what the agreed
  policy covers (`inside`) and the rest (`outside`). `ValidateChanges` compares
  exactly what the code's path policy separates.
- A command that awaits a snapshot is two actions. `ReadX` evaluates every
  guard and remembers the loaded record; `X` writes *that* record back. So a
  change in between would be lost, as in the code, unless lease and revision
  prevent it. `Verify`, `Recover` and `Accept` have one action per store
  transaction.
- `Crash` ends a command anywhere. The lease goes with it, the tables stay.
- `VerifyThrows` is the catch block: from any step after the stage was saved.
- `HostStart` ... `HostSaveProject` are the legacy host as a competitor, seen
  only through what it shares with Direct tasks: lease, active legacy run,
  project profile. `EditSource` and `EditDocument` happen at any time.

`DeliveryContract` knows four phases per task, the set of sources that passed
under the agreement in force, and the accepted source. `ImplementsContract`
maps stages to phases and completed runs to passed sources; every command,
crash, recovery and edit must be one of its steps or a stutter.

### WorkflowCatalog and WorkflowCoordinator

`WorkflowCatalog` holds the definitions as data (sequence, routes, required
steps, writers, retry allowance, rework budget) and
`WorkflowDefinition.Validate`; the assumption `CatalogIsValid` has TLC evaluate
the latter on every definition of the former. `InOrder` (success leads through the
required steps in their order, findings never lead forward) and `TestsLead` (review, the
Owner's decision and delivery follow the tests, and nothing else does) are not checked by the code; they say what the proofs need of
a definition beyond its validity, and TLC evaluates them on the catalogs too
(`CatalogIsInOrder`, `CatalogTests`; `TestsLead` of all but those of the first catalog, `Create`).
`HasNext` keeps the coordinator
from looking for a successor that a definition does not have, where the code
throws.

`WorkflowCoordinator` is one run. `call.pc` is where the gate's holder stands;
each action is the code between two awaits. `call.token` is the linked
cancellation token: live, stopped by the Owner, or by the host's shutdown.
Actions follow `Dispatch` (`Execute`, `HandlerReturns`, `NodeTimeout`,
`NodeStopped`, `Settle`, then one action per route), `Advance` (`AdvanceNode`,
`CompleteRun`, `AdvanceRefused`) and `Drive` (`Return`, `StoppedEarly`,
`CatchStop`, `CatchError`). `Fault` is an exception of an event, a context
build or the engine inside `Drive`; `Escape` is one outside it.

Abstractions: store commits do not fail; the engine's own checkpoints are not
read back by the coordinator and are left out; a node's result is its outcome,
with `Failed` split into what the coordinator tells apart (retryable, or with
an unknown effect); `drive` numbers the calls for the properties' sake.

### RunHost

Extends the coordinator with what `WorkbenchService` keeps for that run.
Requests are single actions, as they hold the lock throughout; `ProcessAsync`
is split where the code leaves the lock (`TakeRun`, `Prepared` or
`NotPrepared`, `Coordinate`, `Returned`, `FileApproval`, `FileTicket`,
`CatchException`). `worker.seen` is the returned copy of the run that the code
goes on to use. `Restart` drops queue, worker, waiting coordinator and pending
decision; the four loops of `RecoverInterruptedAsync` are four steps, and the
process may die between them, too. `ticket.born` records, for the property
only, before which restart a run was requested.

### FusionTask

Several fusion tasks of one project. A run's inner life is RunHost's; here the
coordinator's call starts it, commits its end in any of its end states, and requests
fall between. The event that tells of an end may throw: `EventThrows` is the catch
block of `Drive`, which stores the run as Failed over whatever it was, Completed
included, and takes back a Delivered task only; `CallThrows` is that of `ProcessAsync`
where an event of a failure, a pause or a cancellation throws. `done` stands for a
`CurrentNode` that is null: the completion was committed, whatever is stored as the
run's state afterwards, and such a run has no target to resume. An event that throws
earlier in the call ends it as Failed or, where it leaves the call, as Blocked.
Recovery is one step, as the states between its loops are RunHost's. Drafts, turns and
revisions are left out: no guard depends on a draft's contents once it is
complete, and a request with a stale revision changes nothing. Goal and
acceptance change only with a Ready snapshot, whose version therefore stands
for them in the fingerprint.

### GraphDiff and ChangeLens

`GraphDiff` is `AnalyzerGraphDiffer.compare` as operators on two graphs: the
three rules that pair nodes (same symbol, reviewed hint, same structure), the
pairing of relations, the change labels and their two rounds of propagation,
and what makes a comparison PARTIAL. `OnlyPairs` is the idea behind all of its
groups: candidates that share a side with others are not paired. Hints are applied
in their order, each to the nodes that the ones before it left: `Hinting` is the
mappings after each of them.

`ChangeLens` is one command at a time on a worktree that others edit. `tree` is
the worktree, `base` the tree of the base commit; `pc` is the step of the
command, `todo` the paths it has still to read in that step, `got` what it read.
Every file is read at an instant of its own (`Read`, `Reread`), in the order in
which the code goes through them: by name, untracked files before those of the
index. `List` is `git ls-files`, and for a project its list of sources. The steps
of `analyze-change` are the preflight, the snapshot, a second one for the
renames, the check before assembly, a manifest held against its sources and
against the live project, the copy for the compiler, the sources for the worker,
the check after assembly, the workers and the comparison, the last check. With
`--allow-syntax-partial` and no baselines it binds and checks the changed C#
files only. `roslyn-input` binds a snapshot, reads the live Unity context, and
checks both before and after it reads the sources.

Abstractions of `ChangeLens`: a digest is the content it is taken of; one Git
command is one step; a project or manifest occupies one path, `Baseline`, and the project that
Git ignores another, `Live`; a content stands for the methods, calls and
conditions it declares, which is enough for each pairing rule and for compiler
errors. Nothing is staged, the NEW side is the worktree, and metadata references
and attested project outputs are left out, so that a context is complete when
its sources are. A path never returns to a content it had since the command
began: no comparison of digests could tell.

### UnityContext and BuildProvenance

`UnityContext` is `UnityContextBuilder` as operators on a root: the generated
projects, the assembly definitions, the versions, and the libraries, files and
outputs there are. `Context` is what the builder returns for one assembly
(applicability by platforms, define constraints and version defines, sources,
references with their status, completeness); `AssemblyGraph` has those that
are reached from one of them (the builder's walk visits each once; here they are the least
set that holds what its members need). Versions are numbers in their order; XML, paths and hashing are
left out.

`BuildProvenance` adds the world: `EditFile`, `RebuildCore` and Unity's own build,
which reads its inputs at one time (`BuildStart`) and writes its output at another
(`BuildFinish`). `disk.newer` stands for what comparing modification times can
tell; a build that an edit overlaps leaves it FALSE, and `torn` records that it
happened. The two exporters are one action per read (`HoldManifest`,
`ReadContext`, `CompareTimes`, `HashOutput`, `HashDefinition`) and one per write.
`OutputStatus` is `_attested_project_outputs` on what a snapshot binds: the
provenance must close over it, or the command fails.

### ChangeStory

`ChangeStoryBuilder.build` as operators, in the order in which the code applies
them: the two lanes with their chains, the cards, the list of changes and of
impacts, scenarios, claims and risks, the map, the daily brief, the mission, and
the storyboard with its slots and connectors. Every bound of the code is an entry
of `Limit`; labels and paths are numbers in the order of their texts, and what
the builder reads off a text (its compact form, its area, the recipe it matches,
the tokens it shares) is given by `Words` and `Area`. The code's sorts, filters and
walks up to a limit are `Sorted`, `Only` and `Unlike`, recursive functions of sets, so
that `ExplainProofs` can say what the lists hold. The wording, and the HTML
renderer, which decides nothing, are left out.

### ExplainChange

The commands, one at a time: `explain` binds the worktree, attests the output of
the one reference on both sides (`AttestOld`, `AttestNew` and the exporter's
steps, which the worktree's side runs again), analyses, checks that the snapshot
stands, tells the story in two steps, and writes page, story and analysis one
after the other; `render-report` tells a saved analysis again; `unity-context
--graph`, `compile-manifest` and `build-provenance` run too. Every guard that does
not hold ends a command with an error, and it may be killed between any two of its
steps: both are `Stop`. Binding is one step, since how a snapshot is read file by
file is `ChangeLens`'. `past` keeps the contents that were lost since the command
began, which an edit may not bring back.

## 3. Runs

| Run | Question | Instance |
|---|---|---|
| `direct_cycle` | is accepted work verified, aligned, fresh, under a frozen agreement, and does the service implement the contract? | one documented task, two run ids, two Git references, two states of the covered source, revisions to 9 |
| `direct_policy` | do the agreed policy and the risk approval stay those in force; does a verification settle? | two clients on one CRITICAL task, two uncovered states, two profiles, the host; revisions to 6 |
| `direct_pair` | exclusion, undisturbed commands and recoverability with competitors | two tasks, two run ids, the host; revisions to 5 |
| `direct_busy` | *violated*: is an idle project free? | one task, one run id |
| `run_stops` | evidence, budget, stops, orphans, deliveries, blind repeats | the CRITICAL thin definition, the Direct one and one with a retry; faults; one resume |
| `run_manufactured` | *violated*: does an event error ever leave a manufactured delivery? | Fast definitions, faults |
| `host_run` | nothing abandoned, tested as configured, decisions recorded, restarts end runs | CRITICAL fusion definition, two command versions, one resume, one restart |
| `host_settles` | tickets settle and calls return | Fast fusion definition, faults, one resume, no crash |
| `host_cancelled` | *violated*: does a cancelled run stay cancelled? | Fast fusion definition, one resume |
| `fusion_pair` | one at a time, finished where offered, attended, executed as agreed, in one session | a task that is frozen twice beside one that only discusses; two profiles, stamps and sessions; two run requests; one upset (a configuration change, a moved reference or a restart); events that throw at any end |
| `lens_report` | reports of one instant, pairs, propagation, no invented change | two source files, five contents, base commits with manifest, project or neither, clean and dirty worktrees, four lists of hints; two edits |
| `lens_explain` | what the story tells, what FRESH means, what an attested output was compiled of, how the files of a bundle agree | six galleries of starts, see below |

### Bounds

`MaxRevision` stops a task record's revisions: no command starts on a later
one. A whole round (agree, begin, submit, verify with its two saves, align,
accept) takes seven after creation; nine leave room for a second verification
after feedback or a recovery, which is what stale evidence needs. Six, in
`direct_policy`, are enough for an approved Begin, a reopened and renewed
agreement and another Begin, which is what stale approvals need, and for a whole
verification; its acceptance is left to `direct_cycle`. In `direct_pair` five leave one task a
whole verification and the other a claim. `RunIds` bounds verifications per
behaviour: two, so that an older run exists.

`MaxDrives` = 2 is a start and a resume: anything that a resume carries over
wrongly shows in the first. Rework rounds are bounded by the definitions' own
budgets. `MaxProfiles` = 2 is a change of commands between pause and resume.
`MaxCrashes` and `MaxRestarts` = 1: one restart meets every combination of
tables the instance can produce; in `host_run` the recovery itself may die at
each of its steps and begin again, which is not counted.
In `fusion_pair`, `MaxVersions` and `MaxQueue` are per task: the first is frozen
twice, because the late completion of a run of an earlier snapshot needs two
snapshots and two runs (`MaxRuns` = 2), and may have two items in the queue, so
that a stopped discussion leaves its item in front of the next; the second only
has to compete for the project and the worker. `MaxUpsets` = 1: what a run
executes is compared with what was agreed, which one change of configuration or
one restart can break.

`MaxEdits` = 2: a snapshot that no instant showed needs two edits, one before
its path is read and one after. The worktrees the run starts from save the
edits that make them dirty: a split class and a renamed file. Two sources
suffice for a move, for two candidates of one pair, and for a call between
files. The hints are none, one on a renamed method, one on a condition that stays, and
the two in a row.

`lens_explain` starts from galleries. *Together* and *Moves* are changes of one
to three files in all areas, *Renamed* and *Cached* reviewed renames and relations
that change on one side only, in complete projects and in others; they are told
with the report's bounds scaled down (`Bounds`: five relations to a lane, three
chains of two hops, seven changes, one impact, ...), so that every cut happens.
*Settings* are projects, definitions, constraints, version defines and references
of every kind `UnityContext` distinguishes. *Bundles* are three commands on one
change, with every choice of files. *Evidence* is an attested assembly with three
moves (edits of a source or of the definition, builds of the other assembly) and
three commands: an edit and a rebuild between two steps of an exporter, and an
analysis of what it wrote, need three commands at most.

Symmetry is used where the run states only invariants, action properties or
the refinement (a safety property), never with liveness.

### Deadlock

The Direct runs, the coordinator's and `lens_report` check it: somebody can always
act (a Change Lens command always ends and another may begin), and a finished
coordinator run stutters through `Terminated`. The host, fusion and `lens_explain`
runs do not: with every task done, every command issued and every bound reached
there is nothing left to do, which is where a bounded instance must stop.

### Fairness

- `DirectWorkflow!FairSpec`: weak fairness of a command's own steps. A command
  process that lives goes on executing; `VerificationSettles` makes no promise
  for one that was killed. No client, editor or host is ever obliged to act.
- `WorkflowCoordinator!Spec`: weak fairness of `Engine`. It contains
  `NodeTimeout` and `NodeStopped` but not `HandlerReturns`: each node runs under
  a deadline, and no handler is assumed to return by itself.
- `RunHost!Fairness`: the one worker and the coordinator's call go on while the
  process lives, and a process that started recovers. Requests, crashes and
  shutdowns are not fair.

## 4. Proofs

The theorems hold for every value of the constants that the modules' named
assumptions allow; every bound is a constant, so they hold for every bound.

**Direct** (`DirectProofs`, `DirectContractProofs`), for any tasks, clients, run ids, sources and profiles:

- **TypeCorrect**: `Spec => []TypeOK`. `TypeOK` alone is not inductive: Begin
  and Verify read `agr.ver` of a record a moment after a guard saw the agreement.
  `TypeInv` adds `AgreementRead`: the record such a command remembers has one.
  One lemma per command shows that the record it writes is a task record.
- **OneWriterPerProject**: `Spec => []SingleWriter`. A command decides on one
  state and writes in a later one, so exclusion alone is not inductive either.
- **CommandsAreUndisturbed**: `Spec => []CommandUndisturbed`. While a command
  runs, no other command and no host does; until its first write the record it
  read is the stored one; the project is still as free as `NoOtherWriter` found
  it; and the record is in the stage the guard asked for.

The two are proved together as `WriterInv`. The argument has three kinds of
steps. A command that starts does so under `LeaseFree`, so it is alone, and its
guards establish the clauses of `CommandUndisturbed`. A step of a running
command changes one task only; it enters `Writing` either from `Writing` or,
for Begin and Verify, with every other task outside the claim
(`OneTaskChanges`). A step of anybody else, edits of the world aside, needs the
lease, which the running command has. It is the lease that the proof rests on
(`OthersIdle`).

- **EvidenceIsFresh**, **AgreementsHold**, **CriticalWorkIsApproved**:
  `NoStaleEvidence`, `AgreementHolds`, `CriticalApproved`. `RecordInv` holds of each
  stored record what the three say of it (`RecordSound`), of each running command
  what its guards found in the record it remembers (`Undertaken`), and of Verify
  what the record is between its first write and its last (`Carried`, `Verified`).
  The remembered record matters because it is the one that is written back: a
  command that starts copies a sound record, and `WriterInv` says that it is still
  the stored one when it writes.
- **AcceptedWorkIsVerified**, **ActiveRunsAreRecoverable**: `AcceptedIsVerified`,
  `ActiveRunRecoverable`. Both relate a task to the rows of its runs, which six
  transactions of Verify write in turn, so that neither is inductive. `RowInv` says
  of each row which task it may belong to and under which agreement it completed
  (`RowSound`), of each task what the row of its run shows at its stage
  (`TaskRowed`), and of each step of a running command how far the row of its run is
  (`CommandRowed`). A crash leaves the first two, whatever the step; what they allow
  in between is what Recover and the next Verify find.
- **ServiceKeepsContract**: `Spec => ImplementsContract`, the refinement of
  `DeliveryContract`. One lemma per kind of step: a record that moves without its
  rows is a claim, a yield, a reopening or a stutter (`MoveMeetsContract`); an
  agreement starts with no passed source, because completed rows of the task carry
  older versions (`AgreeMeetsContract`); an acceptance finds the submitted source
  among the passed ones by `TaskRowed` (`AcceptMeetsContract`); a completing run is
  a `Pass`, and an event that fails after it a `Retract`, or a stutter if another
  run passed the same source (`OutcomeMeetsContract`).

Assumptions: `DirectAssumption`, and that None is neither a snapshot nor an
agreement (`NoneIsNoSnapshot`, `NoneIsNoAgreement`).

**Coordinator** (`CoordinatorProofs`), for every definition that
`WorkflowDefinition.Validate` accepts (`FlowsAreValid`), any number of calls, and
with or without faults:

- **StopsAreHonoured**, **NoRunIsOrphaned**, **DeliveredIsCompleted**,
  **NoStepRepeatsBlindly**: `StopHonoured`, `NoOrphan`, `DeliveredOnlyCompleted` and
  the action property `NoBlindRepeat`. The inductive invariant `IInv` has three
  parts. `Placed` says at which step of a call a run may have which state: only
  the last steps of a call know a completed run, and one that has returned knows
  no running one; the three state properties restate parts of it, but none is
  inductive by itself, since what a call may do next depends on where it stands.
  `Kept` is the shape of the stored run. `Clear` says that what is dispatched next
  did not just fail with an unknown effect, and is what `NoBlindRepeat` needs: the
  steps between a failure and a new execution are several, and each has to be one
  that only a known effect leads to.
- **BudgetHolds**: `ReworksBounded`. The rounds are read off the executions, the
  budget is compared with a counter; `Budgeted` relates them: the counter is at least
  the number of rounds, and greater while the execution that a counted round leads
  to is still to come (`Pending`). One lemma says what appending an execution does to the set of
  rounds.
- **EvidenceKeepsItsOrder**: `EvidenceInOrder`, for the definitions among these that are
  `InOrder`, as all of the catalogs are. It speaks of completed runs; the invariant
  `Evidenced` speaks of every run: where it stands at the k-th required step, the last
  executions of the k - 1 steps before it succeeded, one after the other. A rework goes
  back to a step that is not later, so it keeps what it still relies on; a success leads to
  the next required step or to the end, so it adds one. Without `InOrder` the claim is
  false: a valid definition may route around a step that only `ConditionsMet` asks for,
  which looks at the last execution of each and not at their order.

**Host** (`HostProofs`), for any number of configurations, resumes and restarts:

All four rest on `Base`: the shapes of the tables and of the memory, where call, run and
worker can be at the same time (`Positions`, `Attended`), and what a Waiting run waits for
(`Questioned`: the answer to its last execution). The steps of a call under the host
are the coordinator's (`CoordinateIsNext`), so its lemmas and invariants are cited, not
proved again.

- **RestartsEndRuns**: `RestartEndsRuns`, an action property, for every valid definition,
  with faults or without. A run requested before the last restart is not active once
  recovery has come past the runs' loop; `Aged` adds what keeps it so: no worker, no
  queue and no coordinator is left to start it, and it may not be resumed.
- **HistoryIsTrue**: `DecisionsRecorded`, likewise for every valid definition. The worker files
  from a copy of the run, after the call returned and after pages may have cancelled it. `Filed` says what a decision under
  way has been told (`Answered`: the execution it names ended with that outcome), that the entry it
  will close is the one of that execution, and that the copy of a run which still waits is up to
  date. An answer stands, because executions are only added and only the last may
  still change (`Continues`).
- **CompletedAsConfigured**: `TestedAsConfigured`, for definitions that are `InOrder` and
  whose tests lead (`Catalogued`). The commands may change while the run is
  paused after its tests. `Configured` says that a ticket which is queued or running
  names the commands in force, and that whatever the worker drives uses those of its
  ticket; `Tested`, that past the test node the tests were made with the ticket's commands, which
  RequestResume keeps true by sending a run back to its tests when it renames them.
- **NothingIsAbandoned**: `NothingAbandoned`, for `Catalogued` definitions and `Faults = FALSE`,
  as the run checks it: with failing events it does not hold, see the findings. `Driven` says that
  a run which is Created or Running has a call that is past neither its return nor
  its catch block, and `Held` that a Queued ticket has an item in the queue and a
  Running one the worker. The step that needs most is a recorded approval: the run is
  Running and the code that advances it stands outside the catch block, so that the
  evidence must be complete by then (`ApprovalIsFollowed`, from `Evidenced`).

Assumptions: those of the coordinator, and `HostBounds`.

**Fusion** (`FusionProofs`), for any tasks, profiles, stamps and native sessions, and
any number of runs, queued items, frozen versions and upsets:

- **SessionsStay**: `OneSession`, an action property. `SessionInv` is three
  parts: `Tables` and `Memory`, the shapes of the stored tasks and of what the
  process remembers; and `Sessioned`, which says that a task names its bound
  session or none, and that a discussion under way is one of a task that exists.
- **OneIsServed**: `OneAtATime`. A request asks `ProjectBusy` under the service's
  lock, but the worker starts what was filed earlier without asking again, and
  between the two a run may be cancelled, its task asked for another one, or the
  process restarted. So the invariant `RunInv` adds to `SessionInv` what makes the
  late start safe: `Queued`, a run is started by the one item that was filed for it
  and only while it has no state; `AtWork`, what the worker prepares or calls is
  busy already, or was cancelled and will not start; and `Single`, the exclusion
  itself. Every step that makes something busy is then a request, which
  found the project free, or goes on with what was busy before (`BusyChanged`).
- **RunsExecuteAsAgreed**, **AcceptanceIsOfLatest**, **DiscussionsAreAttended**:
  `ExecutesAsAgreed`, `AwaitingIsDelivered`, `DiscussionAttended`. What a run may
  execute is compared once, when the worker prepares it; it may then pause or wait
  for an approval while its task is discussed, frozen and run again. `AgreedInv`
  adds to `RunInv` what keeps that comparison true. `Sound` relates each run to the
  record of its task: a busy run has the snapshot in force, and one that is still to
  start has a Ready task. `Youngest` and `Ordered` say that the one to start is the
  last requested, and that runs of a task start under ever later snapshots: so a run
  that matches the snapshot in force is the latest one, which is what
  `OwnerAcceptance` asks for and `RequestResume` does not. `Talking` says that a
  discussion under way is of a task in discussion, which is why acceptance, which
  does not ask whether the project is busy, disturbs none. `Judged` is the claim about
  acceptance in a form that a step keeps: a task that awaits acceptance or is Done has a
  run that went through its workflow under the snapshot in force, and by `Ordered` no
  other run of the task has that snapshot or a later one. It speaks of `done`, not of
  the state Completed, because the catch blocks write Failed and Blocked over that. The steps are of three
  kinds: nothing is written, one task is written (`TaskWritten`), or one run, which
  may move its task on (`RunStepped`).

Assumptions: none; not even that the bounds are numbers.

**Change Lens: the report** (`ChangeLensProofs`, on the lemmas about the graph difference in
`GraphDiffProofs`), for any paths, contents, methods,
calls and conditions, any base commit and worktree, lists of hints of any length, and any
number of edits:

- **ReportsAreOneInstant**: `ReportIsOneInstant`. Each file is read at an instant of
  its own, twice, and the claim is about a worktree that stood as a whole at one of them.
  The proof finds that instant: the one at which the first reading ended. It rests on one
  fact about edits: what the worktree held and lost since the command began (`past`)
  does not come back. So every bound file is either in the worktree still or lost
  (`Bound`), and one that was lost makes the next check fail, unless that check has
  come past it, and then it read something else (`Lost`). So when the check passes, all that was bound stood together at that
  instant (`Whole`). `Following` carries this through the steps in between: the renames, the copy
  for the compiler and the sources of the worker are each compared with what was bound.
- **PartialSourcesStoodTogether**: `PartialSourcesStood`, by the same argument
  (`Standing`) for the files that a syntax-only report bound.
- **NodesPairOnce**: `PairsAreExclusive`. Each of the three rules keeps the mappings
  exclusive: the first and the third because candidates that share a side are no pair,
  the second because a hint takes nodes that no mapping has. Both rounds of propagation
  relabel the two nodes of a pair alike.
- **ContextIsUntouched**: `ContextUntouched`. A node that the propagation leaves as context
  is no endpoint of a changed relation; relabelling the pairs of the one side's endpoints
  never makes a node context again.
- **FreshReportsInventNothing**: `FreshInventsNothing`. The graph of a tree is closed
  (each relation links its nodes, each node is in a file of it: `GraphClosed`); compared
  with itself it pairs each node with itself, or a group is ambiguous and the report is
  PARTIAL (`DiffOfSame`).

A list of hints has any length, so the second rule needs induction over it. The induction
theorems of the library take an operator; `LeastNumber`, that a set of numbers has a
least one, takes a set, and says as much.

Assumptions: that paths and contents are what they are used as (`SourcesAreNumbers`,
`PathsDistinct`, `NoneIsNoList`, `NoneIsNoScope`, `HintsAreLists`, `StartsAreTrees`), that
the calls and conditions of a content are of methods it declares (`CodeIsClosed`), and that
a project names source files (`ProjectsNameSources`).

**Change Lens: its files** (`ExplainProofs`), for any worktree, contents, Unity project, number
of edits, builds, exports and commands:

- **BundlesAgree**: `BundleAgrees`. `BundleInv` follows the files through the
  writes: numbers of analyses only grow (`Numbered`); while a command writes, the
  analysis on disk is its own or an older one, and what it has written so far bears
  its own number (`Written`).
- **AttestedOutputsAreCompiled**: `AttestedIsCompiled`. `AttestInv` is built on one
  fact about `past`: since an edit never brings back what was lost while the
  command runs, a bound file that differs now will differ at the last check
  (`Lost`). `Fresh` says that an output that is not older than its inputs is built
  of the files there are, unless a build was torn; `Held`, that the files are the
  bound ones or one of them is lost; `Taken` carries, from the comparison of times
  to the end of the command, that the output it read is built of what is bound,
  or a file is lost, or a build was torn (`Traced`). The last check excludes the
  second, the property the third.

- **FreshIsAlone**, **PartialStoriesSaySo**: `FreshStandsAlone`, `PartialIsSaid`. Both follow
  a fact about an analysis (`Sure`) from the command that computes it, over the disk, to the
  command that tells it again: it is FRESH exactly if its difference is complete, and then both
  contexts are. A complete context has no reference that is compiled against
  (`CompleteStandsAlone`), so a complete assembly graph reaches nothing but its root
  (`CompleteGraphIsOne`). The story repeats the status in five places, each
  computed on its own: `Plain` has the claims, `RisksSaySo` and `ChecksSaySo` the lists that are cut,
  at four risks and three checks, but never before the mark.

- **NothingIsHidden**, **ChainsAreDisclosed**, **ArrowsAreRelationsOfCode**,
  **TestsDisplaceNothing**: `NothingHidden`, `ChainsDisclosed`, `ArrowsAreRelations`,
  `TestsNeverDisplace`. The inductive invariant has two parts. `Bound`: what is on disk and what a
  command bound of it is code wherever it is compiled. `Wholly`: an analysis is *whole* while a
  command holds it and where it was saved for `render-report` (two finite graphs whose relations
  end at their nodes, pairs that exclude each other, a label that is the same on both sides of
  a pair, and ADDED or REMOVED on what has none: `Whole`, from the lemmas of `GraphDiffProofs`),
  and a story that is about to be drawn was told of a whole analysis (`Related`). The four
  properties follow from that:
  - *Lists.* A sorted list has each element of its set once, whatever the key (`SortedIsAll`);
    cut by a test it has what passes (`OnlyIs`); walked up to a limit it takes no two that are
    alike, and what it leaves is like something it took unless the limit is reached (`UnlikeIs`,
    `UnlikeTakes`). `ChangesAreListed` is this for the list of changes: pairs whose sides changed
    are listed together because their labels agree, all else by itself.
  - *Scenarios.* A candidate is of a test or generated only if no node of the product changed
    (`CandidatesAre`); buckets, sides and scenarios only take from candidates (`BucketsAre`,
    `PickSideIs`, `ScenarioIs`, `ScenariosAre`).
  - *Board.* The items of a side say different things, so at most one of those after says
    what an item before says: each has one slot, and the slots are not more than the
    seven that are kept (`SlotsAre`, `ItemsInOneSlot`). `ConnectorsAre` is the arrows.
  - *Chains.* A walk met the nodes of its path, each the source of a relation to the next
    (`Walk`), and stops early only at a node it has met. If the relations of a lane form no cycle,
    there is none to meet (`EveryRelationLeadsOn`), every node is reached from a root
    (`EveryNodeIsReached`), or a walk was cut by the number of hops; and a walk that is not
    cut ends, on a chain that is listed (`WalksEnd`, `ChainsAre`). Without `Acyclic` the claim
    is false, as the property says.

Assumptions: `UsedIsNotCore`, `NoneIsNoNumber`, `NoneIsNoRisk`, `RequestsAreCommands`, and about the
starts that an output which is not older than its inputs is one of them
(`StartsAreBuilt`) and that their records have the fields they should
(`StartsAreTyped`). For the four about stories: that a content declares finitely many nodes and
relations (`CodeIsFinite`), that the paths of an assembly's sources hold code and none is
a file of the Unity project besides (`SourcesAreCode`), that hints are a list
(`HintsAreList`), and that the limits are positive, with at most seven items on the two sides
of a scenario (`LimitsAre`; `_MAX_SCENARIO_BEFORE` and `_MAX_SCENARIO_AFTER` are 3 and 4).

**Model-checked only.** Liveness under fairness (`VerificationSettles`,
`TicketSettles`, `CallReturns`), which the prover does not reach. `CancelledStays`,
`IdleProjectIsNotBusy` and `NothingManufactured` are not kept by the code (see the findings).
Every other property of a run is a theorem.

## 5. Findings

1. `direct_busy`: Verify saves its ticket as Running before its stage. A
   process killed in between leaves a ticket that neither Recover (the stage is
   not Checking) nor the host's recovery (Direct tasks are skipped) touches; the
   host refuses configuration changes and runs of that project for good.
2. `run_manufactured`: an event that fails after the completion commit fails
   the run and takes a Delivered task back, as the comment there promises, but
   leaves a task of a definition with acceptance in AwaitingAcceptance, from
   which no operation of the host moves it. `FusionTask` has the same end:
   `AwaitingIsDelivered` therefore promises the Owner a run that was done under the
   snapshot in force, not one whose stored state is Completed. A task may also be
   Done over a Failed run, when the Owner accepts between the completion commit and
   the event that fails; what was accepted is then finished work all the same.
3. `host_cancelled`: a cancel that arrives while the worker prepares the run's
   resume is undone by the catch block, which makes every run that is not
   completed Blocked.

Behaviours that contradict no checked property, but that a reader should know of,
are recorded under `hazards`.

- Feedback takes a Ready task into the claim without asking for it, and lets its
  first Begin skip the comparison with the agreed baseline.
- An approval entry can be filed Waiting on a run cancelled just before.
- An event that fails right after a recorded approval leaves the run Running with
  nobody driving it until the next restart (`NothingAbandoned` is therefore checked
  with events that do not fail).
- A syntax-only report checks the files it bound and nothing else, so that a changed
  path that was absent when the paths were bound and appears afterwards goes
  unnoticed, although `SNAPSHOT_CONTRACT.en.md` calls a binding stale on any
  addition; `PartialSourcesStood` states what does hold.
- The story cuts its changes at 120 and its impacts at 40 without a limitation, and
  shows relations that form a cycle entered from nowhere on no chain
  (`NothingHidden` and `ChainsDisclosed` say so). Further cuts that no property
  speaks of: an area bucket of the map shows one item per side; a rename across
  buckets is shown as an addition; a move into generated or test code, as a removal.
- The recorded provenance may attest an output of other sources than it names, when
  an edit and a rebuild fall between the exporter's steps. The worktree's analysis
  exports again and checks its snapshot last; the base commit's compares hashes
  only. A build that an edit overlaps passes the comparison of times (`torn`).
- A hint may name the label of any node, a condition too, and marks it MODIFIED even
  where the sources are equal: `FreshInventsNothing` is about reports without hints.
- Any reference that is compiled against makes a context PARTIAL, an attested one
  too: a COMPLETE assembly graph is a single assembly (`FreshStandsAlone`).

## 6. Not modelled, and the plan

- **Stores, event sink, Codex adapters, agent framework**: input and output. Store
  commits are atomic and do not fail in the coordinator, host and fusion modules;
  in DirectWorkflow a store write that throws is part of `VerifyThrows` and `Crash`.
  Events that throw, and engines that stop anywhere, are faults of the coordinator;
  in `FusionTask` they are the ends of its call.
- **Process runner**: output readers, timeout and kill of one child process. Its
  result is an outcome of the coordinator's nodes; the races inside it are the
  operating system's as much as the code's.
- **Workspace policy, tool host, project commands**: path and risk decisions that
  keep no state from one call to the next.
- **Direct documents, web pages, legacy CLI**: text, rendering and argument parsing,
  but for what the Direct module reads of them.
- **Change Lens**: parsing of Unity and build files, hashing, wording and HTML;
  staged changes and comparisons of two commits, which read objects that nobody
  changes; metadata references, whose digests are checked like those of sources.

What could come next: what the order of the story's lists puts first when a cut
takes the rest (the proofs hold for every order); an abstract
specification of a report (the comparison of two instants, or a refusal) that
`ChangeLens` implements; staged renames.
