--------------------------- MODULE DirectWorkflow ---------------------------
(***************************************************************************)
(* The Direct workflow of one project: DirectWorkflowService behind the    *)
(* `direct` command line, the legacy Web host that may take the project's  *)
(* writer lease instead, and an environment that edits source files, task  *)
(* documents and the Git reference whenever it likes.                      *)
(*                                                                         *)
(* One command process runs at a time (DirectCli opens .writer.lock with   *)
(* FileShare.None); it may die between any two of its store writes.  A     *)
(* command that awaits a source snapshot is two actions: the read, which   *)
(* evaluates every guard and keeps the task record it loaded, and the      *)
(* save, which writes that record back.  Verify and Recover make several   *)
(* writes and take one action for each.                                    *)
(***************************************************************************)
EXTENDS Integers

CONSTANTS Clients,        \* command processes, one conversation each
          Tasks,          \* Direct tasks of the project
          CriticalTasks,  \* those created with Risk.Critical
          DocTasks,       \* those created with requiresDocuments
          RunIds,         \* verification run ids (GUIDs in the code)
          Refs,           \* workspace stamps: HEAD, branch, instructions
          Inside,         \* states of the source the agreed policy covers
          Outside,        \* states of the rest of the source
          Profiles,       \* fingerprints a project profile may have
          ObserverOnly,   \* the Web setting: TRUE keeps the legacy host away
          MaxRevision,    \* bound: no command starts on a later revision
          None

ASSUME DirectAssumption ==
    /\ MaxRevision \in Nat
    /\ ObserverOnly \in BOOLEAN
    /\ CriticalTasks \subseteq Tasks
    /\ DocTasks \subseteq Tasks
    /\ None \notin Tasks \cup RunIds \cup Profiles

\* A source snapshot.
Snapshots == [ref : Refs, inside : Inside, outside : Outside]

ASSUME NoneIsNoSnapshot == None \notin Snapshots

VARIABLES task,     \* the tasks table (Direct part)
          run,      \* per run id: its ticket, checkpoint, run and approval rows
          profile,  \* fingerprint of the stored project profile
          source,   \* what a snapshot of the working tree would return
          intact,   \* per task: its document files still hash as recorded
          legacy,   \* some legacy task of the project has an active run
          host,     \* the legacy Web host is up and holds the lease
          known,    \* the revision each client last read of each task
          cmd       \* the command each client is executing

world == <<profile, source, intact, legacy, host>>
vars == <<task, run, profile, source, intact, legacy, host, known, cmd>>

Stages == {"Absent", "Discussing", "Ready", "Implementing", "Submitted",
           "Checking", "Rework", "Blocked", "AwaitingAcceptance", "Done"}
Claiming == {"Implementing", "Submitted", "Checking", "Rework", "Blocked",
             "AwaitingAcceptance"}
Lives == {"Discussing", "Ready", "Active", "AwaitingAcceptance", "Done"}
ActiveStates == {"Created", "Running"}
RunStates == ActiveStates \cup
    {"None", "Completed", "Failed", "ReworkRequired", "Cancelled", "Blocked"}
Tickets == {"None", "Running", "Finished", "Interrupted"}

Agreements == [ver : Nat, base : Snapshots, profile : Profiles, docs : Nat]
ASSUME NoneIsNoAgreement == None \notin Agreements
Evidence == [run : RunIds \cup {None}, stamp : Snapshots \cup {None}]
TaskRecord ==
    [stage : Stages, rev : Nat, life : Lives, agr : Agreements \cup {None},
     risk : Nat, submitted : Snapshots \cup {None}, run : RunIds \cup {None},
     align : Evidence \cup {None}, lens : Evidence \cup {None},
     docs : Nat, reqDocs : BOOLEAN, captured : RunIds \cup {None}]
RunRecord == [task : Tasks \cup {None}, ticket : Tickets, state : RunStates,
              stamp : Snapshots \cup {None}, agr : Nat, approved : BOOLEAN]
Ops == {"agree", "begin", "submit", "verify", "align", "lens", "accept", "recover"}
Steps == {"save", "approve", "ticket", "checkpoint", "checking", "start",
          "created", "running", "settle", "finish", "audit", "caught",
          "abandon", "recover"}
Idle == [op |-> "idle", task |-> None, read |-> None, snap |-> None,
         run |-> None, step |-> "idle"]
Command == [op : Ops, task : Tasks, read : TaskRecord, snap : Snapshots,
            run : RunIds \cup {None}, step : Steps]
NoTask == [stage |-> "Absent", rev |-> 0, life |-> "Discussing", agr |-> None,
           risk |-> 0, submitted |-> None, run |-> None, align |-> None,
           lens |-> None, docs |-> 0, reqDocs |-> FALSE, captured |-> None]
NoRun == [task |-> None, ticket |-> "None", state |-> "None",
          stamp |-> None, agr |-> 0, approved |-> FALSE]

Init ==
    /\ task = [t \in Tasks |-> NoTask]
    /\ run = [r \in RunIds |-> NoRun]
    /\ profile \in Profiles
    /\ source \in Snapshots
    /\ intact = [t \in Tasks |-> TRUE]
    /\ legacy = FALSE
    /\ host = FALSE
    /\ known = [c \in Clients |-> [t \in Tasks |-> 0]]
    /\ cmd = [c \in Clients |-> Idle]

-----------------------------------------------------------------------------
(* Guards shared by the commands.                                          *)

\* The file lease is released by the operating system with its process.
LeaseFree == ~host /\ \A c \in Clients : cmd[c] = Idle

Editable(c, t, allowed) ==
    /\ LeaseFree
    /\ known[c][t] = task[t].rev
    /\ task[t].stage \in allowed
    /\ task[t].rev < MaxRevision

\* (variant) AwaitingAcceptance is left out of the claim
NoOtherWriter_AcceptancePending(t) ==
    /\ \A u \in Tasks \ {t} :
           task[u].stage \notin Claiming \ {"AwaitingAcceptance"}
    /\ ~legacy

NoOtherWriter(t) ==
    /\ \A u \in Tasks \ {t} : task[u].stage \notin Claiming
    /\ \A r \in RunIds : run[r].task # t => run[r].state \notin ActiveStates
    /\ ~legacy

DocumentsValid(t) == task[t].reqDocs => task[t].docs # 0 /\ intact[t]

FrozenProject(t) ==
    /\ DocumentsValid(t)
    /\ task[t].agr # None
    /\ task[t].agr.profile = profile

ValidateChanges(t, s) ==
    /\ s.ref = task[t].agr.base.ref
    /\ s.outside = task[t].agr.base.outside

LastRunCompleted(t) ==
    task[t].run # None /\ run[task[t].run].state = "Completed"

-----------------------------------------------------------------------------
(* What commands write.                                                    *)

Save(t, r) == task' = [task EXCEPT ![t] = [r EXCEPT !.rev = @ + 1]]
Goto(c, step) == cmd' = [cmd EXCEPT ![c].step = step]
Exit(c) == cmd' = [cmd EXCEPT ![c] = Idle]
At(c, op, step) == cmd[c].op = op /\ cmd[c].step = step

\* (variant) alignment and report survive
Unproven_KeepsEvidence(k) == [k EXCEPT !.submitted = None]

\* The record with its submission and all that was said about it dropped.
Unproven(k) == [k EXCEPT !.submitted = None, !.align = None, !.lens = None]

\* Moving a record to a stage, with the lifecycle that goes with it.
Staged(k, stage) ==
    [k EXCEPT !.stage = stage,
              !.life = IF stage \in Lives THEN stage ELSE "Active"]

\* One write to the row of the command's run, and on to the next step.
RunStep(c, op, from, to, row) ==
    /\ At(c, op, from)
    /\ run' = [run EXCEPT ![cmd[c].run] = row]
    /\ Goto(c, to)
    /\ UNCHANGED <<task, world, known>>

\* One write of a task record, and on to the next step.
TaskStep(c, op, from, to, k) ==
    /\ At(c, op, from)
    /\ Save(cmd[c].task, k)
    /\ Goto(c, to)
    /\ UNCHANGED <<run, world, known>>

\* The last write of a command.
LastWrite(c, op, k) ==
    /\ At(c, op, "save")
    /\ Save(cmd[c].task, k)
    /\ Exit(c)
    /\ UNCHANGED <<run, world, known>>

-----------------------------------------------------------------------------
(* Commands that make one store write and await nothing before it.         *)

Create(c, t) ==
    /\ LeaseFree
    /\ task[t].stage = "Absent"
    /\ task' = [task EXCEPT ![t] = [@ EXCEPT !.stage = "Discussing",
                                            !.reqDocs = t \in DocTasks]]
    /\ UNCHANGED <<run, world, known, cmd>>

Document(c, t) ==
    /\ Editable(c, t, {"Discussing"})
    /\ Save(t, [Staged(task[t], "Discussing") EXCEPT
            !.docs = @ + 1, !.reqDocs = TRUE, !.align = None, !.lens = None])
    /\ intact' = [intact EXCEPT ![t] = TRUE]
    /\ UNCHANGED <<run, profile, source, legacy, host, known, cmd>>

Feedback(c, t, scopeChange) ==
    /\ Editable(c, t, {"Ready", "Implementing", "Submitted", "Rework",
                       "Blocked", "AwaitingAcceptance"})
    /\ Save(t, Staged(Unproven(task[t]),
                      IF scopeChange THEN "Discussing" ELSE "Rework"))
    /\ UNCHANGED <<run, world, known, cmd>>

\* `direct project`: refused while a task is past discussion and unfinished.
SaveProject(p) ==
    /\ LeaseFree
    /\ \A t \in Tasks : task[t].stage \in {"Absent", "Discussing"}
                        \/ task[t].life = "Done"
    /\ ~legacy
    /\ p # profile
    /\ profile' = p
    /\ UNCHANGED <<task, run, source, intact, legacy, host, known, cmd>>

\* `direct status` takes no lease.
Status(c, t) ==
    /\ cmd[c] = Idle
    /\ known[c][t] # task[t].rev
    /\ known' = [known EXCEPT ![c][t] = task[t].rev]
    /\ UNCHANGED <<task, run, world, cmd>>

-----------------------------------------------------------------------------
(* Commands that await a snapshot: the read takes it and checks the guards. *)

CanAgree(t) == NoOtherWriter(t) /\ DocumentsValid(t)

CanBegin(t) ==
    /\ NoOtherWriter(t)
    /\ FrozenProject(t)
    /\ source.ref = task[t].agr.base.ref
    /\ task[t].stage = "Ready" => source = task[t].agr.base

CanSubmit(t) == FrozenProject(t) /\ ValidateChanges(t, source)

\* (variant) any source within policy is verified, submitted or not
CanVerify_AnySource(t) ==
    /\ NoOtherWriter(t)
    /\ task[t].submitted # None
    /\ FrozenProject(t)
    /\ ValidateChanges(t, source)

CanVerify(t) ==
    /\ NoOtherWriter(t)
    /\ task[t].submitted # None
    /\ FrozenProject(t)
    /\ ValidateChanges(t, source)
    /\ source = task[t].submitted

CanAlign(t) ==
    /\ FrozenProject(t)
    /\ task[t].reqDocs
    /\ LastRunCompleted(t)
    /\ source = task[t].submitted
    /\ task[t].captured # None

CanLens(t) == FrozenProject(t) /\ source = task[t].submitted

\* (variant) a completed run is enough, aligned or not
CanAccept_Unaligned(t) ==
    FrozenProject(t) /\ LastRunCompleted(t) /\ source = task[t].submitted

CanAccept(t) ==
    /\ FrozenProject(t)
    /\ LastRunCompleted(t)
    /\ task[t].reqDocs =>
           /\ task[t].align = [run |-> task[t].run, stamp |-> task[t].submitted]
           /\ task[t].captured # None
    /\ source = task[t].submitted

Read(c, t, op, allowed, guard, step, r) ==
    /\ Editable(c, t, allowed)
    /\ guard
    /\ cmd' = [cmd EXCEPT ![c] =
                 [op |-> op, task |-> t, read |-> task[t], snap |-> source,
                  run |-> r, step |-> step]]
    /\ UNCHANGED <<task, run, world, known>>

ReadAgree(c, t) ==
    Read(c, t, "agree", {"Discussing"}, CanAgree(t), "save", None)
ReadBegin(c, t) ==
    Read(c, t, "begin", {"Ready", "Rework", "Blocked"}, CanBegin(t), "save", None)
ReadSubmit(c, t) ==
    Read(c, t, "submit", {"Implementing"}, CanSubmit(t), "save", None)
ReadVerify(c, t, r) ==
    /\ run[r].ticket = "None"
    /\ Read(c, t, "verify", {"Submitted", "Blocked"}, CanVerify(t), "ticket", r)
ReadAlign(c, t) ==
    Read(c, t, "align", {"AwaitingAcceptance"}, CanAlign(t), "save", None)
ReadLens(c, t) ==
    Read(c, t, "lens", {"AwaitingAcceptance"}, CanLens(t), "save", task[t].run)
ReadAccept(c, t) ==
    Read(c, t, "accept", {"AwaitingAcceptance"}, CanAccept(t), "save", task[t].run)
ReadRecover(c, t) ==
    Read(c, t, "recover", {"Checking"}, TRUE, "recover", task[t].run)

-----------------------------------------------------------------------------
(* The writes of those commands, made from the record that was read.       *)

\* (variant) a new agreement inherits the risk approval of the last one
Agreed_KeepsApproval(k, s) ==
    [Staged(Unproven(k), "Ready") EXCEPT
        !.agr = [ver |-> (IF k.agr = None THEN 0 ELSE k.agr.ver) + 1,
                 base |-> s, profile |-> profile, docs |-> k.docs]]

Agreed(k, s) ==
    [Staged(Unproven(k), "Ready") EXCEPT
        !.agr = [ver |-> (IF k.agr = None THEN 0 ELSE k.agr.ver) + 1,
                 base |-> s, profile |-> profile, docs |-> k.docs],
        !.risk = 0]

Agree(c) == LastWrite(c, "agree", Agreed(cmd[c].read, cmd[c].snap))

\* `risk` holds the agreement version the Owner's approval was given for.
Begin(c, approval) ==
    LET old == cmd[c].read IN
    /\ (cmd[c].task \in CriticalTasks /\ old.risk = 0) => approval
    /\ LastWrite(c, "begin", [Staged(Unproven(old), "Implementing") EXCEPT
                    !.risk = IF approval THEN old.agr.ver ELSE @])

Submit(c) ==
    LastWrite(c, "submit", [Staged(cmd[c].read, "Submitted") EXCEPT
                   !.submitted = cmd[c].snap])

\* Deliver validates the document files once more before it rewrites one.
Align(c) ==
    LET old == cmd[c].read IN
    /\ cmd[c].op = "align"
    /\ intact[cmd[c].task]
    /\ LastWrite(c, "align", [Staged(old, "AwaitingAcceptance") EXCEPT
                    !.align = [run |-> old.run, stamp |-> cmd[c].snap]])

RecordLens(c) ==
    LET old == cmd[c].read IN
    LastWrite(c, "lens", [old EXCEPT
                   !.lens = [run |-> cmd[c].run, stamp |-> old.submitted]])

Accept(c) ==
    TaskStep(c, "accept", "save", "approve", Staged(cmd[c].read, "Done"))

SaveApproval(c) ==
    /\ At(c, "accept", "approve")
    /\ run' = [run EXCEPT ![cmd[c].run].approved = TRUE]
    /\ Exit(c)
    /\ UNCHANGED <<task, world, known>>

-----------------------------------------------------------------------------
(* Verify: ticket, checkpoint, stage, then the run the coordinator drives. *)

Row(c) == run[cmd[c].run]
InState(c, state) == [Row(c) EXCEPT !.state = state]

VerifyTicket(c) ==
    RunStep(c, "verify", "ticket", "checkpoint",
            [Row(c) EXCEPT !.ticket = "Running", !.task = cmd[c].task])

VerifyCheckpoint(c) ==
    RunStep(c, "verify", "checkpoint", "checking",
            [Row(c) EXCEPT !.stamp = cmd[c].snap, !.agr = cmd[c].read.agr.ver])

VerifyChecking(c) ==
    TaskStep(c, "verify", "checking", "start",
             [Staged(cmd[c].read, "Checking") EXCEPT !.run = cmd[c].run,
                 !.align = None, !.lens = None, !.captured = None])

RunCreated(c) ==
    RunStep(c, "verify", "start", "created", InState(c, "Created"))
RunStarted(c) ==
    RunStep(c, "verify", "created", "running", InState(c, "Running"))

\* Build, tests or review did not pass, the source or a document changed, or
\* the command was cancelled.  "ReworkRequired" is a Failed run whose failure
\* code is PRIMARY_REWORK_REQUIRED.
RunEnds(c, outcome) ==
    RunStep(c, "verify", "running", "settle", InState(c, outcome))

\* (variant) a Direct task is delivered like a task without acceptance
CompletedLife_Delivered == "Delivered"

CompletedLife == "AwaitingAcceptance"

\* The deliver node takes a second snapshot and validates the documents.
RunCompletes(c) ==
    /\ At(c, "verify", "running")
    /\ source = cmd[c].snap
    /\ DocumentsValid(cmd[c].task)
    /\ run' = [run EXCEPT ![cmd[c].run].state = "Completed"]
    /\ task' = [task EXCEPT ![cmd[c].task].life = CompletedLife]
    /\ Goto(c, "settle")
    /\ UNCHANGED <<world, known>>

\* The event sink refuses the WorkflowCompleted event: Drive fails the run.
CompletionEventFails(c) ==
    /\ At(c, "verify", "settle")
    /\ Row(c).state = "Completed"
    /\ run' = [run EXCEPT ![cmd[c].run].state = "Failed"]
    /\ UNCHANGED <<task, world, known, cmd>>

\* (variant) a cancelled run leaves the stage alone
Verdict_IgnoresCancel(state) ==
    CASE state = "Completed" -> "AwaitingAcceptance"
      [] state = "ReworkRequired" -> "Rework"
      [] state = "Cancelled" -> "Checking"
      [] OTHER -> "Blocked"

Verdict(state) ==
    CASE state = "Completed" -> "AwaitingAcceptance"
      [] state = "ReworkRequired" -> "Rework"
      [] OTHER -> "Blocked"

VerifyResult(c) ==
    LET k == task[cmd[c].task] IN
    TaskStep(c, "verify", "settle", "finish",
             [Staged(k, Verdict(Row(c).state)) EXCEPT
                 !.captured = IF Row(c).state = "Completed" /\ k.reqDocs
                              THEN cmd[c].run ELSE None])

VerifyFinish(c) ==
    RunStep(c, "verify", "finish", "audit", [Row(c) EXCEPT !.ticket = "Finished"])

VerifyAudit(c) ==
    At(c, "verify", "audit") /\ Exit(c) /\ UNCHANGED <<task, run, world, known>>

-----------------------------------------------------------------------------
(* Interruption: the catch block of Verify, and the Recover command.       *)

\* (variant) only a run that was executing nodes is closed
BlockedRow_OnlyRunning(row) ==
    IF row.state = "Running" THEN [row EXCEPT !.state = "Blocked"] ELSE row

BlockedRow(row) ==
    IF row.state \in {"None", "Completed"} THEN row
    ELSE [row EXCEPT !.state = "Blocked"]

VerifyThrows(c) ==
    \E step \in {"start", "created", "running", "settle", "finish", "audit"} :
        RunStep(c, "verify", step, "caught", BlockedRow(Row(c)))

VerifyCaught(c) ==
    TaskStep(c, "verify", "caught", "abandon",
             Staged(task[cmd[c].task], "Blocked"))

VerifyAbandon(c) ==
    /\ At(c, "verify", "abandon")
    /\ run' = [run EXCEPT ![cmd[c].run].ticket = "Finished"]
    /\ Exit(c)
    /\ UNCHANGED <<task, world, known>>

RecoverRun(c) == RunStep(c, "recover", "recover", "ticket", BlockedRow(Row(c)))

RecoverTicket(c) ==
    RunStep(c, "recover", "ticket", "save",
            [Row(c) EXCEPT !.ticket = "Interrupted"])

Recover(c) == LastWrite(c, "recover", Staged(cmd[c].read, "Blocked"))

\* The process dies, or an exception nobody catches ends it.
Crash(c) == cmd[c] # Idle /\ Exit(c) /\ UNCHANGED <<task, run, world, known>>

-----------------------------------------------------------------------------
(* The legacy host, and the world outside Ares.                            *)

\* (variant) the host looks at tickets and runs, not at Direct stages
ProjectBusy_TicketsOnly ==
    \/ \E r \in RunIds : run[r].ticket = "Running" \/ run[r].state \in ActiveStates
    \/ legacy

ProjectBusy ==
    \/ \E t \in Tasks : task[t].stage \in Claiming
    \/ \E r \in RunIds : run[r].ticket = "Running" \/ run[r].state \in ActiveStates
    \/ legacy

\* (variant) the host starts without waiting for the writer lease
HostStart_WithoutLease ==
    /\ ~ObserverOnly
    /\ ~host
    /\ host' = TRUE
    /\ legacy' = FALSE
    /\ UNCHANGED <<task, run, profile, source, intact, known, cmd>>

\* RecoverInterruptedAsync blocks the legacy runs a dead host left active.
HostStart ==
    /\ ~ObserverOnly
    /\ LeaseFree
    /\ host' = TRUE
    /\ legacy' = FALSE
    /\ UNCHANGED <<task, run, profile, source, intact, known, cmd>>

HostStop ==
    /\ host
    /\ host' = FALSE
    /\ UNCHANGED <<task, run, profile, source, intact, legacy, known, cmd>>

LegacyRunStarts ==
    /\ host
    /\ ~ProjectBusy
    /\ legacy' = TRUE
    /\ UNCHANGED <<task, run, profile, source, intact, host, known, cmd>>

LegacyRunEnds ==
    /\ host
    /\ legacy
    /\ legacy' = FALSE
    /\ UNCHANGED <<task, run, profile, source, intact, host, known, cmd>>

HostSaveProject(p) ==
    /\ host
    /\ ~ProjectBusy
    /\ p # profile
    /\ profile' = p
    /\ UNCHANGED <<task, run, source, intact, legacy, host, known, cmd>>

EditSource(s) ==
    /\ s # source
    /\ source' = s
    /\ UNCHANGED <<task, run, profile, intact, legacy, host, known, cmd>>

EditDocument(t) ==
    /\ task[t].docs # 0
    /\ intact' = [intact EXCEPT ![t] = ~@]
    /\ UNCHANGED <<task, run, profile, source, legacy, host, known, cmd>>

-----------------------------------------------------------------------------
ClientStep(c) ==
    \E t \in Tasks :
        \/ Create(c, t) \/ Document(c, t) \/ Status(c, t)
        \/ \E scopeChange \in BOOLEAN : Feedback(c, t, scopeChange)
        \/ ReadAgree(c, t) \/ ReadBegin(c, t) \/ ReadSubmit(c, t)
        \/ \E r \in RunIds : ReadVerify(c, t, r)
        \/ ReadAlign(c, t) \/ ReadLens(c, t) \/ ReadAccept(c, t)
        \/ ReadRecover(c, t)

\* What a running command does next, whatever its checks find.
CommandStep(c) ==
    \/ Agree(c) \/ Submit(c) \/ Align(c) \/ RecordLens(c)
    \/ \E approval \in BOOLEAN : Begin(c, approval)
    \/ Accept(c) \/ SaveApproval(c)
    \/ VerifyTicket(c) \/ VerifyCheckpoint(c) \/ VerifyChecking(c)
    \/ RunCreated(c) \/ RunStarted(c) \/ RunCompletes(c)
    \/ \E outcome \in {"Failed", "ReworkRequired", "Cancelled"} : RunEnds(c, outcome)
    \/ CompletionEventFails(c)
    \/ VerifyResult(c) \/ VerifyFinish(c) \/ VerifyAudit(c)
    \/ VerifyThrows(c) \/ VerifyCaught(c) \/ VerifyAbandon(c)
    \/ RecoverRun(c) \/ RecoverTicket(c) \/ Recover(c)

HostStep ==
    \/ HostStart \/ HostStop \/ LegacyRunStarts \/ LegacyRunEnds
    \/ \E p \in Profiles : HostSaveProject(p)

Environment ==
    \/ \E s \in Snapshots : EditSource(s)
    \/ \E t \in Tasks : EditDocument(t)

Next ==
    \/ \E c \in Clients : ClientStep(c) \/ CommandStep(c) \/ Crash(c)
    \/ \E p \in Profiles : SaveProject(p)
    \/ HostStep
    \/ Environment

Spec == Init /\ [][Next]_vars

\* A live command process keeps executing; nothing makes a client, the host
\* or an editor act, and nothing prevents a crash.
FairSpec == Spec /\ \A c \in Clients : WF_vars(CommandStep(c))

=============================================================================
