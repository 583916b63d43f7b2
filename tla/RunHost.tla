------------------------------- MODULE RunHost -------------------------------
(***************************************************************************)
(* WorkbenchService around one run: the requests of the pages, the queue   *)
(* with its one worker, the run's ticket, checkpoint and approvals, the    *)
(* project's commands, and a host that crashes and recovers.  The worker's *)
(* calls into WorkflowCoordinator are that module's steps.                 *)
(*                                                                         *)
(* Requests run on the pages' threads under one lock, so each is a step.   *)
(* ProcessAsync takes the lock only where the code does.                   *)
(***************************************************************************)
EXTENDS WorkflowCoordinator

CONSTANTS MaxProfiles,  \* bound: versions of the project's build and test commands
          MaxCrashes    \* bound: restarts of a host that was up

ASSUME HostBounds == MaxProfiles \in Nat \ {0} /\ MaxCrashes \in Nat

VARIABLES ticket,     \* the stored RunTicket: state and the profile it was saved with
          supported,  \* the stored checkpoint's ResumeSupported
          approvals,  \* the stored approval entries: request and status
          profile,    \* the stored project's command version
          tested,     \* profile whose commands the last test node ran
          queue,      \* items not yet taken, in memory
          worker,     \* what ProcessAsync is doing, in memory
          waiting,    \* the coordinator kept for a decision, in memory
          deciding,   \* pendingDecisions has the run, in memory
          host        \* "up", "stopping" or a step of the recovery; the restarts so far

hostVars == <<ticket, supported, approvals, profile, tested, queue, worker, waiting, deciding,
              host>>
allVars == <<vars, hostVars>>

RunItem(kind) == [kind |-> kind, request |-> 0, approved |-> FALSE]
Decision(request, approved) == [kind |-> "decision", request |-> request, approved |-> approved]

Resting == [pc |-> "idle", item |-> RunItem(""), seen |-> "", profile |-> 1]

Active == {"Created", "Running", "Waiting"}

HostInit ==
    /\ Init
    /\ ticket = [state |-> "None", profile |-> 1, born |-> 0]
    /\ supported = FALSE
    /\ approvals = <<>>
    /\ profile = 1 /\ tested = 0
    /\ queue = <<>> /\ worker = Resting /\ waiting = FALSE /\ deciding = FALSE
    /\ host = [at |-> "up", crashes |-> 0]

Up == host.at = "up"
Executing == worker.pc # "idle" /\ worker.item.kind # "decision"

ProjectBusy == ticket.state \in {"Queued", "Running"} \/ run.state \in Active

-----------------------------------------------------------------------------
(* Requests *)

SaveProject ==
    /\ Up /\ ~ProjectBusy /\ profile < MaxProfiles
    /\ profile' = profile + 1
    /\ UNCHANGED <<vars, ticket, supported, approvals, tested, queue, worker, waiting, deciding,
                   host>>

RequestRun ==
    /\ Up /\ ticket.state = "None" /\ ~ProjectBusy
    /\ ticket' = [state |-> "Queued", profile |-> profile, born |-> host.crashes]
    /\ queue' = Append(queue, RunItem("run"))
    /\ UNCHANGED <<vars, supported, approvals, profile, tested, worker, waiting, deciding, host>>

CanResume ==
    /\ run.state \in {"Paused", "Blocked"} /\ supported /\ run.node # ""
    /\ ticket.state \notin {"Queued", "Running"}
    /\ run.failure \notin {"REWORK_BUDGET", "HUMAN_REJECTED", "INTERRUPTED", "RESUME_INVALID"}
    /\ def.kind = "fusion" => life = "Active"

Retested_ReviewOnly ==
    IF ticket.profile # profile /\ run.node = "review"
    THEN [run EXCEPT !.node = "test"] ELSE run

\* New commands send a run that is past its tests back to them.
Retested ==
    IF /\ ticket.profile # profile
       /\ run.node \in {"review", "human", "deliver"}
       /\ LastOf(run, "test") > 0 /\ run.execs[LastOf(run, "test")].outcome = "Succeeded"
    THEN [run EXCEPT !.node = "test"] ELSE run

\* What a fusion task agreed to (ValidateFrozen) is FusionTask's; without it a resume is
\* possible here in more states.
RequestResume ==
    /\ Up /\ CanResume /\ ~ProjectBusy /\ run.drive < MaxDrives
    /\ life \notin {"Delivered", "Cancelled", "Done"}
    /\ run' = Retested
    /\ ticket' = [ticket EXCEPT !.state = "Queued", !.profile = profile]
    /\ queue' = Append(queue, RunItem("resume"))
    /\ UNCHANGED <<def, life, call, supported, approvals, profile, tested, worker, waiting,
                   deciding, host>>

\* A run that executes is stopped by its token.
StopExecuting(pause) ==
    /\ Up /\ Executing /\ run.state \in {"None", "Running"} /\ call.token # "stop"
    /\ call' = [call EXCEPT !.token = "stop", !.pause = pause]
    /\ UNCHANGED <<def, run, life, hostVars>>

\* The Waiting entries get another status.
Closed(status) ==
    [k \in DOMAIN approvals |-> IF approvals[k].status = "Waiting"
                                  THEN [approvals[k] EXCEPT !.status = status]
                                  ELSE approvals[k]]

\* Any other run is cancelled where it stands.
CancelStored ==
    /\ Up /\ ~(Executing /\ run.state \in {"None", "Running"}) /\ ~deciding
    /\ IF run.state = "None" THEN ticket.state = "Queued"
                             ELSE run.state \in {"Paused", "Blocked", "Waiting"}
    /\ ticket' = [ticket EXCEPT !.state = "Cancelled"]
    /\ IF run.state = "None" THEN UNCHANGED <<run, waiting, approvals>>
       ELSE /\ run' = [run EXCEPT !.state = "Cancelled", !.request = 0, !.failure = "CANCELLED"]
            /\ waiting' = FALSE
            /\ approvals' = Closed("Cancelled")
    /\ UNCHANGED <<def, life, call, supported, profile, tested, queue, worker, deciding, host>>

RequestApproval(approved) ==
    /\ Up /\ run.state = "Waiting" /\ waiting /\ ~deciding
    /\ deciding' = TRUE
    /\ queue' = Append(queue, Decision(run.request, approved))
    /\ UNCHANGED <<vars, ticket, supported, approvals, profile, tested, worker, waiting, host>>

-----------------------------------------------------------------------------
(* ProcessAsync *)

\* The queue's reader takes the next item; a ticket that is no longer queued is skipped.
TakeRun ==
    /\ Up /\ worker.pc = "idle" /\ queue # <<>> /\ Head(queue).kind # "decision"
    /\ queue' = Tail(queue)
    /\ IF ticket.state = "Queued"
         THEN /\ ticket' = [ticket EXCEPT !.state = "Running"]
              /\ worker' = [Resting EXCEPT !.pc = "preparing", !.item = Head(queue)]
              /\ call' = Idle
         ELSE UNCHANGED <<ticket, worker, call>>
    /\ UNCHANGED <<def, run, life, supported, approvals, profile, tested, waiting, deciding, host>>

\* Project, workspace, stamp and checkpoint are in order; the coordinator is called.
Prepared ==
    /\ worker.pc = "preparing" /\ Live
    /\ worker.item.kind = "run" => Start
    /\ worker.item.kind = "resume" => Resume
    /\ supported' = (supported \/ worker.item.kind = "run")
    /\ worker' = [worker EXCEPT !.pc = "calling", !.profile = profile]
    /\ UNCHANGED <<ticket, approvals, profile, tested, queue, waiting, deciding, host>>

\* The prerequisites fail, the token stops them, or the coordinator refuses the run.
NotPrepared(cause) ==
    /\ worker.pc = "preparing"
    /\ cause = "CANCELLED" => ~Live
    /\ cause = "RESUME_INVALID" => worker.item.kind = "resume" \/ def.kind = "fusion"
    /\ worker' = [worker EXCEPT !.pc = "catch", !.seen = cause]
    /\ UNCHANGED <<vars, ticket, supported, approvals, profile, tested, queue, waiting, deciding,
                   host>>

\* The coordinator's own steps while ProcessAsync awaits it.
Coordinate ==
    /\ worker.pc = "calling"
    /\ Engine \/ HandlerReturns \/ EngineStops \/ Fault \/ Cancelled \/ Escape
    /\ tested' = IF Len(run'.execs) > Len(run.execs) /\ run.node = "test"
                   THEN worker.profile ELSE tested
    /\ UNCHANGED <<ticket, supported, approvals, profile, queue, worker, waiting, deciding, host>>

Escaped ==
    /\ worker.pc = "calling" /\ At("escaped") /\ Executing
    /\ worker' = [worker EXCEPT !.pc = "catch", !.seen = "PROJECT_CONFIGURATION"]
    /\ UNCHANGED <<vars, ticket, supported, approvals, profile, tested, queue, waiting, deciding,
                   host>>

\* The call returns the run as it is stored now; what follows uses that copy.
Returned ==
    /\ worker.pc = "calling" /\ At("idle") /\ Executing
    /\ worker' = [worker EXCEPT !.pc = "file", !.seen = run.state, !.item.request = run.request]
    /\ UNCHANGED <<vars, ticket, supported, approvals, profile, tested, queue, waiting, deciding,
                   host>>

FileApproval ==
    /\ worker.pc = "file" /\ worker.seen = "Waiting"
    /\ waiting' = TRUE
    /\ approvals' = Append(approvals, [request |-> worker.item.request, status |-> "Waiting"])
    /\ worker' = [worker EXCEPT !.pc = "ticket"]
    /\ UNCHANGED <<vars, ticket, supported, profile, tested, queue, deciding, host>>

FileTicket ==
    /\ worker.pc = "ticket" \/ (worker.pc = "file" /\ worker.seen # "Waiting")
    /\ ticket' = [ticket EXCEPT !.state = IF worker.seen = "Cancelled" THEN "Cancelled"
                                                                       ELSE "Finished",
                                !.profile = worker.profile]
    /\ worker' = Resting
    /\ UNCHANGED <<vars, supported, approvals, profile, tested, queue, waiting, deciding, host>>

\* What the catch block makes of a run that has not completed.
CaughtState(cause) ==
    IF cause # "CANCELLED" THEN "Blocked" ELSE IF call.pause THEN "Paused" ELSE "Cancelled"

CatchException_KeepsTicket ==
    /\ worker.pc = "catch"
    /\ run' = IF run = NoRun
                THEN [NoRun EXCEPT !.state = CaughtState(worker.seen), !.node = def.entry]
                ELSE [run EXCEPT !.state = CaughtState(worker.seen), !.failure = worker.seen]
    /\ worker' = Resting
    /\ call' = Idle
    /\ UNCHANGED <<def, life, ticket, supported, approvals, profile, tested, queue, waiting,
                   deciding, host>>

CatchException ==
    /\ worker.pc = "catch"
    /\ LET cause == worker.seen
           state == CaughtState(cause)
       IN  /\ ticket' = [ticket EXCEPT !.state = IF state = "Cancelled" THEN "Cancelled"
                                                                        ELSE "Finished"]
           /\ run' = CASE run = NoRun ->
                            [NoRun EXCEPT !.state = state, !.node = def.entry, !.failure = cause]
                       [] run.state = "Completed" -> run
                       [] OTHER -> [run EXCEPT !.state = state, !.failure = cause]
           /\ life' = IF run = NoRun THEN "Active" ELSE life
           /\ supported' = CASE run = NoRun -> cause # "RESUME_INVALID"
                             [] cause = "RESUME_INVALID" /\ run.state # "Completed" -> FALSE
                             [] OTHER -> supported
    /\ worker' = Resting
    /\ call' = Idle
    /\ UNCHANGED <<def, approvals, profile, tested, queue, waiting, deciding, host>>

\* A decision needs the coordinator that asked; whatever it throws only ends the item.
TakeDecision ==
    /\ Up /\ worker.pc = "idle" /\ queue # <<>> /\ Head(queue).kind = "decision"
    /\ queue' = Tail(queue)
    /\ IF waiting /\ run.state = "Waiting" /\ run.request = Head(queue).request
         THEN /\ SubmitHuman(Head(queue).request, Head(queue).approved)
              /\ worker' = [Resting EXCEPT !.pc = "calling", !.item = Head(queue),
                                           !.profile = ticket.profile]
              /\ UNCHANGED deciding
         ELSE deciding' = FALSE /\ UNCHANGED <<vars, worker>>
    /\ UNCHANGED <<ticket, supported, approvals, profile, tested, waiting, host>>

LastWaiting == {k \in DOMAIN approvals : /\ approvals[k].status = "Waiting"
                                         /\ \A j \in DOMAIN approvals :
                                              approvals[j].status = "Waiting" => j <= k}

DecisionReturned ==
    /\ worker.pc = "calling" /\ At("idle") /\ ~Executing
    /\ run' = IF ~worker.item.approved /\ run.state = "Failed"
                THEN [run EXCEPT !.state = "Blocked"] ELSE run
    /\ IF LastWaiting = {} THEN UNCHANGED <<approvals, waiting>>
       ELSE /\ approvals' = [k \in DOMAIN approvals |-> IF k \in LastWaiting
                               THEN [approvals[k] EXCEPT !.status =
                                       IF worker.item.approved THEN "Approved" ELSE "Rejected"]
                               ELSE approvals[k]]
            /\ waiting' = FALSE
    /\ deciding' = FALSE
    /\ worker' = Resting
    /\ UNCHANGED <<def, life, call, ticket, supported, profile, tested, queue, host>>

DecisionEscaped ==
    /\ worker.pc = "calling" /\ At("escaped") /\ ~Executing
    /\ deciding' = FALSE
    /\ worker' = Resting
    /\ call' = Idle
    /\ UNCHANGED <<def, run, life, ticket, supported, approvals, profile, tested, queue, waiting,
                   host>>

-----------------------------------------------------------------------------
(* The host process *)

\* A graceful stop cancels every token; the worker finishes its item and takes no other.
ShutDown ==
    /\ Up
    /\ host' = [host EXCEPT !.at = "stopping"]
    /\ call' = IF worker.pc # "idle" /\ Live THEN [call EXCEPT !.token = "shutdown"] ELSE call
    /\ UNCHANGED <<def, run, life, ticket, supported, approvals, profile, tested, queue, worker,
                   waiting, deciding>>

\* The process ends, however: what it kept in memory is gone.  The next one recovers, from
\* the beginning if the one before it died while it recovered; those are not counted.
Restart ==
    /\ IF host.at \in {"up", "stopping"}
         THEN /\ host.crashes < MaxCrashes
              /\ host' = [at |-> "runs", crashes |-> host.crashes + 1]
         ELSE host' = [host EXCEPT !.at = "runs"]
    /\ call' = Idle /\ queue' = <<>> /\ worker' = Resting /\ waiting' = FALSE /\ deciding' = FALSE
    /\ UNCHANGED <<def, run, life, ticket, supported, approvals, profile, tested>>

RecoveryStep(at, next) == host.at = at /\ host' = [host EXCEPT !.at = next]

RecoverRun ==
    /\ IF run.state \in Active \cup {"Paused"}
         THEN /\ RecoveryStep("runs", "approvals")
              /\ run' = [run EXCEPT !.state = "Blocked", !.request = 0, !.failure = "INTERRUPTED"]
         ELSE RecoveryStep("runs", "checkpoints") /\ UNCHANGED run
    /\ UNCHANGED <<def, life, call, ticket, supported, approvals, profile, tested, queue, worker,
                   waiting, deciding>>

RecoverApprovals ==
    /\ RecoveryStep("approvals", "checkpoints")
    /\ approvals' = Closed("Interrupted")
    /\ UNCHANGED <<vars, ticket, supported, profile, tested, queue, worker, waiting, deciding>>

RecoverCheckpoints_InterruptedOnly ==
    /\ RecoveryStep("checkpoints", "tickets")
    /\ supported' = (supported /\ run.failure # "INTERRUPTED")
    /\ UNCHANGED <<vars, ticket, approvals, profile, tested, queue, worker, waiting, deciding>>

RecoverCheckpoints ==
    /\ RecoveryStep("checkpoints", "tickets")
    /\ supported' = FALSE
    /\ UNCHANGED <<vars, ticket, approvals, profile, tested, queue, worker, waiting, deciding>>

RecoverTickets_RunningOnly ==
    /\ RecoveryStep("tickets", "up")
    /\ ticket' = IF ticket.state = "Running" THEN [ticket EXCEPT !.state = "Interrupted"]
                                             ELSE ticket
    /\ UNCHANGED <<vars, supported, approvals, profile, tested, queue, worker, waiting, deciding>>

RecoverTickets ==
    /\ RecoveryStep("tickets", "up")
    /\ ticket' = IF ticket.state \in {"Queued", "Running"}
                   THEN [ticket EXCEPT !.state = "Interrupted"] ELSE ticket
    /\ UNCHANGED <<vars, supported, approvals, profile, tested, queue, worker, waiting, deciding>>

Recover == RecoverRun \/ RecoverApprovals \/ RecoverCheckpoints \/ RecoverTickets

Process ==
    \/ TakeRun \/ TakeDecision \/ Prepared \/ Escaped \/ Returned \/ FileApproval \/ FileTicket
    \/ CatchException \/ DecisionReturned \/ DecisionEscaped
    \/ \E cause \in {"CANCELLED", "PROJECT_CONFIGURATION", "RESUME_INVALID"} : NotPrepared(cause)

HostNext ==
    \/ SaveProject \/ RequestRun \/ RequestResume \/ CancelStored
    \/ \E pause \in BOOLEAN : StopExecuting(pause)
    \/ \E approved \in BOOLEAN : RequestApproval(approved)
    \/ Process \/ Coordinate
    \/ ShutDown \/ Restart \/ Recover

(***************************************************************************)
(* The worker and the coordinator go on while the process lives, a node    *)
(* ends at the latest with its deadline, and a started host recovers.      *)
(***************************************************************************)
Fairness ==
    /\ WF_allVars(Process)
    /\ WF_allVars(Coordinate /\ Engine)
    /\ WF_allVars(Recover)

HostSpec == HostInit /\ [][HostNext]_allVars /\ Fairness
=============================================================================
