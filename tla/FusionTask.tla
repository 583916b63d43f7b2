------------------------------ MODULE FusionTask ------------------------------
(***************************************************************************)
(* WorkflowFusionService and the run requests of WorkbenchService for the  *)
(* fusion tasks of one project: discussion with the Primary, Ready         *)
(* snapshots, runs that compete for the project, and the Owner's           *)
(* acceptance.  The steps of one run are RunHost's: here the coordinator's *)
(* call starts the run, commits its end, may fail to announce that end,    *)
(* and a request may fall in between.                                      *)
(*                                                                         *)
(* Drafts, turns and revision numbers are left out: no request is decided  *)
(* by what a draft says, and one with a stale revision changes nothing.    *)
(* Goal and acceptance of a task change only with its Ready snapshot, so   *)
(* the snapshot's version stands for them in the fingerprint.              *)
(***************************************************************************)
EXTENDS Naturals, Sequences, FiniteSets

CONSTANTS Tasks,        \* fusion tasks of the project
          Profiles,     \* fingerprints the project's configuration may have
          Stamps,       \* states of HEAD, branch and instruction files
          Sessions,     \* native sessions the Primary may report
          MaxVersions,  \* bound: Ready snapshots of each task
          MaxRuns,      \* bound: run requests
          MaxUpsets,    \* bound: restarts, and changes of configuration and workspace
          MaxQueue,     \* bound: items waiting when a discussion of each task is requested
          None

ASSUME FusionBounds ==
    {MaxVersions, MaxQueue} \subseteq [Tasks -> Nat] /\ {MaxRuns, MaxUpsets} \subseteq Nat
ASSUME NoneIsNoValue == None \notin Sessions \cup Profiles \cup Stamps

VARIABLES task,      \* the stored tasks: lifecycle and fusion record
          bound,     \* the stored discussion checkpoints
          runs,      \* the stored runs with their tickets and checkpoints, oldest first
          profile,   \* the stored project configuration
          stamp,     \* what a workspace stamp would return now
          queue,     \* items not yet taken, in memory
          worker,    \* what ProcessAsync is doing, in memory
          upsets

vars == <<task, bound, runs, profile, stamp, queue, worker, upsets>>

Active == {"Running", "Waiting"}

NoTask == [life |-> "Absent", disc |-> "Idle", session |-> None, spoken |-> FALSE,
           frozen |-> [ver |-> 0, session |-> None, profile |-> None, stamp |-> None]]
Unbound == [session |-> None, profile |-> None, stamp |-> None]
Resting == [pc |-> "idle", item |-> [kind |-> "none"], stop |-> "no", seen |-> "None"]

Discussion(t) == [kind |-> "discuss", task |-> t]
RunItem(kind, r) == [kind |-> kind, run |-> r]
Decision(r, approved) == [kind |-> "decision", run |-> r, approved |-> approved]

Init ==
    /\ task = [t \in Tasks |-> NoTask]
    /\ bound = [t \in Tasks |-> Unbound]
    /\ runs = <<>>
    /\ profile \in Profiles /\ stamp \in Stamps
    /\ queue = <<>> /\ worker = Resting /\ upsets = 0

-----------------------------------------------------------------------------
(* Guards shared by the requests *)

Executing(kinds) == worker.pc # "idle" /\ worker.item.kind \in kinds
ExecutingRun(r) == Executing({"run", "resume"}) /\ worker.item.run = r
ExecutingDiscussion(t) == Executing({"discuss"}) /\ worker.item.task = t

Deciding(r) ==
    \/ Executing({"decision"}) /\ worker.item.run = r
    \/ \E k \in DOMAIN queue : queue[k].kind = "decision" /\ queue[k].run = r

BusyDiscussions == {t \in Tasks : task[t].disc \in {"Queued", "Running"}}
BusyRuns == {r \in DOMAIN runs : runs[r].ticket \in {"Queued", "Running"}
                                 \/ runs[r].state \in Active}

ProjectBusy_RunsOnly == BusyRuns # {}

ProjectBusy == BusyDiscussions # {} \/ BusyRuns # {}

EditableDiscussion(t) ==
    task[t].life = "Discussing" /\ task[t].disc \notin {"Queued", "Running"}

ValidateFrozen_AnyProfile(t) ==
    task[t].frozen.ver > 0 /\ task[t].frozen.session = task[t].session

ValidateFrozen(t) ==
    /\ task[t].frozen.ver > 0
    /\ task[t].frozen.session = task[t].session
    /\ task[t].frozen.profile = profile

FingerprintMatches_GoalOnly(r) == runs[r].ready > 0

\* RunCheckpoint.Fingerprint covers the Ready snapshot the run was started under.
FingerprintMatches(r) == runs[r].ready = task[runs[r].task].frozen.ver

RunsOf(t) == {r \in DOMAIN runs : runs[r].task = t /\ runs[r].state # "None"}
Latest(t) == CHOOSE r \in RunsOf(t) : \A q \in RunsOf(t) : q <= r

SaveFusion(t, fusion) == task' = [task EXCEPT ![t] = fusion]

-----------------------------------------------------------------------------
(* Requests of the Owner's pages, each under the service's lock *)

CreateDiscussingTask(t) ==
    /\ task[t].life = "Absent"
    /\ SaveFusion(t, [NoTask EXCEPT !.life = "Discussing"])
    /\ UNCHANGED <<bound, runs, profile, stamp, queue, worker, upsets>>

RequestDiscussion(t) ==
    /\ EditableDiscussion(t) /\ ~ProjectBusy /\ Len(queue) < MaxQueue[t]
    /\ SaveFusion(t, [task[t] EXCEPT !.disc = "Queued"])
    /\ queue' = Append(queue, Discussion(t))
    /\ UNCHANGED <<bound, runs, profile, stamp, worker, upsets>>

StopDiscussion(t) ==
    /\ IF ExecutingDiscussion(t)
         THEN worker' = [worker EXCEPT !.stop = "cancel"] /\ UNCHANGED task
         ELSE /\ task[t].disc = "Queued"
              /\ SaveFusion(t, [task[t] EXCEPT !.disc = "Blocked"])
              /\ UNCHANGED worker
    /\ UNCHANGED <<bound, runs, profile, stamp, queue, upsets>>

FreezeReady(t) ==
    LET f == task[t] IN
    /\ EditableDiscussion(t) /\ ~ProjectBusy /\ f.frozen.ver < MaxVersions[t]
    /\ f.disc = "Idle" /\ f.spoken /\ f.session # None
    /\ bound[t].session = f.session /\ bound[t].profile = profile
    /\ SaveFusion(t, [f EXCEPT !.life = "Ready",
                               !.frozen = [ver |-> @.ver + 1, session |-> f.session,
                                           profile |-> profile, stamp |-> bound[t].stamp]])
    /\ UNCHANGED <<bound, runs, profile, stamp, queue, worker, upsets>>

ReturnToDiscussion(t) ==
    /\ task[t].life \in {"Active", "Ready"} /\ ~ProjectBusy
    /\ SaveFusion(t, [task[t] EXCEPT !.life = "Discussing", !.disc = "NeedsDiscussion"])
    /\ UNCHANGED <<bound, runs, profile, stamp, queue, worker, upsets>>

\* The page names the latest run and the snapshot in force.
OwnerAcceptance(t, accept) ==
    /\ task[t].life = "AwaitingAcceptance"
    /\ RunsOf(t) # {} /\ runs[Latest(t)].state = "Completed"
    /\ SaveFusion(t, IF accept THEN [task[t] EXCEPT !.life = "Done"]
                     ELSE [task[t] EXCEPT !.life = "Discussing", !.disc = "NeedsDiscussion"])
    /\ UNCHANGED <<bound, runs, profile, stamp, queue, worker, upsets>>

Upset == upsets < MaxUpsets /\ upsets' = upsets + 1

SaveProject ==
    /\ ~ProjectBusy
    /\ profile' \in Profiles \ {profile}
    /\ Upset
    /\ UNCHANGED <<task, bound, runs, stamp, queue, worker>>

RequestRun(t) ==
    /\ task[t].life = "Ready" /\ ValidateFrozen(t) /\ ~ProjectBusy
    /\ Len(runs) < MaxRuns
    /\ runs' = Append(runs, [task |-> t, state |-> "None", ticket |-> "Queued", ready |-> 0,
                             stamp |-> None, supported |-> TRUE, final |-> FALSE,
                             done |-> FALSE])
    /\ queue' = Append(queue, RunItem("run", Len(runs) + 1))
    /\ UNCHANGED <<task, bound, profile, stamp, worker, upsets>>

\* A run whose completion was committed has no current node, and so no target to resume.
CanResume(r) ==
    /\ runs[r].state \in {"Paused", "Blocked"} /\ runs[r].supported
    /\ ~runs[r].final /\ ~runs[r].done
    /\ runs[r].ticket \notin {"Queued", "Running"}
    /\ task[runs[r].task].life = "Active"

RequestResume(r) ==
    /\ CanResume(r) /\ ~ProjectBusy
    /\ FingerprintMatches(r) /\ ValidateFrozen(runs[r].task)
    /\ runs' = [runs EXCEPT ![r].ticket = "Queued"]
    /\ queue' = Append(queue, RunItem("resume", r))
    /\ UNCHANGED <<task, bound, profile, stamp, worker, upsets>>

StopExecuting(r, pause) ==
    /\ ExecutingRun(r) /\ runs[r].state \in {"None", "Running"} /\ worker.stop = "no"
    /\ worker' = [worker EXCEPT !.stop = IF pause THEN "pause" ELSE "cancel"]
    /\ UNCHANGED <<task, bound, runs, profile, stamp, queue, upsets>>

CancelStored(r) ==
    /\ ~(ExecutingRun(r) /\ runs[r].state \in {"None", "Running"}) /\ ~Deciding(r)
    /\ IF runs[r].state = "None" THEN runs[r].ticket = "Queued"
                                 ELSE runs[r].state \in {"Paused", "Blocked", "Waiting"}
    /\ runs' = [runs EXCEPT ![r].ticket = "Cancelled",
                            ![r].state = IF @ = "None" THEN "None" ELSE "Cancelled"]
    /\ UNCHANGED <<task, bound, profile, stamp, queue, worker, upsets>>

\* The coordinator that waits is registered when its call has returned.
RequestApproval(r, approved) ==
    /\ runs[r].state = "Waiting" /\ ~ExecutingRun(r) /\ ~Deciding(r)
    /\ queue' = Append(queue, Decision(r, approved))
    /\ UNCHANGED <<task, bound, runs, profile, stamp, worker, upsets>>

-----------------------------------------------------------------------------
(* ProcessDiscussionAsync *)

Taken == worker.pc = "idle" /\ queue # <<>> /\ queue' = Tail(queue)
Working(kinds, pc) == worker.item.kind \in kinds /\ worker.pc = pc

\* An item whose discussion was stopped meanwhile is dropped.
TakeDiscussion ==
    /\ Taken /\ Head(queue).kind = "discuss"
    /\ LET t == Head(queue).task IN
       IF task[t].disc = "Queued"
         THEN /\ SaveFusion(t, [task[t] EXCEPT !.disc = "Running"])
              /\ worker' = [Resting EXCEPT !.pc = "preparing", !.item = Head(queue)]
         ELSE UNCHANGED <<task, worker>>
    /\ UNCHANGED <<bound, runs, profile, stamp, upsets>>

\* The checkpoint keeps the session already bound, also one the task has not recorded.
BindDiscussion ==
    LET t == worker.item.task IN
    /\ Working({"discuss"}, "preparing")
    /\ bound' = [bound EXCEPT ![t] =
                   [session |-> IF task[t].session # None THEN task[t].session ELSE @.session,
                    profile |-> profile, stamp |-> stamp]]
    /\ worker' = [worker EXCEPT !.pc = "asking"]
    /\ UNCHANGED <<task, runs, profile, stamp, queue, upsets>>

ObserveSession_Adopts(s) ==
    /\ Working({"discuss"}, "asking")
    /\ bound' = [bound EXCEPT ![worker.item.task].session = s]
    /\ worker' = [worker EXCEPT !.pc = "answered"]
    /\ UNCHANGED <<task, runs, profile, stamp, queue, upsets>>

\* The executor records the native session it was given, or the first one it sees.
ObserveSession(s) ==
    /\ Working({"discuss"}, "asking") /\ bound[worker.item.task].session \in {None, s}
    /\ bound' = [bound EXCEPT ![worker.item.task].session = s]
    /\ worker' = [worker EXCEPT !.pc = "answered"]
    /\ UNCHANGED <<task, runs, profile, stamp, queue, upsets>>

DiscussionSucceeds ==
    LET t == worker.item.task IN
    /\ Working({"discuss"}, "answered")
    /\ bound[t].session # None /\ task[t].session \in {None, bound[t].session}
    /\ SaveFusion(t, [task[t] EXCEPT !.session = bound[t].session, !.disc = "Idle",
                                     !.spoken = TRUE])
    /\ worker' = Resting
    /\ UNCHANGED <<bound, runs, profile, stamp, queue, upsets>>

KnownSession(t) == IF bound[t].session # None THEN bound[t].session ELSE task[t].session

\* A failed answer, a stop, another session or any exception: the Owner may go on later.
DiscussionFails ==
    LET t == worker.item.task IN
    /\ Executing({"discuss"})
    /\ SaveFusion(t, [task[t] EXCEPT !.session = KnownSession(t), !.disc = "Blocked"])
    /\ worker' = Resting
    /\ UNCHANGED <<bound, runs, profile, stamp, queue, upsets>>

-----------------------------------------------------------------------------
(* ProcessAsync of a run *)

TakeRun ==
    /\ Taken /\ Head(queue).kind \in {"run", "resume"}
    /\ LET r == Head(queue).run IN
       IF runs[r].ticket = "Queued"
         THEN /\ runs' = [runs EXCEPT ![r].ticket = "Running"]
              /\ worker' = [Resting EXCEPT !.pc = "preparing", !.item = Head(queue)]
         ELSE UNCHANGED <<runs, worker>>
    /\ UNCHANGED <<task, bound, profile, stamp, upsets>>

\* HEAD, branch and instructions are those of the snapshot, and of the run's checkpoint.
StampMatches(r) ==
    /\ task[runs[r].task].frozen.stamp = stamp
    /\ worker.item.kind = "resume" => runs[r].stamp \in {None, stamp}

Prepared ==
    LET r == worker.item.run IN
    /\ Working({"run", "resume"}, "preparing") /\ worker.stop = "no"
    /\ ValidateFrozen(runs[r].task) /\ StampMatches(r)
    /\ worker.item.kind = "resume" =>
         FingerprintMatches(r) /\ runs[r].state \in {"Paused", "Blocked"} /\ ~runs[r].done
    /\ runs' = [runs EXCEPT ![r].state = "Running", ![r].stamp = stamp, ![r].final = FALSE,
                            ![r].ready = task[runs[r].task].frozen.ver]
    /\ task' = IF worker.item.kind = "run" THEN [task EXCEPT ![runs[r].task].life = "Active"]
                                           ELSE task
    /\ worker' = [worker EXCEPT !.pc = "calling"]
    /\ UNCHANGED <<bound, profile, stamp, queue, upsets>>

\* A prerequisite fails or the token stops it; the run is stored so that it can be resumed,
\* unless the fingerprint or the stamp is another one.
NotPrepared ==
    LET r == worker.item.run
        first == runs[r].state = "None"
        changed == ~StampMatches(r) \/ (worker.item.kind = "resume" /\ ~FingerprintMatches(r))
    IN  /\ Working({"run", "resume"}, "preparing")
        /\ \E state \in {"Blocked", "Cancelled", "Paused"}, invalid \in BOOLEAN :
             /\ state = "Cancelled" => worker.stop = "cancel"
             /\ state = "Paused" => worker.stop = "pause"
             /\ invalid => changed /\ state = "Blocked"
             /\ runs' = [runs EXCEPT
                   ![r].state = state,
                   ![r].ticket = IF state = "Cancelled" THEN "Cancelled" ELSE "Finished",
                   ![r].ready = IF first THEN task[runs[r].task].frozen.ver ELSE @,
                   ![r].final = invalid, ![r].supported = @ /\ ~invalid]
        /\ task' = IF first THEN [task EXCEPT ![runs[r].task].life = "Active"] ELSE task
        /\ worker' = Resting
        /\ UNCHANGED <<bound, profile, stamp, queue, upsets>>

\* The coordinator commits the run's end; a stop that was accepted is not overtaken.  With
\* the completion the task awaits acceptance and the run has no current node any more.
RunEnds(state) ==
    LET r == worker.item.run IN
    /\ worker.pc = "calling"
    /\ state \in {"Paused", "Cancelled"} =>
         worker.stop = (IF state = "Paused" THEN "pause" ELSE "cancel")
    /\ state = "Completed" => worker.stop = "no"
    /\ \E final \in BOOLEAN :
         runs' = [runs EXCEPT ![r].state = state, ![r].final = final /\ state = "Blocked",
                              ![r].done = @ \/ state = "Completed"]
    /\ task' = IF state = "Completed"
                 THEN [task EXCEPT ![runs[r].task].life = "AwaitingAcceptance"] ELSE task
    /\ worker' = [worker EXCEPT !.pc = "file", !.seen = state]
    /\ UNCHANGED <<bound, profile, stamp, queue, upsets>>

\* The event that tells of this end throws, and Drive commits Failed over whatever the run is
\* by now.  It takes a Delivered task back only: this one goes on awaiting acceptance, or is
\* what the Owner made of it meanwhile.  With a stop requested nothing is written.
EventThrows ==
    LET r == worker.item.run IN
    /\ worker.pc = "file" /\ worker.stop = "no"
    /\ worker.seen \in {"Completed", "Waiting", "Blocked"}
    /\ runs' = [runs EXCEPT ![r].state = "Failed", ![r].final = FALSE]
    /\ worker' = [worker EXCEPT !.seen = "Failed"]
    /\ UNCHANGED <<task, bound, profile, stamp, queue, upsets>>

\* The event of a failure, a pause or a cancellation throws too, and leaves the coordinator:
\* ProcessAsync stores the run as Blocked.  A decision's call has no such handler.
CallThrows ==
    LET r == worker.item.run IN
    /\ worker.pc = "file" /\ worker.item.kind # "decision"
    /\ worker.seen \in {"Failed", "Paused", "Cancelled"}
    /\ runs' = [runs EXCEPT ![r].state = "Blocked", ![r].final = FALSE, ![r].ticket = "Finished"]
    /\ worker' = Resting
    /\ UNCHANGED <<task, bound, profile, stamp, queue, upsets>>

\* The ticket follows the run the call returned; a decision leaves the ticket alone.
FileTicket ==
    /\ worker.pc = "file"
    /\ runs' = IF worker.item.kind = "decision" THEN runs
               ELSE [runs EXCEPT ![worker.item.run].ticket =
                       IF worker.seen = "Cancelled" THEN "Cancelled" ELSE "Finished"]
    /\ worker' = Resting
    /\ UNCHANGED <<task, bound, profile, stamp, queue, upsets>>

\* A rejection ends the run for good, an approval lets its call go on.  When the event that
\* records it throws, the rejected run stays Failed, and the approved one Running with no call.
TakeDecision ==
    /\ Taken /\ Head(queue).kind = "decision"
    /\ LET r == Head(queue).run IN
       IF runs[r].state = "Waiting"
         THEN \/ /\ Head(queue).approved
                 /\ runs' = [runs EXCEPT ![r].state = "Running"]
                 /\ worker' \in {worker, [Resting EXCEPT !.pc = "calling", !.item = Head(queue)]}
              \/ /\ ~Head(queue).approved
                 /\ \E state \in {"Blocked", "Failed"} :
                      runs' = [runs EXCEPT ![r].state = state, ![r].final = TRUE]
                 /\ UNCHANGED worker
         ELSE UNCHANGED <<runs, worker>>
    /\ UNCHANGED <<task, bound, profile, stamp, upsets>>

-----------------------------------------------------------------------------
(* The workspace and the host process *)

\* A commit, another branch or an edited instruction file.
ChangeStamp ==
    /\ stamp' \in Stamps \ {stamp}
    /\ Upset
    /\ UNCHANGED <<task, bound, runs, profile, queue, worker>>

RecoverDiscussion_RunningOnly(t) ==
    IF task[t].disc = "Running"
    THEN [task[t] EXCEPT !.disc = "Blocked", !.session = KnownSession(t)] ELSE task[t]

RecoverDiscussion(t) ==
    IF task[t].disc \in {"Queued", "Running"}
    THEN [task[t] EXCEPT !.disc = "Blocked", !.session = KnownSession(t)] ELSE task[t]

RecoverRun(run) ==
    [run EXCEPT !.state = IF @ \in Active \cup {"Paused"} THEN "Blocked" ELSE @,
                !.final = @ \/ run.state \in Active \cup {"Paused"},
                !.supported = FALSE,
                !.ticket = IF @ \in {"Queued", "Running"} THEN "Interrupted" ELSE @]

\* The process ends anywhere and the next one recovers before it serves a request; a
\* recovery cut short is RunHost's.
Restart ==
    /\ Upset
    /\ queue' = <<>> /\ worker' = Resting
    /\ task' = [t \in Tasks |-> RecoverDiscussion(t)]
    /\ runs' = [r \in DOMAIN runs |-> RecoverRun(runs[r])]
    /\ UNCHANGED <<bound, profile, stamp>>

Process ==
    \/ TakeDiscussion \/ BindDiscussion \/ DiscussionSucceeds \/ DiscussionFails
    \/ \E s \in Sessions : ObserveSession(s)
    \/ TakeRun \/ Prepared \/ NotPrepared \/ EventThrows \/ CallThrows \/ FileTicket
    \/ TakeDecision
    \/ \E state \in {"Completed", "Waiting", "Failed", "Blocked", "Paused", "Cancelled"} :
         RunEnds(state)

Next ==
    \/ \E t \in Tasks :
         \/ CreateDiscussingTask(t) \/ RequestDiscussion(t) \/ StopDiscussion(t)
         \/ FreezeReady(t) \/ ReturnToDiscussion(t) \/ RequestRun(t)
         \/ \E accept \in BOOLEAN : OwnerAcceptance(t, accept)
    \/ \E r \in DOMAIN runs :
         \/ RequestResume(r) \/ CancelStored(r)
         \/ \E pause \in BOOLEAN : StopExecuting(r, pause)
         \/ \E approved \in BOOLEAN : RequestApproval(r, approved)
    \/ SaveProject \/ ChangeStamp \/ Process \/ Restart

Spec == Init /\ [][Next]_vars
=============================================================================
