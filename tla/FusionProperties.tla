--------------------------- MODULE FusionProperties ---------------------------
(***************************************************************************)
(* What the host promises the Owner of several fusion tasks.               *)
(***************************************************************************)
EXTENDS FusionTask

\* A project serves one discussion, run or pending approval at a time, whichever tasks they
\* belong to and however stops, cancels and restarts interleave (ProjectBusy).
OneAtATime == Cardinality(BusyDiscussions) + Cardinality(BusyRuns) <= 1

\* What the Owner is asked to accept, and what was accepted, is the work of the task's latest
\* run: it went through its whole workflow under the Ready snapshot in force, and executes no
\* more.  An older run that is resumed late must not put a task there (RequestResume,
\* OwnerAcceptance).  The run is Completed unless an event threw after that: then it is stored
\* as Failed or Blocked, and the task stays where it is (WorkflowCoordinator.Drive).
AwaitingIsDelivered ==
    \A t \in Tasks : task[t].life \in {"AwaitingAcceptance", "Done"} =>
        /\ RunsOf(t) # {}
        /\ LET run == runs[Latest(t)] IN
           run.done /\ run.ready = task[t].frozen.ver /\ run.state \notin Active

\* A run executes only under the project configuration and the native session of the snapshot
\* it was started for (ValidateFrozen, ProjectBusy).
ExecutesAsAgreed ==
    worker.pc = "calling" =>
        LET r == worker.item.run
            f == task[runs[r].task]
        IN  /\ f.frozen.ver = runs[r].ready /\ f.frozen.session = f.session
            /\ f.frozen.profile = profile /\ f.frozen.stamp = runs[r].stamp

\* Once a native session is bound to a task, discussion, crash and recovery keep it: the
\* checkpoint may know it before the task does (ProcessDiscussionAsync, RecoverInterrupted).
OneSession ==
    [][\A t \in Tasks : bound[t].session # None =>
          /\ bound'[t].session = bound[t].session
          /\ task'[t].session \in {task[t].session, bound[t].session}]_vars

\* Discussions are attended: a queued one has its item, a running one the worker.
DiscussionAttended ==
    \A t \in Tasks :
        /\ task[t].disc = "Queued" => \E k \in DOMAIN queue : queue[k] = Discussion(t)
        /\ task[t].disc = "Running" => ExecutingDiscussion(t)
=============================================================================
