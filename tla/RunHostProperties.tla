------------------------- MODULE RunHostProperties -------------------------
(***************************************************************************)
(* What the host promises about a run, its ticket and its approvals.       *)
(***************************************************************************)
EXTENDS RunHost

\* While the host is up somebody drives every run that claims to execute, somebody will take
\* every queued ticket, and a Running ticket is being processed: none of them keeps its
\* project busy for nothing (ProcessAsync, RecoverInterruptedAsync).
NothingAbandoned ==
    Up => /\ run.state \in {"Created", "Running"} => worker.pc # "idle"
          /\ ticket.state = "Running" => Executing
          /\ ticket.state = "Queued" => \E k \in DOMAIN queue : queue[k].kind # "decision"

\* A completed run was tested with the commands its ticket names, however often the commands
\* changed while it was paused (RequestResume).
TestedAsConfigured == run.state = "Completed" => tested = ticket.profile

HumanAttempts == {i \in DOMAIN run.execs : run.execs[i].node = "human"}
AttemptOf(request) ==
    CHOOSE i \in HumanAttempts : Cardinality({j \in HumanAttempts : j <= i}) = request

\* The approval history says what the run did: an entry is Approved or Rejected only if its
\* own request was decided that way (RequestApproval, ProcessAsync, SubmitHumanAsync).
DecisionsRecorded ==
    \A k \in DOMAIN approvals :
        LET outcome == run.execs[AttemptOf(approvals[k].request)].outcome
        IN  /\ approvals[k].status = "Approved" => outcome = "Succeeded"
            /\ approvals[k].status = "Rejected" => outcome = "Failed"

\* A run requested before a restart does not execute after it (RecoverInterruptedAsync).
RestartEndsRuns ==
    [][run.state # "Running" /\ run'.state = "Running" => ticket.born = host.crashes]_allVars

\* A cancelled run stays cancelled: it cannot be resumed or delivered.
CancelledStays == [][run.state = "Cancelled" => run'.state = "Cancelled"]_allVars

\* While the process lives, a ticket does not stay queued or running: the project becomes free
\* again (ProcessAsync's paths to SaveTicket, the queue's reader).
TicketSettles ==
    Up /\ ticket.state \in {"Queued", "Running"} ~>
        ~Up \/ ticket.state \notin {"Queued", "Running"}

\* Every call of the coordinator ends: nodes have deadlines, the rework budget runs out.
CallReturns == ~At("idle") ~> call.pc \in {"idle", "escaped"}
=============================================================================
