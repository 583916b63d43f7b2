-------------------------- MODULE DirectProperties --------------------------
(***************************************************************************)
(* What the Direct workflow guarantees, one promise the code states and    *)
(* does not keep (IdleProjectIsNotBusy), and the contract it implements.   *)
(***************************************************************************)
EXTENDS DirectWorkflow

Writing == Claiming \ {"Rework"}

\* Every table holds records of its type.
TypeOK ==
    /\ task \in [Tasks -> TaskRecord]
    /\ run \in [RunIds -> RunRecord]
    /\ profile \in Profiles
    /\ source \in Snapshots
    /\ intact \in [Tasks -> BOOLEAN]
    /\ legacy \in BOOLEAN
    /\ host \in BOOLEAN
    /\ known \in [Clients -> [Tasks -> Nat]]
    /\ cmd \in [Clients -> Command \cup {Idle}]

\* From Begin until acceptance or a return to rework, no second task of the
\* project is being implemented, verified or accepted, and no legacy run is
\* active: NoOtherWriter and ProjectBusy keep the three kinds apart although
\* Feedback moves a Ready task into the claim without asking either.
SingleWriter ==
    /\ \A t, u \in Tasks :
           task[t].stage \in Writing /\ task[u].stage \in Writing => t = u
    /\ legacy => \A t \in Tasks : task[t].stage \notin Writing

\* A task that awaits acceptance, or was accepted, points at a run of its own
\* that completed on exactly the submitted source under the agreement in
\* force, and its evidence files were captured from that run; an accepted
\* task with documents was aligned with that run and that source.
AcceptedIsVerified ==
    \A t \in Tasks :
        LET k == task[t] IN
        /\ k.stage \in {"AwaitingAcceptance", "Done"} =>
               /\ k.run # None /\ k.submitted # None
               /\ run[k.run] = [run[k.run] EXCEPT
                      !.task = t, !.state = "Completed",
                      !.stamp = k.submitted, !.agr = k.agr.ver]
               /\ k.reqDocs => k.captured = k.run
        /\ k.stage = "Done" /\ k.reqDocs =>
               k.align = [run |-> k.run, stamp |-> k.submitted]

\* An alignment or a Change Lens report kept on a task describes the run and
\* the source now awaiting acceptance: every command that leaves
\* AwaitingAcceptance other than Accept drops both.
NoStaleEvidence ==
    \A t \in Tasks :
        \A e \in {task[t].align, task[t].lens} :
            e # None =>
                /\ task[t].stage \in {"AwaitingAcceptance", "Done"}
                /\ e = [run |-> task[t].run, stamp |-> task[t].submitted]

\* While a task is being written or judged, its documents and the project's
\* policy and commands are those of its agreement, and a submitted source
\* differs from the agreed baseline only where the policy allows.
AgreementHolds ==
    \A t \in Tasks :
        LET k == task[t] IN
        /\ k.stage \notin {"Absent", "Discussing"} =>
               k.agr # None /\ (k.reqDocs => k.docs = k.agr.docs /\ k.docs # 0)
        /\ k.stage \in Writing => k.agr.profile = profile
        /\ k.submitted # None =>
               /\ k.submitted.ref = k.agr.base.ref
               /\ k.submitted.outside = k.agr.base.outside

\* A CRITICAL task is implemented, verified and accepted only with an Owner
\* approval given for the agreement version in force.
CriticalApproved ==
    \A t \in CriticalTasks :
        task[t].stage \in Writing \cup {"Done"} =>
            task[t].risk = task[t].agr.ver

\* Whatever a crash interrupts, a run still recorded as Created or Running is
\* the last run of a task in Checking, where Recover can reach it; otherwise
\* NoOtherWriter would keep every other task of the project out for good.
ActiveRunRecoverable ==
    \A r \in RunIds :
        run[r].state \in ActiveStates =>
            /\ run[r].task # None
            /\ task[run[r].task].stage = "Checking"
            /\ task[run[r].task].run = r

\* The steps of a command at which the record it read is still the stored one:
\* all of them, except what follows the first write of Accept or of Verify's
\* stage.
Protected(op, step) ==
    \/ op # "verify" /\ step # "approve"
    \/ step \in {"ticket", "checkpoint", "checking"}

\* What every command relies on while it runs.  Nothing has changed the record
\* it is about to write back; Begin and Verify still have the project to
\* themselves, as NoOtherWriter found when they started; the other commands
\* still write a record in the stage their guard asked for; and neither
\* another command nor the legacy host is running.
CommandUndisturbed ==
    \A c \in Clients :
        LET m == cmd[c] IN
        m # Idle =>
            /\ ~host /\ \A d \in Clients \ {c} : cmd[d] = Idle
            /\ Protected(m.op, m.step) => task[m.task] = m.read
            /\ m.op \in {"begin", "verify"} =>
                   /\ ~legacy
                   /\ \A u \in Tasks \ {m.task} : task[u].stage \notin Claiming
            /\ m.op = "submit" => m.read.stage = "Implementing"
            /\ m.op \in {"align", "lens", "accept"} =>
                   m.read.stage = "AwaitingAcceptance"
            /\ m.op = "recover" => m.read.stage = "Checking"

\* A verification leaves Checking, through a verdict or through the catch
\* block, unless its process was killed before it finished its ticket.
Killed(t) ==
    /\ \A c \in Clients : cmd[c].op # "verify"
    /\ run[task[t].run].ticket # "Finished"

VerificationSettles ==
    \A t \in Tasks :
        task[t].stage = "Checking" ~> task[t].stage # "Checking" \/ Killed(t)

\* The legacy host refuses configuration changes and new runs of a busy
\* project: "the project is running or awaiting approval, change the settings
\* after it ends."  With nothing under way the project should not be busy.
IdleProjectIsNotBusy ==
    (/\ LeaseFree
     /\ ~legacy
     /\ \A t \in Tasks : task[t].stage \in {"Absent", "Discussing", "Done"})
    => ~ProjectBusy

-----------------------------------------------------------------------------
(* The Owner's contract and how the tables represent it.                   *)

PhaseOf(k) ==
    CASE k.stage \in {"Absent", "Discussing"} -> "open"
      [] k.stage \in {"Ready", "Rework"} -> "agreed"
      [] k.stage \in Writing -> "writing"
      [] k.stage = "Done" -> "accepted"

PassedUnder(t) ==
    {run[r].stamp : r \in {q \in RunIds :
        /\ run[q].task = t
        /\ run[q].state = "Completed"
        /\ task[t].agr # None
        /\ run[q].agr = task[t].agr.ver}}

Contract ==
    INSTANCE DeliveryContract WITH
        Sources <- Snapshots,
        phase <- [t \in Tasks |-> PhaseOf(task[t])],
        passed <- [t \in Tasks |-> PassedUnder(t)],
        accepted <- [t \in Tasks |->
            IF task[t].stage = "Done" THEN task[t].submitted ELSE None]

\* Commands, crashes, recoveries, concurrent edits and the legacy host
\* included, the service keeps the contract: one writer, fresh evidence for
\* each agreement, acceptance of a source that passed and of nothing else.
ImplementsContract == Contract!Spec
=============================================================================
