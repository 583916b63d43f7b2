------------------------ MODULE CoordinatorProperties ------------------------
(***************************************************************************)
(* What WorkflowCoordinator promises about one run.                        *)
(***************************************************************************)
EXTENDS WorkflowCoordinator

\* A completed run went through all its required steps, each successful the last time and
\* in their order: nothing was written after it was tested, nothing tested after it was
\* reviewed, nothing reviewed after it was approved (Advance, Rework, ResumeAsync).
EvidenceInOrder ==
    run.state = "Completed" =>
        \A i \in DOMAIN def.required :
            /\ LastOf(run, def.required[i]) > 0
            /\ run.execs[LastOf(run, def.required[i])].outcome = "Succeeded"
            /\ i > 1 => LastOf(run, def.required[i - 1]) < LastOf(run, def.required[i])

ReworkRounds ==
    {i \in DOMAIN run.execs :
        /\ i < Len(run.execs)
        /\ run.execs[i].outcome = "ReworkRequired"
        /\ run.execs[i].node # def.target
        /\ run.execs[i + 1].node = def.target}

\* However often a run is stopped and resumed, findings send it back to the rework node
\* at most MaxReworks times (Dispatch, ReworkCount of the stored run).
ReworksBounded == Cardinality(ReworkRounds) <= def.budget

\* Once the Owner's stop is accepted the run of that call is not completed, however late
\* the stop came (RequestStop and Advance under one lock).
StopHonoured == call.token = "stop" => run.state # "Completed"

\* A call that returned leaves no run behind that claims to be executing (Drive).
NoOrphan == At("idle") => run.state \notin {"Created", "Running"}

\* A task is Delivered only by a run that stayed Completed (Drive's catch block).
DeliveredOnlyCompleted ==
    life = "Delivered" /\ call.pc \in {"idle", "caught", "escaped"} => run.state = "Completed"

\* The same for a task that waits for the Owner's acceptance.
NothingManufactured ==
    life \in {"Delivered", "AwaitingAcceptance"} /\ call.pc \in {"idle", "caught", "escaped"}
        => run.state = "Completed"

Unclear(r) ==
    /\ LastOutcome(r) = "Unknown"
    /\ r.execs[Len(r.execs)].node = r.node
    /\ r.execs[Len(r.execs)].drive = r.drive

\* A step that failed with an unknown effect on the workspace is not executed again
\* unless somebody resumes the run (Dispatch's retry condition).
NoBlindRepeat == [][~At("executing") /\ At("executing")' => ~Unclear(run)]_vars

=============================================================================
