------------------------- MODULE WorkflowCoordinator -------------------------
(***************************************************************************)
(* One run of a task, driven by WorkflowCoordinator: StartAsync,           *)
(* ResumeAsync and SubmitHumanAsync, the engine that asks for node after   *)
(* node, the handlers and their deadlines, the cancellation token of the   *)
(* call, and the event sink, which may throw at every Emit.                *)
(*                                                                         *)
(* The gate serialises the three calls, so one call record is enough.      *)
(* Every step between two awaits is one action; a stop request, another    *)
(* thread's, falls between any two of them.  Store commits do not fail.    *)
(***************************************************************************)
EXTENDS WorkflowCatalog

CONSTANTS Flows,      \* workflow definitions a task may be started with
          MaxDrives,  \* bound: calls that start or resume the run
          Faults      \* whether an event, a context or the engine may throw

ASSUME FlowsAreValid == \A f \in Flows : Valid(f)
ASSUME MaxDrivesAssumption == MaxDrives \in Nat \ {0}
ASSUME FaultsAssumption == Faults \in BOOLEAN

VARIABLES def,   \* the definition the task runs
          run,   \* the stored WorkflowRun
          life,  \* the stored task's Lifecycle
          call   \* the call in progress: who it is, where it is, its token

vars == <<def, run, life, call>>

(***************************************************************************)
(* A Failed outcome keeps what the coordinator tells apart: Transient is a *)
(* retryable failure, Unknown one whose effect on the workspace is not     *)
(* known.                                                                  *)
(***************************************************************************)
Failures == {"Failed", "Transient", "Unknown"}
Stopped == {"Cancelled", "Interrupted"}
Outcomes == Failures \cup Stopped \cup {"Succeeded", "ReworkRequired", "Waiting"}
States == {"Created", "Running", "Waiting", "Blocked", "Completed", "Failed", "Cancelled",
           "Paused"}

NoRun == [state |-> "None", node |-> "", reworks |-> 0, execs |-> <<>>, request |-> 0,
          failure |-> "", drive |-> 0]
Idle == [op |-> "", pc |-> "idle", token |-> "live", pause |-> FALSE]

\* drive, which no code reads, numbers the calls that drove the engine.
Execution(node, outcome, drive) == [node |-> node, outcome |-> outcome, drive |-> drive]

Attempts(r, node) == Cardinality({i \in DOMAIN r.execs : r.execs[i].node = node})
LastOf(r, node) ==
    LET at == {i \in DOMAIN r.execs : r.execs[i].node = node}
    IN  IF at = {} THEN 0 ELSE CHOOSE i \in at : \A j \in at : j <= i
LastOutcome(r) == IF r.execs = <<>> THEN "" ELSE r.execs[Len(r.execs)].outcome

\* An exception or a deadline leaves a writing node's effect unknown.
Unfinished(node) == IF node \in def.writes THEN "Unknown" ELSE "Failed"

HandlerResults(node) ==
    CASE node = "human"          -> {"Waiting"}
      [] node = "primary-rework" -> {"Failed"}
      [] OTHER -> Failures \cup {"Succeeded", "ReworkRequired"}

Append1(r, node, outcome) == [r EXCEPT !.execs = Append(@, Execution(node, outcome, r.drive))]

Init ==
    /\ def \in Flows
    /\ run = NoRun
    /\ life = "Ready"
    /\ call = Idle

-----------------------------------------------------------------------------
(* The calls *)

Goto(pc) == call' = [call EXCEPT !.pc = pc]
Live == call.token = "live"
At(pc) == call.pc = pc

Start ==
    /\ At("idle") /\ Live /\ run = NoRun
    /\ life \notin {"Delivered", "Cancelled", "Done"}
    /\ run' = [NoRun EXCEPT !.state = "Created", !.node = def.entry, !.drive = 1]
    /\ life' = "Active"
    /\ call' = [call EXCEPT !.op = "run", !.pc = "created"]
    /\ UNCHANGED def

Started ==
    /\ At("created")
    /\ run' = [run EXCEPT !.state = "Running"]
    /\ Goto("launch")
    /\ UNCHANGED <<def, life>>

Resume_FreshBudget ==
    /\ At("idle") /\ Live /\ run.state \in {"Blocked", "Paused"} /\ run.node # ""
    /\ run.drive < MaxDrives
    /\ run' = [run EXCEPT !.state = "Running", !.failure = "", !.request = 0, !.drive = @ + 1,
                          !.reworks = 0]
    /\ call' = [call EXCEPT !.op = "run", !.pc = "launch"]
    /\ UNCHANGED <<def, life>>

Resume ==
    /\ At("idle") /\ Live /\ run.state \in {"Blocked", "Paused"} /\ run.node # ""
    /\ run.drive < MaxDrives
    /\ run' = [run EXCEPT !.state = "Running", !.failure = "", !.request = 0, !.drive = @ + 1]
    /\ call' = [call EXCEPT !.op = "run", !.pc = "launch"]
    /\ UNCHANGED <<def, life>>

\* The event after the commit is out; the engine asks for the run's current node.
Launch == At("launch") /\ Goto("dispatch") /\ UNCHANGED <<def, run, life>>

SubmitHuman_KeepsResult(request, approved) ==
    /\ At("idle") /\ Live /\ run.state = "Waiting" /\ run.request = request
    /\ run' = [run EXCEPT !.execs[Len(run.execs)].outcome = IF approved THEN "Succeeded" ELSE @,
                          !.request = 0,
                          !.state = IF approved THEN "Running" ELSE "Failed",
                          !.failure = IF approved THEN "" ELSE "HUMAN_REJECTED"]
    /\ call' = [call EXCEPT !.op = "decision", !.pc = IF approved THEN "approved" ELSE "caught"]
    /\ UNCHANGED <<def, life>>

\* An Owner decision replaces the result of the node that asked for it.
SubmitHuman(request, approved) ==
    /\ At("idle") /\ Live /\ run.state = "Waiting" /\ run.request = request
    /\ run' = [run EXCEPT !.execs[Len(run.execs)].outcome =
                             IF approved THEN "Succeeded" ELSE "Failed",
                          !.request = 0,
                          !.state = IF approved THEN "Running" ELSE "Failed",
                          !.failure = IF approved THEN "" ELSE "HUMAN_REJECTED"]
    /\ call' = [call EXCEPT !.op = "decision", !.pc = IF approved THEN "approved" ELSE "caught"]
    /\ UNCHANGED <<def, life>>

-----------------------------------------------------------------------------
(* Dispatch of one node *)

\* Commits the result the handler, the deadline or the token produced.
Record(outcome) ==
    /\ At("executing")
    /\ run' = Append1(run, run.node, outcome)
    /\ Goto("settled")
    /\ UNCHANGED <<def, life>>

Execute == At("dispatch") /\ Goto("executing") /\ UNCHANGED <<def, run, life>>

HandlerReturns == Live /\ \E outcome \in HandlerResults(run.node) : Record(outcome)

NodeTimeout_ReadersOnly == Live /\ run.node \notin def.writes /\ Record(Unfinished(run.node))

NodeTimeout == Live /\ Record(Unfinished(run.node))

\* A cancelled token outweighs whatever the handler was about to return.
NodeStopped == ~Live /\ Record(IF call.pause THEN "Interrupted" ELSE "Cancelled")

\* After the commit the token counts again, unless the result is the stop itself.
Settle ==
    /\ At("settled")
    /\ Live \/ LastOutcome(run) \in Stopped
    /\ Goto("route")
    /\ UNCHANGED <<def, run, life>>

SettleRefused ==
    /\ At("settled") /\ ~Live /\ LastOutcome(run) \notin Stopped
    /\ Goto("threw")
    /\ UNCHANGED <<def, run, life>>

Routing(outcomes) == At("route") /\ LastOutcome(run) \in outcomes

Wait ==
    /\ Routing({"Waiting"})
    /\ run' = [run EXCEPT !.state = "Waiting", !.request = Attempts(run, run.node)]
    /\ Goto("ending")
    /\ UNCHANGED <<def, life>>

MayRetry_AnyEffect ==
    /\ LastOutcome(run) \in {"Transient", "Unknown"}
    /\ Attempts(run, run.node) <= def.retries[run.node]

MayRetry ==
    /\ LastOutcome(run) = "Transient"
    /\ Attempts(run, run.node) <= def.retries[run.node]

Retry == Routing(Failures) /\ MayRetry /\ Goto("between") /\ UNCHANGED <<def, run, life>>

EndState(outcome) ==
    LET states == [Interrupted |-> "Paused", Cancelled |-> "Cancelled", Unknown |-> "Blocked"]
    IN  IF outcome \in DOMAIN states THEN states[outcome] ELSE "Failed"

NodeFails ==
    /\ Routing(Failures \cup Stopped) /\ ~MayRetry
    /\ run' = [run EXCEPT !.state = EndState(LastOutcome(run)),
                          !.failure = IF LastOutcome(run) = "Cancelled" THEN "" ELSE
                                      IF LastOutcome(run) = "Interrupted" THEN "STOPPED"
                                                                          ELSE "NODE"]
    /\ Goto("ending")
    /\ UNCHANGED <<def, life>>

ReworkNotAllowed ==
    /\ Routing({"ReworkRequired"}) /\ ~MayRework(def, run.node)
    /\ Goto("threw")
    /\ UNCHANGED <<def, run, life>>

BudgetSpent(r) == r.reworks >= def.budget

ReworkBudgetExhausted ==
    /\ Routing({"ReworkRequired"}) /\ MayRework(def, run.node) /\ BudgetSpent(run)
    /\ run' = [run EXCEPT !.state = "Blocked", !.failure = "REWORK_BUDGET"]
    /\ Goto("ending")
    /\ UNCHANGED <<def, life>>

Rework ==
    /\ Routing({"ReworkRequired"}) /\ MayRework(def, run.node) /\ ~BudgetSpent(run)
    /\ run' = [run EXCEPT !.reworks = @ + 1, !.node = def.target]
    /\ Goto("between")
    /\ UNCHANGED <<def, life>>

(***************************************************************************)
(* Advance, after a success or an approval.                                *)
(***************************************************************************)
Advancing == Routing({"Succeeded"}) \/ At("approved")

\* From an approval an exception leaves the call, from a dispatch it reaches Drive.
AdvanceThrows == Goto(IF At("approved") THEN "escaped" ELSE "threw")

AdvanceNode_BackToReview ==
    /\ Advancing /\ HasNext(def, run.node) /\ NextNode(def, run.node) # Complete /\ Live
    /\ run' = [run EXCEPT !.node = IF run.node = def.target /\ run.reworks > 0
                                     /\ "review" \in def.nodes
                                   THEN "review" ELSE NextNode(def, run.node)]
    /\ Goto(IF At("approved") THEN "dispatch" ELSE "between")
    /\ UNCHANGED <<def, life>>

AdvanceNode ==
    /\ Advancing /\ HasNext(def, run.node) /\ NextNode(def, run.node) # Complete /\ Live
    /\ run' = [run EXCEPT !.node = NextNode(def, run.node)]
    /\ Goto(IF At("approved") THEN "dispatch" ELSE "between")
    /\ UNCHANGED <<def, life>>

ConditionsMet(r) ==
    \A n \in Elements(def.required) :
        LastOf(r, n) # 0 /\ r.execs[LastOf(r, n)].outcome = "Succeeded"

\* Under the lock a stop request also takes: the token, the run and the task.
CompleteRun_TokenReadBefore ==
    /\ Advancing /\ HasNext(def, run.node) /\ NextNode(def, run.node) = Complete /\ ConditionsMet(run)
    /\ run' = [run EXCEPT !.state = "Completed", !.node = ""]
    /\ life' = IF def.kind \in {"fusion", "direct"} THEN "AwaitingAcceptance" ELSE "Delivered"
    /\ Goto("ending")
    /\ UNCHANGED def

CompleteRun ==
    /\ Advancing /\ HasNext(def, run.node) /\ NextNode(def, run.node) = Complete /\ ConditionsMet(run) /\ Live
    /\ run' = [run EXCEPT !.state = "Completed", !.node = ""]
    /\ life' = IF def.kind \in {"fusion", "direct"} THEN "AwaitingAcceptance" ELSE "Delivered"
    /\ Goto("ending")
    /\ UNCHANGED def

AdvanceRefused ==
    /\ Advancing
    /\ HasNext(def, run.node) /\ Live =>
          NextNode(def, run.node) = Complete /\ ~ConditionsMet(run)
    /\ AdvanceThrows
    /\ UNCHANGED <<def, run, life>>

\* The events after a commit are out; the engine asks for the next node.
NextDispatch == At("between") /\ Goto("dispatch") /\ UNCHANGED <<def, run, life>>

\* The engine may also end with a target still to dispatch.
EngineStops == Faults /\ At("between") /\ Goto("ending") /\ UNCHANGED <<def, run, life>>

Return_AnyState == At("ending") /\ call' = Idle /\ UNCHANGED <<def, run, life>>

Return ==
    /\ At("ending") /\ run.state # "Running"
    /\ call' = Idle
    /\ UNCHANGED <<def, run, life>>

StoppedEarly ==
    /\ At("ending") /\ run.state = "Running"
    /\ Goto("threw")
    /\ UNCHANGED <<def, run, life>>

-----------------------------------------------------------------------------
(* Exceptions *)

InDrive == {"dispatch", "settled", "between", "ending"}

\* An event, a context build or the engine fails.
Fault ==
    /\ Faults /\ call.pc \in InDrive
    /\ Goto("threw")
    /\ UNCHANGED <<def, run, life>>

\* The token is looked at by the context build and by the engine's stream, too.
Cancelled ==
    /\ ~Live /\ call.pc \in InDrive \ {"settled"}
    /\ Goto("threw")
    /\ UNCHANGED <<def, run, life>>

Settled(r) == r.state \in {"Completed", "Cancelled", "Paused"}

CatchStop ==
    /\ At("threw") /\ ~Live
    /\ IF Settled(run)
         THEN call' = Idle /\ UNCHANGED run
         ELSE LET r == IF run.node = "" THEN run
                       ELSE Append1(run, run.node,
                                    IF call.pause THEN "Interrupted" ELSE "Cancelled")
              IN  /\ run' = [r EXCEPT !.state = IF call.pause THEN "Paused" ELSE "Cancelled",
                                      !.failure = IF call.pause THEN "STOPPED" ELSE "CANCELLED",
                                      !.request = 0]
                  /\ Goto("caught")
    /\ UNCHANGED <<def, life>>

CatchError_KeepsLife ==
    /\ At("threw") /\ Live
    /\ run' = [run EXCEPT !.state = "Failed", !.failure = "RUNTIME_ERROR"]
    /\ Goto("caught")
    /\ UNCHANGED <<def, life>>

CatchError ==
    /\ At("threw") /\ Live
    /\ run' = [run EXCEPT !.state = "Failed", !.failure = "RUNTIME_ERROR"]
    /\ life' = IF life = "Delivered" THEN "Active" ELSE life
    /\ Goto("caught")
    /\ UNCHANGED def

CaughtReturn == At("caught") /\ call' = Idle /\ UNCHANGED <<def, run, life>>

\* Outside Drive nothing catches: the caller gets the exception.
Escape ==
    /\ Faults /\ call.pc \in {"created", "launch", "approved", "caught"}
    /\ Goto("escaped")
    /\ UNCHANGED <<def, run, life>>

-----------------------------------------------------------------------------
(* Other threads *)

\* A stop of the Owner; only a run that executes, once, and never during a decision.
RequestStop(pause) ==
    /\ call.op = "run" /\ ~At("escaped") /\ run.state = "Running" /\ call.token # "stop"
    /\ call' = [call EXCEPT !.token = "stop", !.pause = pause]
    /\ UNCHANGED <<def, run, life>>

\* The host shuts down; every call's token hangs on it.
HostStops ==
    /\ ~At("idle") /\ ~At("escaped") /\ Live
    /\ call' = [call EXCEPT !.token = "shutdown"]
    /\ UNCHANGED <<def, run, life>>

Terminated ==
    /\ At("escaped") \/ (At("idle") /\ run.state \notin {"None", "Waiting", "Blocked", "Paused"})
       \/ (At("idle") /\ run.state \in {"Blocked", "Paused"} /\ run.drive = MaxDrives)
    /\ UNCHANGED vars

Engine ==
    \/ Started \/ Launch \/ Execute \/ NodeTimeout \/ NodeStopped \/ Settle
    \/ SettleRefused
    \/ Wait \/ Retry \/ NodeFails \/ ReworkNotAllowed \/ ReworkBudgetExhausted \/ Rework
    \/ AdvanceNode \/ CompleteRun \/ AdvanceRefused \/ NextDispatch \/ Return
    \/ StoppedEarly
    \/ CatchStop \/ CatchError \/ CaughtReturn

Next ==
    \/ Start
    \/ Resume
    \/ \E request \in DOMAIN run.execs, approved \in BOOLEAN : SubmitHuman(request, approved)
    \/ Engine
    \/ HandlerReturns
    \/ EngineStops
    \/ Fault
    \/ Cancelled
    \/ Escape
    \/ \E pause \in BOOLEAN : RequestStop(pause)
    \/ HostStops
    \/ Terminated

(***************************************************************************)
(* The call's own steps go on; a deadline fires and a handler whose token  *)
(* is cancelled stops, but no handler is sure to return by itself.         *)
(***************************************************************************)
Spec == Init /\ [][Next]_vars /\ WF_vars(Engine)
=============================================================================
