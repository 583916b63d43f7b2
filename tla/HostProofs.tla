----------------------------- MODULE HostProofs -----------------------------
(***************************************************************************)
(* Proofs about RunHost: the host's promises about one run, for any number *)
(* of configurations, resumes and restarts, and wherever a stop, a         *)
(* deadline, an exception or a crash falls.                                *)
(***************************************************************************)
EXTENDS RunHostProperties, CoordinatorProofs

(***************************************************************************)
(* The shapes of what is stored and of what is in memory.                  *)
(***************************************************************************)
Items == [kind : {"run", "resume", "decision"}, request : Nat, approved : BOOLEAN]
Statuses == {"Waiting", "Approved", "Rejected", "Cancelled", "Interrupted"}
Entries == [request : Nat, status : Statuses]

Calls ==
    /\ Kept /\ run.request \in Nat

Tables ==
    /\ ticket = [f \in {"state", "profile", "born"} |-> ticket[f]]
    /\ host = [f \in {"at", "crashes"} |-> host[f]]
    /\ ticket.born \in Nat /\ host.crashes \in Nat
    /\ approvals \in Seq(Entries)

Memory ==
    /\ worker = [f \in {"pc", "item", "seen", "profile"} |-> worker[f]]
    /\ worker.item \in Items \cup {RunItem("")}
    /\ worker.pc # "idle" => worker.item \in Items
    /\ queue \in Seq(Items)

Shapes == Calls /\ Tables /\ Memory

LEMMA HumanAttemptsAreFinite ==
    ASSUME Numbered(run)
    PROVE  /\ \A node : /\ IsFiniteSet({i \in DOMAIN run.execs : run.execs[i].node = node})
                        /\ Attempts(run, node) \in Nat
                        /\ Attempts(run, node) <= Len(run.execs)
           /\ HumanAttempts = {i \in DOMAIN run.execs : run.execs[i].node = "human"}
           /\ DOMAIN run.execs = 1..Len(run.execs) /\ Len(run.execs) \in Nat
<1>1. DOMAIN run.execs = 1..Len(run.execs) /\ Len(run.execs) \in Nat
  BY DEF Numbered
<1>2. IsFiniteSet(1..Len(run.execs)) /\ Cardinality(1..Len(run.execs)) = Len(run.execs)
  BY <1>1, FS_Interval
<1>3. ASSUME NEW node
      PROVE  /\ IsFiniteSet({i \in DOMAIN run.execs : run.execs[i].node = node})
             /\ Attempts(run, node) \in Nat /\ Attempts(run, node) <= Len(run.execs)
  <2> DEFINE S == {i \in DOMAIN run.execs : run.execs[i].node = node}
  <2>1. S \in SUBSET (1..Len(run.execs))
    BY <1>1
  <2>2. IsFiniteSet(S) /\ Cardinality(S) <= Len(run.execs) /\ Cardinality(S) \in Nat
    BY <1>2, <2>1, FS_Subset, FS_CardinalityType
  <2> QED
    BY <2>2 DEF Attempts
<1> QED
  BY <1>1, <1>3 DEF HumanAttempts

\* The steps of a call that ProcessAsync makes are the coordinator's.
LEMMA CoordinateIsNext == Coordinate => Next
  BY DEF Coordinate, Next

LEMMA RequestStep == ASSUME Calls, Next PROVE run'.request \in Nat
<1> USE DEF Calls
<1>1. CASE Wait
  <2>1. run'.request = Attempts(run, run.node)
    BY <1>1 DEF Wait, Kept
  <2> QED
    BY <2>1, HumanAttemptsAreFinite DEF Kept
<1>2. CASE Start
  BY <1>2 DEF Start, NoRun
<1>3. CASE Started \/ Resume \/ Launch \/ Execute \/ Settle \/ SettleRefused \/ Retry \/ NodeFails
           \/ ReworkNotAllowed \/ ReworkBudgetExhausted \/ Rework \/ AdvanceNode
  <2>1. CASE NodeFails
    BY <2>1 DEF NodeFails, Kept
  <2>2. CASE Rework
    BY <2>2 DEF Rework, Kept
  <2>3. CASE AdvanceNode
    BY <2>3 DEF AdvanceNode, Kept
  <2>4. CASE Started \/ ReworkBudgetExhausted
    BY <2>4 DEF Started, ReworkBudgetExhausted, Kept
  <2>6. CASE Resume
    <3>1. run' = [run EXCEPT !.state = "Running", !.failure = "", !.request = 0, !.drive = @ + 1]
      BY <2>6 DEF Resume
    <3>2. "request" \in DOMAIN run
      BY DEF Kept
    <3> QED
      BY ONLY <3>1, <3>2
  <2>5. CASE Launch \/ Execute \/ Settle \/ SettleRefused \/ Retry \/ ReworkNotAllowed
    BY <2>5 DEF Launch, Execute, Settle, SettleRefused, Retry, ReworkNotAllowed
  <2> QED
    BY <1>3, <2>1, <2>2, <2>3, <2>4, <2>5, <2>6
<1>4. CASE CompleteRun \/ AdvanceRefused \/ NextDispatch \/ StoppedEarly \/ CatchError
           \/ EngineStops \/ Fault \/ Cancelled \/ Escape \/ HostStops \/ Return \/ CaughtReturn
           \/ Terminated
  BY <1>4 DEF CompleteRun, AdvanceRefused, NextDispatch, StoppedEarly, CatchError, EngineStops,
              Fault, Cancelled, Escape, HostStops, Return, CaughtReturn, Terminated, vars, Kept
<1>5. CASE HandlerReturns \/ NodeTimeout \/ NodeStopped
  <2>1. PICK outcome : Record(outcome)
    BY <1>5 DEF HandlerReturns, NodeTimeout, NodeStopped
  <2> QED
    BY <2>1 DEF Record, Append1, Kept
<1>6. CASE CatchStop
  <2> DEFINE r == IF run.node = "" THEN run
                  ELSE Append1(run, run.node, IF call.pause THEN "Interrupted" ELSE "Cancelled")
  <2>1. CASE Settled(run)
    BY <1>6, <2>1 DEF CatchStop
  <2>2. CASE ~Settled(run)
    <3>1. /\ run' = [r EXCEPT !.state = IF call.pause THEN "Paused" ELSE "Cancelled",
                             !.failure = IF call.pause THEN "STOPPED" ELSE "CANCELLED",
                             !.request = 0]
      BY <1>6, <2>2 DEF CatchStop
    <3>2. "request" \in DOMAIN r
      BY DEF Append1, Kept
    <3> HIDE DEF r
    <3> QED
      BY <3>1, <3>2
  <2> QED
    BY <2>1, <2>2
<1>7. ASSUME NEW request, NEW approved \in BOOLEAN, SubmitHuman(request, approved)
      PROVE  run'.request \in Nat
  BY <1>7 DEF SubmitHuman, Kept
<1>8. ASSUME NEW pause, RequestStop(pause) PROVE run'.request \in Nat
  BY <1>8 DEF RequestStop
<1> QED
  BY <1>1, <1>2, <1>3, <1>4, <1>5, <1>6, <1>7, <1>8 DEF Next, Engine

LEMMA CallsNext == ASSUME Calls, Next PROVE Calls'
<1>1. [Next]_vars
  OBVIOUS
<1> QED
  BY <1>1, KeptStep, RequestStep DEF Calls

LEMMA CallsStay ==
    ASSUME Calls, run'.execs = run.execs, run'.drive = run.drive, run'.request \in Nat,
           run' = [f \in {"state", "node", "reworks", "execs", "request", "failure", "drive"} |->
                      run'[f]],
           call' = [f \in {"op", "pc", "token", "pause"} |-> call'[f]]
    PROVE  Calls'
  BY DEF Calls, Kept, Numbered

\* The host's own steps: all but those that are the coordinator's.
Skipped == TakeDecision /\ UNCHANGED <<vars, worker>>

Own ==
    \/ SaveProject \/ RequestRun \/ RequestResume \/ CancelStored
    \/ \E pause \in BOOLEAN : StopExecuting(pause)
    \/ \E approved \in BOOLEAN : RequestApproval(approved)
    \/ TakeRun \/ Skipped \/ Escaped \/ Returned \/ FileApproval \/ FileTicket
    \/ CatchException \/ DecisionReturned \/ DecisionEscaped
    \/ \E cause \in {"CANCELLED", "PROJECT_CONFIGURATION", "RESUME_INVALID"} : NotPrepared(cause)
    \/ ShutDown \/ Restart \/ Recover

Submitted ==
    /\ Up /\ worker.pc = "idle" /\ queue # <<>> /\ Head(queue).kind = "decision"
    /\ queue' = Tail(queue)
    /\ waiting /\ run.state = "Waiting" /\ run.request = Head(queue).request
    /\ SubmitHuman(Head(queue).request, Head(queue).approved)
    /\ worker' = [Resting EXCEPT !.pc = "calling", !.item = Head(queue),
                                 !.profile = ticket.profile]
    /\ UNCHANGED deciding
    /\ UNCHANGED <<ticket, supported, approvals, profile, tested, waiting, host>>

LEMMA HostSteps == HostNext => Own \/ Coordinate \/ Prepared \/ Submitted
  BY DEF HostNext, Process, Own, Skipped, Submitted, TakeDecision

\* What the host does to the run itself.
LEMMA OwnRun ==
    ASSUME Calls, Own
    PROVE  /\ def' = def /\ run'.execs = run.execs /\ run'.drive = run.drive
           /\ run'.request = run.request \/ run'.request = 0
           /\ run' = [f \in {"state", "node", "reworks", "execs", "request", "failure", "drive"} |->
                         run'[f]]
<1> DEFINE Goal ==
        /\ def' = def /\ run'.execs = run.execs /\ run'.drive = run.drive
        /\ run'.request = run.request \/ run'.request = 0
        /\ run' = [f \in {"state", "node", "reworks", "execs", "request", "failure", "drive"} |->
                      run'[f]]
<1>1. ASSUME run' = run, def' = def PROVE Goal
  BY <1>1 DEF Calls, Kept
<1>2. CASE \/ SaveProject \/ RequestRun \/ TakeRun \/ Skipped \/ Escaped \/ Returned \/ FileApproval
           \/ FileTicket \/ DecisionEscaped \/ ShutDown \/ Restart
  BY <1>1, <1>2 DEF SaveProject, RequestRun, TakeRun, Skipped, Escaped, Returned, FileApproval,
                    FileTicket, DecisionEscaped, ShutDown, Restart, vars
<1>3. ASSUME NEW pause, StopExecuting(pause) PROVE Goal
  BY <1>1, <1>3 DEF StopExecuting
<1>4. ASSUME NEW approved, RequestApproval(approved) PROVE Goal
  BY <1>1, <1>4 DEF RequestApproval, vars
<1>5. ASSUME NEW cause, NotPrepared(cause) PROVE Goal
  BY <1>1, <1>5 DEF NotPrepared, vars
<1>6. CASE RequestResume
  BY <1>6 DEF RequestResume, Retested, Calls, Kept
<1>7. CASE CancelStored
  BY <1>7 DEF CancelStored, Calls, Kept
<1>8. CASE CatchException
  <2>1. CASE run = NoRun
    BY <1>8, <2>1 DEF CatchException, NoRun
  <2>2. CASE run # NoRun
    BY <1>8, <2>2 DEF CatchException, Calls, Kept
  <2> QED
    BY <2>1, <2>2
<1>9. CASE DecisionReturned
  BY <1>9 DEF DecisionReturned, Calls, Kept
<1>10. CASE Recover
  BY <1>10 DEF Recover, RecoverRun, RecoverApprovals, RecoverCheckpoints, RecoverTickets, vars,
               Calls, Kept
<1> QED
  BY <1>2, <1>3, <1>4, <1>5, <1>6, <1>7, <1>8, <1>9, <1>10 DEF Own

LEMMA OwnCall ==
    ASSUME Calls, Own
    PROVE  /\ call' = [f \in {"op", "pc", "token", "pause"} |-> call'[f]]
           /\ call'.pc = call.pc \/ call' = Idle
<1> USE DEF Calls, Kept
<1>1. CASE \/ SaveProject \/ RequestRun \/ RequestResume \/ CancelStored \/ Skipped \/ Escaped
           \/ Returned \/ FileApproval \/ FileTicket \/ DecisionReturned
  BY <1>1 DEF SaveProject, RequestRun, RequestResume, CancelStored, Skipped, Escaped,
              Returned, FileApproval, FileTicket, DecisionReturned, vars
<1>2. CASE TakeRun \/ CatchException \/ DecisionEscaped \/ Restart
  BY <1>2 DEF TakeRun, CatchException, DecisionEscaped, Restart, Idle
<1>3. ASSUME NEW pause, StopExecuting(pause) \/ ShutDown
      PROVE  /\ call' = [f \in {"op", "pc", "token", "pause"} |-> call'[f]]
             /\ call'.pc = call.pc
  BY <1>3 DEF StopExecuting, ShutDown
<1>4. ASSUME NEW x, RequestApproval(x) \/ NotPrepared(x) PROVE call' = call
  BY <1>4 DEF RequestApproval, NotPrepared, vars
<1>5. CASE Recover
  BY <1>5 DEF Recover, RecoverRun, RecoverApprovals, RecoverCheckpoints, RecoverTickets, vars
<1> QED
  BY <1>1, <1>2, <1>3, <1>4, <1>5 DEF Own

(***************************************************************************)
(* Where the call, its run, the worker and the host can be.                *)
(***************************************************************************)
Driving == {"launch", "dispatch", "executing", "settled", "route", "between", "approved"}

Positions ==
    /\ call.pc \in Driving \cup Ends \cup {"created"}
    /\ call.pc = "created" => run.state = "Created"
    /\ call.pc \in Driving => run.state = "Running"
    /\ run.state = "Waiting" => call.pc \in {"ending", "threw", "idle"}

Attended ==
    /\ call.pc # "idle" => worker.pc = "calling" \/ (worker.pc = "catch" /\ call.pc = "escaped")
    /\ worker.pc \in {"idle", "preparing", "calling", "file", "ticket", "catch"}
    /\ worker.pc \in {"preparing", "file", "ticket", "catch"} => worker.item.kind # "decision"
    /\ host.at \in {"up", "stopping", "runs", "approvals", "checkpoints", "tickets"}
    /\ host.at \notin {"up", "stopping"} => worker.pc = "idle" /\ queue = <<>>
    /\ host.at \in {"approvals", "checkpoints", "tickets"} => run.state \notin Active \cup {"Paused"}

\* A run that waits, waits for the answer to its last execution.
Questioned ==
    /\ call.pc \in {"settled", "route"} =>
          OfNode(run) /\ (LastOutcome(run) = "Waiting" => run.node = "human")
    /\ call.pc = "approved" => run.node = "human"
    /\ run.state = "Waiting" =>
          /\ run.node = "human" /\ OfNode(run) /\ LastOutcome(run) = "Waiting"
          /\ run.request = Cardinality(HumanAttempts)

Base == Shapes /\ Positions /\ Attended /\ Questioned

LEMMA PositionsNext == ASSUME Kept, Positions, Next PROVE Positions'
<1> USE DEF Goto, At, Live
<1>1. ASSUME run'.state = run.state, call'.pc = call.pc PROVE Positions'
  BY <1>1 DEF Positions
<1>2. ASSUME call'.pc = "idle" PROVE Positions'
  BY <1>2 DEF Positions, Ends, Driving
<1>3. ASSUME run'.state = run.state, call'.pc \in {"threw", "ending"} PROVE Positions'
  BY <1>3 DEF Positions, Ends, Driving
<1>4. ASSUME run.state = "Running" \/ call.pc \in Driving, run'.state = run.state,
             call'.pc \in Driving
      PROVE  Positions'
  BY <1>4 DEF Positions, Ends, Driving
<1>5. ASSUME run'.state \in {"Waiting", "Blocked", "Completed"} \cup {"Paused", "Cancelled", "Failed"},
             call'.pc = "ending"
      PROVE  Positions'
  BY <1>5 DEF Positions, Ends, Driving
<1>6. ASSUME run'.state \in {"Paused", "Cancelled", "Failed"}, call'.pc = "caught"
      PROVE  Positions'
  BY <1>6 DEF Positions, Ends, Driving
<1>7. CASE Terminated \/ HostStops \/ \E pause \in BOOLEAN : RequestStop(pause)
  BY <1>1, <1>7 DEF Terminated, HostStops, RequestStop, vars, Kept
<1>8. CASE Start
  BY <1>8 DEF Start, NoRun, Positions, Ends, Driving, Kept
<1>9. CASE Started \/ Resume
  <2>1. run'.state = "Running" /\ call'.pc = "launch"
    BY <1>9 DEF Started, Resume, Kept
  <2> QED
    BY <2>1 DEF Positions, Driving
<1>10. CASE Launch \/ Execute \/ Settle \/ NextDispatch \/ Retry \/ Rework \/ AdvanceNode
  <2>1. run'.state = run.state
    BY <1>10 DEF Launch, Execute, Settle, NextDispatch, Retry, Rework, AdvanceNode, Kept
  <2>2. call'.pc \in {"dispatch", "executing", "route", "between"}
    BY <1>10 DEF Launch, Execute, Settle, NextDispatch, Retry, Rework, AdvanceNode, Kept
  <2>3. call.pc \in {"launch", "dispatch", "settled", "between", "route", "approved"}
    BY <1>10 DEF Launch, Execute, Settle, NextDispatch, Retry, Rework, AdvanceNode, Advancing,
                 Routing
  <2> QED
    BY <1>4, <2>1, <2>2, <2>3 DEF Driving
<1>11. CASE SettleRefused \/ ReworkNotAllowed \/ EngineStops \/ StoppedEarly \/ Fault \/ Cancelled
  BY <1>3, <1>11 DEF SettleRefused, ReworkNotAllowed, EngineStops, StoppedEarly, Fault, Cancelled,
                     Kept
<1>12. CASE AdvanceRefused \/ Escape
  <2>1. run' = run /\ call'.pc \in {"threw", "escaped"}
    BY <1>12 DEF AdvanceRefused, AdvanceThrows, Escape, Kept
  <2>2. call'.pc = "escaped" => call.pc \in {"created", "launch", "approved", "caught"}
    BY <1>12 DEF AdvanceRefused, AdvanceThrows, Escape, Kept
  <2> QED
    BY <2>1, <2>2 DEF Positions, Ends, Driving
<1>13. CASE Wait \/ ReworkBudgetExhausted \/ CompleteRun
  BY <1>5, <1>13 DEF Wait, ReworkBudgetExhausted, CompleteRun, Kept
<1>14. CASE NodeFails
  BY <1>5, <1>14, Ended DEF NodeFails, Kept
<1>15. CASE HandlerReturns \/ NodeTimeout \/ NodeStopped
  <2>1. PICK outcome : Record(outcome)
    BY <1>15 DEF HandlerReturns, NodeTimeout, NodeStopped
  <2>2. run'.state = run.state /\ call'.pc = "settled" /\ call.pc = "executing"
    BY <2>1 DEF Record, Append1, Kept
  <2> QED
    BY <1>4, <2>2 DEF Driving
<1>16. CASE Return \/ CaughtReturn \/ (CatchStop /\ Settled(run))
  BY <1>2, <1>16, IdleIsIdle DEF Return, CaughtReturn, CatchStop
<1>17. CASE CatchError
  BY <1>6, <1>17 DEF CatchError, Kept
<1>18. CASE CatchStop /\ ~Settled(run)
  <2> DEFINE r == IF run.node = "" THEN run
                  ELSE Append1(run, run.node, IF call.pause THEN "Interrupted" ELSE "Cancelled")
  <2>1. /\ run' = [r EXCEPT !.state = IF call.pause THEN "Paused" ELSE "Cancelled",
                           !.failure = IF call.pause THEN "STOPPED" ELSE "CANCELLED",
                           !.request = 0]
        /\ call'.pc = "caught"
    BY <1>18 DEF CatchStop, Kept
  <2>2. "state" \in DOMAIN r
    BY DEF Append1, Kept
  <2> HIDE DEF r
  <2>3. run'.state \in {"Paused", "Cancelled"}
    BY <2>1, <2>2
  <2> QED
    BY <1>6, <2>1, <2>3
<1>19. ASSUME NEW request, NEW approved, SubmitHuman(request, approved) PROVE Positions'
  <2>1. \/ run'.state = "Running" /\ call'.pc = "approved"
        \/ run'.state = "Failed" /\ call'.pc = "caught"
    BY <1>19 DEF SubmitHuman, Kept
  <2> QED
    BY <1>6, <2>1 DEF Positions, Driving
<1> QED
  BY <1>7, <1>8, <1>9, <1>10, <1>11, <1>12, <1>13, <1>14, <1>15, <1>16, <1>17, <1>18, <1>19
     DEF Next, Engine

LEMMA QuestionedNext == ASSUME Calls, Positions, Questioned, Next PROVE Questioned'
<1> USE DEF Goto, At, Live, Calls
<1>1. ASSUME run'.execs = run.execs, run'.node = run.node, run'.request = run.request,
             run'.state = "Waiting" => run.state = "Waiting",
             call'.pc \in {"settled", "route"} => call.pc \in {"settled", "route"},
             call'.pc = "approved" => call.pc = "approved"
      PROVE  Questioned'
  BY <1>1 DEF Questioned, OfNode, LastOutcome, HumanAttempts
<1>2. ASSUME run'.state # "Waiting", call'.pc \notin {"settled", "route", "approved"} PROVE Questioned'
  BY <1>2 DEF Questioned
<1>3. CASE Terminated \/ HostStops \/ \E pause \in BOOLEAN : RequestStop(pause)
  BY <1>1, <1>3 DEF Terminated, HostStops, RequestStop, vars, Kept
<1>4. CASE Settle
  BY <1>1, <1>4 DEF Settle, Kept
<1>5. CASE Start \/ Started \/ Resume
  <2>1. run'.state \in {"Created", "Running"} /\ call'.pc \in {"created", "launch"}
    BY <1>5 DEF Start, Started, Resume, NoRun, Kept
  <2> QED
    BY <1>2, <2>1
<1>6. CASE Launch \/ Execute \/ NextDispatch \/ SettleRefused \/ ReworkNotAllowed \/ EngineStops
           \/ StoppedEarly \/ Fault \/ Cancelled \/ Retry
  BY <1>1, <1>6 DEF Launch, Execute, NextDispatch, SettleRefused, ReworkNotAllowed, EngineStops,
                    StoppedEarly, Fault, Cancelled, Retry, Kept
<1>7. CASE AdvanceRefused \/ Escape \/ Return \/ CaughtReturn \/ (CatchStop /\ Settled(run))
  <2>1. run' = run /\ call'.pc \in {"threw", "escaped", "idle"}
    BY <1>7, IdleIsIdle DEF AdvanceRefused, AdvanceThrows, Escape, Return, CaughtReturn, CatchStop,
                            Kept
  <2> QED
    BY <1>1, <2>1
<1>8. CASE Wait
  <2>1. /\ run' = [run EXCEPT !.state = "Waiting", !.request = Attempts(run, run.node)]
        /\ call'.pc = "ending" /\ call.pc = "route" /\ LastOutcome(run) = "Waiting"
    BY <1>8 DEF Wait, Routing, Kept
  <2>2. run'.execs = run.execs /\ run'.node = run.node /\ run'.request = Attempts(run, run.node)
    BY <2>1 DEF Kept
  <2>3. run.node = "human" /\ OfNode(run)
    BY <2>1 DEF Questioned
  <2>4. HumanAttempts' = HumanAttempts /\ Attempts(run, "human") = Cardinality(HumanAttempts)
    BY <2>2 DEF HumanAttempts, Attempts
  <2>5. OfNode(run') /\ LastOutcome(run') = LastOutcome(run)
    BY <2>2, <2>3 DEF OfNode, LastOutcome
  <2> QED
    BY <2>1, <2>2, <2>3, <2>4, <2>5 DEF Questioned
<1>9. CASE ReworkBudgetExhausted \/ CompleteRun
  BY <1>2, <1>9 DEF ReworkBudgetExhausted, CompleteRun, Kept
<1>10. CASE NodeFails
  BY <1>2, <1>10, Ended DEF NodeFails, Kept
<1>11. CASE Rework \/ AdvanceNode
  <2>1. run'.state = run.state /\ call'.pc \in {"between", "dispatch"}
    BY <1>11 DEF Rework, AdvanceNode, Kept
  <2>2. call.pc \in {"route", "approved"}
    BY <1>11 DEF Rework, AdvanceNode, Advancing, Routing
  <2>3. run.state = "Running"
    BY <2>2 DEF Positions, Driving
  <2> QED
    BY <1>2, <2>1, <2>3
<1>12. CASE HandlerReturns \/ NodeTimeout \/ NodeStopped
  <2>1. PICK outcome : Record(outcome) /\ (outcome = "Waiting" => run.node = "human")
    BY <1>12 DEF HandlerReturns, NodeTimeout, NodeStopped, HandlerResults, Unfinished, Failures
  <2>2. /\ run' = Append1(run, run.node, outcome) /\ call'.pc = "settled"
        /\ call.pc = "executing"
    BY <2>1 DEF Record, Kept
  <2>3. run'.state = run.state /\ run'.node = run.node
    BY <2>2 DEF Append1, Kept
  <2>4. run.state = "Running"
    BY <2>2 DEF Positions, Driving
  <2>5. LastOutcome(run') = outcome
    BY <2>2, Recorded
  <2>6. OfNode(run')
    <3> DEFINE e == Execution(run.node, outcome, run.drive)
    <3>1. run'.execs = Append(run.execs, e)
      BY <2>2 DEF Append1, Kept
    <3>2. e.node = run.node
      BY DEF Execution
    <3> HIDE DEF e
    <3>3. run.execs \in Seq(Elements(run.execs)) /\ Len(run.execs) \in Nat
      BY DEF Kept, Numbered
    <3>4. Len(run'.execs) = Len(run.execs) + 1 /\ run'.execs[Len(run.execs) + 1] = e
      BY ONLY <3>1, <3>3, Appended
    <3>5. run'.execs # <<>>
      BY <3>3, <3>4
    <3> QED
      BY <2>3, <3>2, <3>4, <3>5 DEF OfNode
  <2> QED
    BY <2>1, <2>2, <2>3, <2>4, <2>5, <2>6 DEF Questioned
<1>13. CASE CatchError
  BY <1>2, <1>13 DEF CatchError, Kept
<1>14. CASE CatchStop /\ ~Settled(run)
  <2> DEFINE r == IF run.node = "" THEN run
                  ELSE Append1(run, run.node, IF call.pause THEN "Interrupted" ELSE "Cancelled")
  <2>1. /\ run' = [r EXCEPT !.state = IF call.pause THEN "Paused" ELSE "Cancelled",
                           !.failure = IF call.pause THEN "STOPPED" ELSE "CANCELLED",
                           !.request = 0]
        /\ call'.pc = "caught"
    BY <1>14 DEF CatchStop, Kept
  <2>2. "state" \in DOMAIN r
    BY DEF Append1, Kept
  <2> HIDE DEF r
  <2> QED
    BY <1>2, <2>1, <2>2
<1>15. ASSUME NEW request, NEW approved, SubmitHuman(request, approved) PROVE Questioned'
  <2>1. run.node = "human"
    BY <1>15 DEF SubmitHuman, Questioned
  <2>2. run'.node = "human" /\ run'.state # "Waiting" /\ call'.pc \in {"approved", "caught"}
    BY <1>15, <2>1 DEF SubmitHuman, Kept
  <2> QED
    BY <2>2 DEF Questioned
<1> QED
  BY <1>3, <1>4, <1>5, <1>6, <1>7, <1>8, <1>9, <1>10, <1>11, <1>12, <1>13, <1>14, <1>15
     DEF Next, Engine

\* The number of the request that is open is that of one of the executions.
LEMMA RequestNumbered ==
    ASSUME Calls, Questioned, run.state = "Waiting"
    PROVE  run.request \in DOMAIN run.execs
<1>1. /\ IsFiniteSet(HumanAttempts) /\ Cardinality(HumanAttempts) \in Nat
      /\ Cardinality(HumanAttempts) <= Len(run.execs)
      /\ DOMAIN run.execs = 1..Len(run.execs) /\ Len(run.execs) \in Nat
  BY HumanAttemptsAreFinite DEF Calls, Kept, HumanAttempts, Attempts
<1>2. Len(run.execs) \in HumanAttempts
  BY <1>1 DEF Questioned, OfNode, HumanAttempts, Kept, Calls, Numbered
<1>3. Cardinality(HumanAttempts) # 0
  BY <1>1, <1>2, FS_EmptySet
<1> QED
  BY <1>1, <1>3 DEF Questioned

LEMMA HeadOfItems ==
    ASSUME NEW S, NEW s \in Seq(S), s # <<>>
    PROVE  /\ Head(s) \in S /\ Tail(s) \in Seq(S) /\ Len(s) \in Nat
           /\ s[1] = Head(s) /\ 1 \in DOMAIN s /\ Len(Tail(s)) = Len(s) - 1
           /\ \A i \in 1..(Len(s) - 1) : Tail(s)[i] = s[i + 1]
  OBVIOUS

LEMMA ItemAppended ==
    ASSUME NEW S, NEW s \in Seq(S), NEW e \in S
    PROVE  /\ Append(s, e) \in Seq(S) /\ Len(s) \in Nat /\ Len(Append(s, e)) = Len(s) + 1
           /\ Append(s, e)[Len(s) + 1] = e
           /\ DOMAIN s = 1..Len(s) /\ DOMAIN Append(s, e) = 1..(Len(s) + 1)
           /\ \A i \in 1..Len(s) : Append(s, e)[i] = s[i]
  OBVIOUS

LEMMA SubmittedIsNext == ASSUME Calls, Memory, Questioned, Submitted PROVE Next
<1>1. Head(queue) \in Items
  BY HeadOfItems DEF Submitted, Memory
<1>2. Head(queue).request \in DOMAIN run.execs /\ Head(queue).approved \in BOOLEAN
  BY <1>1, RequestNumbered DEF Submitted, Items
<1> QED
  BY <1>2 DEF Submitted, Next

LEMMA PreparedIsNext == ASSUME Memory, Attended, Prepared PROVE Next
<1>1. worker.item.kind \in {"run", "resume"}
  BY DEF Memory, Attended, Prepared, Items
<1> QED
  BY <1>1 DEF Prepared, Next

\* What the host does to a run leaves it alone or ends it, and never during a call's step.
LEMMA OwnEnds ==
    ASSUME Calls, Positions, Attended, Own
    PROVE  /\ run' = run \/ run'.state \in {"Paused", "Blocked", "Cancelled"}
           /\ call'.pc \notin Ends => call'.pc = call.pc /\ run' = run
           /\ run'.state = "Waiting" => run' = run
<1> DEFINE Goal == /\ run' = run \/ run'.state \in {"Paused", "Blocked", "Cancelled"}
                   /\ call'.pc \notin Ends => call'.pc = call.pc /\ run' = run
<1> USE DEF Calls, Kept
<1>0. "idle" \in Ends /\ (call.pc \notin Ends => run.state \in {"Created", "Running"})
  BY DEF Ends, Positions, Driving
<1>1. CASE \/ SaveProject \/ RequestRun \/ Skipped \/ Escaped \/ Returned \/ FileApproval
           \/ FileTicket
  BY <1>1 DEF SaveProject, RequestRun, Skipped, Escaped, Returned, FileApproval, FileTicket, vars
<1>2. CASE TakeRun \/ DecisionEscaped \/ Restart
  BY <1>0, <1>2, IdleIsIdle DEF TakeRun, DecisionEscaped, Restart
<1>3. CASE ShutDown
  BY <1>3 DEF ShutDown
<1>4. ASSUME NEW pause, StopExecuting(pause) PROVE Goal
  BY <1>4 DEF StopExecuting
<1>5. ASSUME NEW approved, RequestApproval(approved) PROVE Goal
  BY <1>5 DEF RequestApproval, vars
<1>6. ASSUME NEW cause, NotPrepared(cause) PROVE Goal
  BY <1>6 DEF NotPrepared, vars
<1>7. CASE RequestResume
  <2>1. run.state \in {"Paused", "Blocked"} /\ call' = call
    BY <1>7 DEF RequestResume, CanResume
  <2>2. run'.state = run.state
    BY <1>7 DEF RequestResume, Retested
  <2> QED
    BY <1>0, <2>1, <2>2
<1>8. CASE CancelStored
  <2>1. /\ call' = call
        /\ run' = run \/ (run.state \in {"Paused", "Blocked", "Waiting"} /\ run'.state = "Cancelled")
    BY <1>8 DEF CancelStored
  <2> QED
    BY <1>0, <2>1
<1>9. CASE CatchException
  <2>1. call'.pc = "idle"
    BY <1>9, IdleIsIdle DEF CatchException
  <2>2. CaughtState(worker.seen) \in {"Paused", "Blocked", "Cancelled"}
    BY DEF CaughtState
  <2>3. run' = run \/ run'.state = CaughtState(worker.seen)
    <3>1. CASE run = NoRun
      <4>1. run' = [NoRun EXCEPT !.state = CaughtState(worker.seen), !.node = def.entry,
                                 !.failure = worker.seen]
        <5>1. run.state # "Completed"
          BY <3>1 DEF NoRun
        <5> QED
          BY <1>9, <3>1, <5>1 DEF CatchException
      <4> QED
        BY ONLY <4>1 DEF NoRun
    <3>2. CASE run # NoRun
      BY <1>9, <3>2 DEF CatchException
    <3> QED
      BY <3>1, <3>2
  <2> QED
    BY <1>0, <2>1, <2>2, <2>3
<1>10. CASE DecisionReturned
  <2>1. call' = call /\ call.pc = "idle"
    BY <1>10 DEF DecisionReturned, At
  <2>2. run' = run \/ run'.state = "Blocked"
    BY <1>10 DEF DecisionReturned
  <2> QED
    BY <1>0, <2>1, <2>2
<1>11. CASE RecoverRun
  <2>1. call' = call /\ host.at = "runs" /\ (run' = run \/ run'.state = "Blocked")
    BY <1>11 DEF RecoverRun, RecoveryStep
  <2>2. call.pc = "idle"
    BY <2>1 DEF Attended
  <2> QED
    BY <1>0, <2>1, <2>2
<1>12. CASE RecoverApprovals \/ RecoverCheckpoints \/ RecoverTickets
  BY <1>12 DEF RecoverApprovals, RecoverCheckpoints, RecoverTickets, vars
<1>13. Goal
  BY <1>1, <1>2, <1>3, <1>4, <1>5, <1>6, <1>7, <1>8, <1>9, <1>10, <1>11, <1>12 DEF Own, Recover
<1> QED
  BY <1>13

LEMMA CallsOwn == ASSUME Calls, Own PROVE Calls'
<1>1. run'.request \in Nat
  BY OwnRun DEF Calls
<1> QED
  BY <1>1, OwnRun, OwnCall, CallsStay

LEMMA PositionsOwn == ASSUME Calls, Positions, Attended, Own PROVE Positions'
<1>1. CASE call' = Idle
  BY <1>1, IdleIsIdle DEF Positions, Ends, Driving
<1>2. CASE call' # Idle /\ call.pc \notin Ends
  <2>1. call'.pc = call.pc
    BY <1>2, OwnCall
  <2>2. run' = run
    BY <1>2, <2>1, OwnEnds
  <2> QED
    BY <2>1, <2>2 DEF Positions
<1>3. CASE call' # Idle /\ call.pc \in Ends
  <2>1. call'.pc = call.pc
    BY <1>3, OwnCall
  <2> QED
    BY <1>3, <2>1, OwnEnds DEF Positions, Ends, Driving
<1> QED
  BY <1>1, <1>2, <1>3

LEMMA QuestionedOwn == ASSUME Calls, Positions, Attended, Questioned, Own PROVE Questioned'
<1>1. ASSUME run' = run,
             call'.pc \in {"settled", "route", "approved"} => call'.pc = call.pc
      PROVE  Questioned'
  <2>1. HumanAttempts' = HumanAttempts
    BY <1>1 DEF HumanAttempts
  <2> QED
    BY <1>1, <2>1 DEF Questioned, OfNode, LastOutcome
<1>2. call'.pc \in {"settled", "route", "approved"} => call'.pc = call.pc /\ run' = run
  BY OwnEnds DEF Ends
<1>3. CASE run' = run
  BY <1>1, <1>2, <1>3
<1>4. CASE run' # run
  BY <1>2, <1>4, OwnEnds DEF Questioned
<1> QED
  BY <1>3, <1>4

\* What an action leaves of the tables has its shape.
LEMMA TablesNext == ASSUME Tables, UNCHANGED <<ticket, approvals, host>> PROVE Tables'
  BY DEF Tables

LEMMA ClosedEntries ==
    ASSUME approvals \in Seq(Entries), NEW status \in Statuses
    PROVE  /\ Closed(status) \in Seq(Entries) /\ DOMAIN Closed(status) = DOMAIN approvals
           /\ \A k \in DOMAIN approvals :
                 /\ Closed(status)[k].request = approvals[k].request
                 /\ Closed(status)[k].status =
                       IF approvals[k].status = "Waiting" THEN status ELSE approvals[k].status
<1>1. DOMAIN approvals = 1..Len(approvals) /\ Len(approvals) \in Nat
  OBVIOUS
<1>2. ASSUME NEW k \in DOMAIN approvals
      PROVE  /\ Closed(status)[k] \in Entries
             /\ Closed(status)[k].request = approvals[k].request
             /\ Closed(status)[k].status =
                   IF approvals[k].status = "Waiting" THEN status ELSE approvals[k].status
  <2>1. approvals[k] \in Entries
    BY <1>1
  <2> QED
    BY <2>1 DEF Closed, Entries, Statuses
<1>3. DOMAIN Closed(status) = DOMAIN approvals
  BY DEF Closed
<1>4. Closed(status) = [k \in 1..Len(approvals) |-> Closed(status)[k]]
  BY <1>1 DEF Closed
<1> QED
  BY <1>1, <1>2, <1>3, <1>4

LEMMA TablesOwn == ASSUME Tables, Memory, Calls, Own PROVE Tables'
<1> DEFINE OfTicket(t) == t = [f \in {"state", "profile", "born"} |-> t[f]] /\ t.born \in Nat
           OfHost(h) == h = [f \in {"at", "crashes"} |-> h[f]] /\ h.crashes \in Nat
<1>0. OfTicket(ticket) /\ OfHost(host) /\ approvals \in Seq(Entries)
  BY DEF Tables
<1>1. OfTicket(ticket')
  <2> USE DEF OfTicket
  <2>1. CASE RequestRun
    BY <1>0, <2>1 DEF RequestRun
  <2>2. CASE RequestResume
    <3>1. ticket' = [ticket EXCEPT !.state = "Queued", !.profile = profile]
      BY <2>2 DEF RequestResume
    <3> QED
      BY ONLY <1>0, <3>1
  <2>3. CASE FileTicket
    <3>1. PICK s, p : ticket' = [ticket EXCEPT !.state = s, !.profile = p]
      BY <2>3 DEF FileTicket
    <3> QED
      BY ONLY <1>0, <3>1
  <2>4. CASE CancelStored \/ TakeRun \/ CatchException \/ RecoverTickets
    <3>1. ticket' = ticket \/ \E s : ticket' = [ticket EXCEPT !.state = s]
      BY <2>4 DEF CancelStored, TakeRun, CatchException, RecoverTickets
    <3> QED
      BY ONLY <1>0, <3>1
  <2>5. CASE \/ SaveProject \/ Skipped \/ Escaped \/ Returned \/ FileApproval \/ DecisionReturned
             \/ DecisionEscaped \/ ShutDown \/ Restart
             \/ RecoverRun \/ RecoverApprovals \/ RecoverCheckpoints
    BY <1>0, <2>5 DEF SaveProject, Skipped, TakeDecision, Escaped, Returned, FileApproval,
       DecisionReturned, DecisionEscaped, ShutDown, Restart, RecoverRun, RecoverApprovals,
       RecoverCheckpoints
  <2>6. ASSUME NEW x, StopExecuting(x) \/ RequestApproval(x) \/ NotPrepared(x)
        PROVE  OfTicket(ticket')
    BY <1>0, <2>6 DEF StopExecuting, RequestApproval, NotPrepared, hostVars
  <2> HIDE DEF OfTicket
  <2> QED
    BY <2>1, <2>2, <2>3, <2>4, <2>5, <2>6 DEF Own, Recover
<1>2. OfHost(host')
  <2> USE DEF OfHost
  <2>1. CASE ShutDown \/ Recover
    <3>1. \E at : host' = [host EXCEPT !.at = at]
      BY <2>1 DEF ShutDown, Recover, RecoverRun, RecoverApprovals, RecoverCheckpoints,
                  RecoverTickets, RecoveryStep
    <3> QED
      BY ONLY <1>0, <3>1
  <2>2. CASE Restart
    <3>1. CASE host.at \in {"up", "stopping"}
      <4>1. host' = [at |-> "runs", crashes |-> host.crashes + 1]
        BY <2>2, <3>1 DEF Restart
      <4> QED
        BY ONLY <1>0, <4>1
    <3>2. CASE host.at \notin {"up", "stopping"}
      <4>1. host' = [host EXCEPT !.at = "runs"]
        BY <2>2, <3>2 DEF Restart
      <4> QED
        BY ONLY <1>0, <4>1
    <3> QED
      BY <3>1, <3>2
  <2>3. CASE \/ SaveProject \/ RequestRun \/ RequestResume \/ CancelStored \/ TakeRun \/ Skipped
             \/ Escaped \/ Returned \/ FileApproval \/ FileTicket \/ CatchException
             \/ DecisionReturned \/ DecisionEscaped
    BY <1>0, <2>3 DEF SaveProject, RequestRun, RequestResume, CancelStored, TakeRun, Skipped,
       TakeDecision, Escaped, Returned, FileApproval, FileTicket, CatchException,
       DecisionReturned, DecisionEscaped
  <2>4. ASSUME NEW x, StopExecuting(x) \/ RequestApproval(x) \/ NotPrepared(x)
        PROVE  OfHost(host')
    BY <1>0, <2>4 DEF StopExecuting, RequestApproval, NotPrepared, hostVars
  <2> HIDE DEF OfHost
  <2> QED
    BY <2>1, <2>2, <2>3, <2>4 DEF Own
<1>3. approvals' \in Seq(Entries)
  <2>1. CASE CancelStored \/ RecoverApprovals
    <3>1. approvals' \in {approvals, Closed("Cancelled"), Closed("Interrupted")}
      BY <2>1 DEF CancelStored, RecoverApprovals
    <3> QED
      BY <1>0, <3>1, ClosedEntries DEF Statuses
  <2>2. CASE FileApproval
    <3>1. worker.item.request \in Nat
      <4>1. worker.item \in Items
        BY <2>2 DEF FileApproval, Memory
      <4> QED
        BY <4>1 DEF Items
    <3>2. [request |-> worker.item.request, status |-> "Waiting"] \in Entries
      BY <3>1 DEF Entries, Statuses
    <3> QED
      BY <1>0, <2>2, <3>2 DEF FileApproval
  <2>3. CASE DecisionReturned
    <3>1. CASE LastWaiting = {}
      BY <1>0, <2>3, <3>1 DEF DecisionReturned
    <3>2. CASE LastWaiting # {}
      <4>1. PICK s \in {"Approved", "Rejected"} :
                approvals' = [k \in DOMAIN approvals |-> IF k \in LastWaiting
                                 THEN [approvals[k] EXCEPT !.status = s] ELSE approvals[k]]
        <5>1. approvals' = [k \in DOMAIN approvals |-> IF k \in LastWaiting
                  THEN [approvals[k] EXCEPT !.status =
                          IF worker.item.approved THEN "Approved" ELSE "Rejected"]
                  ELSE approvals[k]]
          BY <2>3, <3>2 DEF DecisionReturned
        <5>2. (IF worker.item.approved THEN "Approved" ELSE "Rejected") \in {"Approved", "Rejected"}
          OBVIOUS
        <5> QED
          BY <5>1, <5>2
      <4>2. ASSUME NEW k \in DOMAIN approvals PROVE [approvals[k] EXCEPT !.status = s] \in Entries
        <5>1. approvals[k] \in Entries /\ s \in Statuses
          BY <1>0, <4>1 DEF Statuses
        <5> QED
          BY ONLY <5>1 DEF Entries
      <4> QED
        BY <1>0, <4>1, <4>2
    <3> QED
      BY <3>1, <3>2
  <2>4. CASE \/ SaveProject \/ RequestRun \/ RequestResume \/ TakeRun \/ Skipped
             \/ Escaped \/ Returned \/ FileTicket \/ CatchException \/ DecisionEscaped
             \/ ShutDown \/ Restart \/ RecoverRun \/ RecoverCheckpoints \/ RecoverTickets
    BY <1>0, <2>4 DEF SaveProject, RequestRun, RequestResume, TakeRun, Skipped,
       TakeDecision, Escaped, Returned, FileTicket, CatchException, DecisionEscaped, ShutDown,
       Restart, RecoverRun, RecoverCheckpoints, RecoverTickets
  <2>5. ASSUME NEW x, StopExecuting(x) \/ RequestApproval(x) \/ NotPrepared(x)
        PROVE  approvals' \in Seq(Entries)
    BY <1>0, <2>5 DEF StopExecuting, RequestApproval, NotPrepared, hostVars
  <2> QED
    BY <2>1, <2>2, <2>3, <2>4, <2>5 DEF Own, Recover
<1> QED
  BY <1>1, <1>2, <1>3 DEF Tables

LEMMA RestingRests ==
    /\ Resting = [f \in {"pc", "item", "seen", "profile"} |-> Resting[f]]
    /\ Resting.pc = "idle" /\ Resting.item = RunItem("")
  BY DEF Resting

LEMMA MemoryOwn == ASSUME Memory, Calls, Own PROVE Memory'
<1> DEFINE OfWorker(w) == /\ w = [f \in {"pc", "item", "seen", "profile"} |-> w[f]]
                          /\ w.item \in Items \cup {RunItem("")}
                          /\ w.pc # "idle" => w.item \in Items
<1>0. OfWorker(worker) /\ queue \in Seq(Items)
  BY DEF Memory
<1>1. OfWorker(Resting)
  BY RestingRests
<1>2. OfWorker(worker')
  <2>1. CASE TakeRun
    <3>1. CASE ticket.state = "Queued"
      <4>1. worker' = [Resting EXCEPT !.pc = "preparing", !.item = Head(queue)]
        BY <2>1, <3>1 DEF TakeRun
      <4>2. Head(queue) \in Items
        BY <1>0, <2>1, HeadOfItems DEF TakeRun
      <4>3. /\ worker'.item = Head(queue)
            /\ worker' = [f \in {"pc", "item", "seen", "profile"} |-> worker'[f]]
        BY <4>1, RestingRests
      <4> QED
        BY <4>2, <4>3
    <3>2. CASE ticket.state # "Queued"
      BY <1>0, <2>1, <3>2 DEF TakeRun
    <3> QED
      BY <3>1, <3>2
  <2>2. CASE FileTicket \/ CatchException \/ DecisionReturned \/ DecisionEscaped \/ Restart
    BY <1>1, <2>2 DEF FileTicket, CatchException, DecisionReturned, DecisionEscaped, Restart
  <2>3. CASE Escaped \/ FileApproval
    <3>1. worker.pc # "idle" /\ \E p, s : worker' = [worker EXCEPT !.pc = p, !.seen = s]
                                       \/ worker' = [worker EXCEPT !.pc = p]
      BY <2>3 DEF Escaped, FileApproval
    <3> QED
      BY <1>0, <3>1
  <2>4. ASSUME NEW cause, NotPrepared(cause) PROVE OfWorker(worker')
    <3>1. worker.pc # "idle" /\ worker' = [worker EXCEPT !.pc = "catch", !.seen = cause]
      BY <2>4 DEF NotPrepared
    <3> QED
      BY <1>0, <3>1
  <2>5. CASE Returned
    <3>1. /\ worker.pc # "idle"
          /\ worker' = [worker EXCEPT !.pc = "file", !.seen = run.state,
                                      !.item.request = run.request]
      BY <2>5 DEF Returned
    <3>2. worker.item \in Items /\ run.request \in Nat
      BY <1>0, <3>1 DEF Calls
    <3>3. /\ worker'.item = [worker.item EXCEPT !.request = run.request]
          /\ worker' = [f \in {"pc", "item", "seen", "profile"} |-> worker'[f]]
      BY <1>0, <3>1
    <3>4. worker'.item \in Items
      BY <3>2, <3>3 DEF Items
    <3> QED
      BY <3>3, <3>4
  <2>6. CASE \/ SaveProject \/ RequestRun \/ RequestResume \/ CancelStored \/ Skipped \/ ShutDown
             \/ Recover
    BY <1>0, <2>6 DEF SaveProject, RequestRun, RequestResume, CancelStored, Skipped, ShutDown,
       Recover, RecoverRun, RecoverApprovals, RecoverCheckpoints, RecoverTickets
  <2>7. ASSUME NEW x, StopExecuting(x) \/ RequestApproval(x) PROVE OfWorker(worker')
    BY <1>0, <2>7 DEF StopExecuting, RequestApproval, hostVars
  <2> HIDE DEF OfWorker
  <2> QED
    BY <2>1, <2>2, <2>3, <2>4, <2>5, <2>6, <2>7 DEF Own
<1>3. queue' \in Seq(Items)
  <2>1. CASE RequestRun \/ RequestResume
    <3>1. RunItem("run") \in Items /\ RunItem("resume") \in Items
      BY DEF RunItem, Items
    <3>2. \/ queue' = Append(queue, RunItem("run"))
          \/ queue' = Append(queue, RunItem("resume"))
      BY <2>1 DEF RequestRun, RequestResume
    <3>3. ASSUME NEW e \in Items PROVE Append(queue, e) \in Seq(Items)
      BY <1>0, ItemAppended
    <3> QED
      BY ONLY <3>1, <3>2, <3>3
  <2>2. ASSUME NEW approved \in BOOLEAN, RequestApproval(approved) PROVE queue' \in Seq(Items)
    <3>1. Decision(run.request, approved) \in Items
      BY DEF Decision, Items, Calls
    <3>2. queue' = Append(queue, Decision(run.request, approved))
      BY <2>2 DEF RequestApproval
    <3> QED
      BY <1>0, <3>1, <3>2, ItemAppended
  <2>3. CASE TakeRun \/ Skipped
    BY <1>0, <2>3, HeadOfItems DEF TakeRun, Skipped, TakeDecision
  <2>4. CASE Restart
    BY <2>4 DEF Restart
  <2>5. CASE \/ SaveProject \/ CancelStored \/ Escaped \/ Returned \/ FileApproval \/ FileTicket
             \/ CatchException \/ DecisionReturned \/ DecisionEscaped \/ ShutDown \/ Recover
    BY <1>0, <2>5 DEF SaveProject, CancelStored, Escaped, Returned, FileApproval, FileTicket,
       CatchException, DecisionReturned, DecisionEscaped, ShutDown, Recover, RecoverRun,
       RecoverApprovals, RecoverCheckpoints, RecoverTickets
  <2>6. ASSUME NEW x, StopExecuting(x) \/ NotPrepared(x) PROVE queue' \in Seq(Items)
    BY <1>0, <2>6 DEF StopExecuting, NotPrepared, hostVars
  <2> QED
    BY <2>1, <2>2, <2>3, <2>4, <2>5, <2>6 DEF Own
<1> QED
  BY <1>2, <1>3 DEF Memory

LEMMA MemorySubmitted == ASSUME Memory, Submitted PROVE Memory'
<1>1. worker' = [Resting EXCEPT !.pc = "calling", !.item = Head(queue), !.profile = ticket.profile]
  BY DEF Submitted
<1>2. Head(queue) \in Items /\ queue' \in Seq(Items)
  BY HeadOfItems DEF Submitted, Memory
<1>3. /\ worker'.item = Head(queue)
      /\ worker' = [f \in {"pc", "item", "seen", "profile"} |-> worker'[f]]
  BY <1>1, RestingRests
<1> QED
  BY <1>2, <1>3 DEF Memory

LEMMA MemoryPrepared == ASSUME Memory, Prepared PROVE Memory'
<1>1. worker.pc # "idle" /\ worker' = [worker EXCEPT !.pc = "calling", !.profile = profile]
  BY DEF Prepared
<1>2. worker'.item = worker.item
  BY <1>1 DEF Memory
<1>3. worker' = [f \in {"pc", "item", "seen", "profile"} |-> worker'[f]]
  BY <1>1 DEF Memory
<1> QED
  BY <1>1, <1>2, <1>3 DEF Memory, Prepared

LEMMA AttendedOwn == ASSUME Shapes, Positions, Attended, Own PROVE Attended'
<1> DEFINE Up0 == host.at \in {"up", "stopping"}
           Pcs == {"idle", "preparing", "calling", "file", "ticket", "catch"}
<1> USE DEF Shapes, Tables, Memory
<1>1. ASSUME host' = host, worker' = worker, call'.pc \in {call.pc, "idle"},
             queue' = queue \/ Up0,
             run'.state \notin Active \cup {"Paused"} \/ run'.state = run.state \/ Up0
      PROVE  Attended'
  BY <1>1 DEF Attended
<1>2. ASSUME host' = host, Up0, worker'.pc \in Pcs,
             call'.pc # "idle" =>
                worker'.pc = "calling" \/ (worker'.pc = "catch" /\ call'.pc = "escaped"),
             worker'.pc \in {"preparing", "file", "ticket", "catch"} =>
                worker'.item.kind # "decision"
      PROVE  Attended'
  BY <1>2 DEF Attended
<1>3. CASE SaveProject \/ RequestRun \/ RequestResume \/ Skipped \/ CancelStored
  <2>1. Up0 /\ call' = call /\ worker' = worker /\ host' = host
    BY <1>3 DEF SaveProject, RequestRun, RequestResume, Skipped, TakeDecision, CancelStored, Up, vars
  <2> QED
    BY <1>1, <2>1
<1>4. ASSUME NEW x, StopExecuting(x) \/ RequestApproval(x) PROVE Attended'
  <2>1. Up0 /\ call'.pc = call.pc /\ worker' = worker /\ host' = host /\ run' = run
    BY <1>4 DEF StopExecuting, RequestApproval, Up, vars, hostVars, Calls, Kept
  <2> QED
    BY <1>1, <2>1
<1>5. CASE TakeRun
  <2>1. Up0 /\ call'.pc \in {call.pc, "idle"} /\ host' = host
    BY <1>5, IdleIsIdle DEF TakeRun, Up
  <2>2. CASE ticket.state = "Queued"
    <3>1. /\ worker' = [Resting EXCEPT !.pc = "preparing", !.item = Head(queue)]
          /\ Head(queue).kind # "decision" /\ call'.pc = "idle"
      BY <1>5, <2>2, IdleIsIdle DEF TakeRun
    <3>2. worker'.pc = "preparing" /\ worker'.item.kind # "decision"
      BY <3>1, RestingRests
    <3> QED
      BY <1>2, <2>1, <3>1, <3>2
  <2>3. CASE ticket.state # "Queued"
    <3>1. worker' = worker
      BY <1>5, <2>3 DEF TakeRun
    <3> QED
      BY <1>1, <2>1, <3>1
  <2> QED
    BY <2>2, <2>3
<1>6. CASE FileTicket \/ CatchException \/ DecisionReturned \/ DecisionEscaped
  <2>1. worker' = Resting /\ host' = host /\ worker.pc # "idle"
    BY <1>6 DEF FileTicket, CatchException, DecisionReturned, DecisionEscaped
  <2>2. call'.pc = "idle"
    BY <1>6, IdleIsIdle DEF FileTicket, CatchException, DecisionReturned, DecisionEscaped, At, vars,
                            Attended
  <2> QED
    BY <1>2, <2>1, <2>2, RestingRests DEF Attended
<1>7. CASE Escaped \/ Returned \/ FileApproval
  <2>1. /\ host' = host /\ worker.pc # "idle" /\ call' = call
        /\ worker'.pc \in {"catch", "file", "ticket"}
        /\ worker'.item.kind = worker.item.kind
    <3>1. CASE Escaped
      BY <3>1 DEF Escaped, vars
    <3>2. CASE Returned
      <4>1. /\ worker' = [worker EXCEPT !.pc = "file", !.seen = run.state,
                                        !.item.request = run.request]
            /\ worker.item \in Items
        BY <3>2 DEF Returned
      <4>2. worker'.item = [worker.item EXCEPT !.request = run.request] /\ worker'.pc = "file"
        BY <4>1
      <4>3. worker'.item.kind = worker.item.kind
        BY <4>1, <4>2 DEF Items
      <4> QED
        BY <3>2, <4>2, <4>3 DEF Returned, vars
    <3>3. CASE FileApproval
      BY <3>3 DEF FileApproval, vars
    <3> QED
      BY <1>7, <3>1, <3>2, <3>3
  <2>2. worker.item.kind # "decision"
    BY <1>7 DEF Escaped, Returned, FileApproval, Executing, Attended
  <2>3. Up0
    BY <2>1 DEF Attended
  <2>4. call'.pc # "idle" => worker'.pc = "catch" /\ call'.pc = "escaped"
    BY <1>7 DEF Escaped, Returned, FileApproval, At, vars, Attended
  <2> QED
    BY <1>2, <2>1, <2>2, <2>3, <2>4
<1>8. ASSUME NEW cause, NotPrepared(cause) PROVE Attended'
  <2>1. /\ worker.pc = "preparing" /\ host' = host /\ call' = call
        /\ worker' = [worker EXCEPT !.pc = "catch", !.seen = cause]
    BY <1>8 DEF NotPrepared, vars
  <2>2. worker'.pc = "catch" /\ worker'.item = worker.item
    BY <2>1
  <2> QED
    BY <1>2, <2>1, <2>2 DEF Attended
<1>9. CASE ShutDown
  <2>1. /\ host' = [host EXCEPT !.at = "stopping"] /\ Up0 /\ worker' = worker /\ call'.pc = call.pc
    BY <1>9 DEF ShutDown, Up, Calls, Kept
  <2>2. host'.at = "stopping"
    BY <2>1
  <2> QED
    BY <2>1, <2>2 DEF Attended
<1>10. CASE Restart
  <2>1. host'.at = "runs" /\ worker' = Resting /\ queue' = <<>> /\ call' = Idle
    <3>1. host'.at = "runs"
      <4>1. CASE host.at \in {"up", "stopping"}
        <5>1. host' = [at |-> "runs", crashes |-> host.crashes + 1]
          BY <1>10, <4>1 DEF Restart
        <5> QED
          BY ONLY <5>1
      <4>2. CASE host.at \notin {"up", "stopping"}
        BY <1>10, <4>2 DEF Restart
      <4> QED
        BY <4>1, <4>2
    <3> QED
      BY <1>10, <3>1 DEF Restart
  <2> QED
    BY <2>1, RestingRests, IdleIsIdle DEF Attended
<1>11. CASE Recover
  <2>1. /\ worker' = worker /\ queue' = queue /\ call' = call
        /\ host.at \in {"runs", "approvals", "checkpoints", "tickets"}
        /\ \E at \in {"approvals", "checkpoints", "tickets", "up"} : host' = [host EXCEPT !.at = at]
        /\ run'.state \notin Active \cup {"Paused"}
    <3>1. CASE RecoverRun
      <4>1. CASE run.state \in Active \cup {"Paused"}
        BY <3>1, <4>1 DEF RecoverRun, RecoveryStep, Active, Calls, Kept
      <4>2. CASE run.state \notin Active \cup {"Paused"}
        BY <3>1, <4>2 DEF RecoverRun, RecoveryStep
      <4> QED
        BY <4>1, <4>2
    <3>2. CASE RecoverApprovals \/ RecoverCheckpoints \/ RecoverTickets
      BY <3>2 DEF RecoverApprovals, RecoverCheckpoints, RecoverTickets, RecoveryStep, vars, Attended
    <3> QED
      BY <1>11, <3>1, <3>2 DEF Recover
  <2>2. host'.at \in {"approvals", "checkpoints", "tickets", "up"}
    BY <2>1
  <2> QED
    BY <2>1, <2>2 DEF Attended
<1> QED
  BY <1>3, <1>4, <1>5, <1>6, <1>7, <1>8, <1>9, <1>10, <1>11 DEF Own

LEMMA AttendedNext == ASSUME Shapes, Attended, Coordinate \/ Prepared \/ Submitted PROVE Attended'
<1>1. CASE Coordinate
  BY <1>1 DEF Coordinate, Attended
<1>2. CASE Prepared
  <2>1. worker.pc = "preparing" /\ worker' = [worker EXCEPT !.pc = "calling", !.profile = profile]
        /\ queue' = queue /\ host' = host
    BY <1>2 DEF Prepared
  <2>2. worker'.pc = "calling"
    BY <2>1 DEF Shapes, Memory
  <2> QED
    BY <2>1, <2>2 DEF Attended
<1>3. CASE Submitted
  <2>1. worker' = [Resting EXCEPT !.pc = "calling", !.item = Head(queue), !.profile = ticket.profile]
        /\ host' = host /\ host.at = "up"
    BY <1>3 DEF Submitted, Up
  <2>2. worker'.pc = "calling"
    BY <2>1, RestingRests
  <2> QED
    BY <2>1, <2>2 DEF Attended
<1> QED
  BY <1>1, <1>2, <1>3

\* The three kinds of step that are the coordinator's.
LEMMA Stepped ==
    ASSUME Base, HostNext
    PROVE  \/ Own
           \/ (Coordinate \/ Prepared \/ Submitted) /\ Next
  BY HostSteps, CoordinateIsNext, PreparedIsNext, SubmittedIsNext DEF Base, Shapes

LEMMA BaseInit == HostInit => Base
<1> SUFFICES ASSUME HostInit PROVE Base
  OBVIOUS
<1>1. Kept /\ run = NoRun /\ call = Idle
  BY RunInit DEF HostInit, Init, IInv
<1>2. run.request = 0 /\ run.state = "None" /\ call.pc = "idle"
  BY <1>1, IdleIsIdle DEF NoRun
<1>3. Tables
  <2>1. ticket = [state |-> "None", profile |-> 1, born |-> 0] /\ host = [at |-> "up", crashes |-> 0]
        /\ approvals = <<>>
    BY DEF HostInit
  <2> QED
    BY <2>1 DEF Tables
<1>4. Memory
  <2>1. worker = Resting /\ queue = <<>>
    BY DEF HostInit
  <2>2. <<>> \in Seq(Items)
    OBVIOUS
  <2>3. /\ worker.pc = "idle" /\ worker.item = RunItem("")
        /\ worker = [f \in {"pc", "item", "seen", "profile"} |-> worker[f]]
    BY <2>1, RestingRests
  <2> QED
    BY <2>1, <2>2, <2>3 DEF Memory
<1>5. Attended
  BY <1>2, RestingRests DEF Attended, HostInit
<1> QED
  BY <1>1, <1>2, <1>3, <1>4, <1>5 DEF Base, Shapes, Calls, Positions, Questioned, Ends, Driving

LEMMA BaseStep == ASSUME Base, [HostNext]_allVars PROVE Base'
<1> USE DEF Base, Shapes
<1>1. CASE UNCHANGED allVars
  <2>1. UNCHANGED <<def, run, life, call, ticket, approvals, queue, worker, host>>
    BY <1>1 DEF allVars, vars, hostVars
  <2>2. Calls' /\ Tables' /\ Memory' /\ Positions' /\ Attended'
    BY <2>1 DEF Calls, Kept, Numbered, Tables, Memory, Positions, Attended
  <2>3. Questioned'
    BY <2>1 DEF Questioned, OfNode, LastOutcome, HumanAttempts
  <2> QED
    BY <2>2, <2>3
<1>2. CASE Own
  BY <1>2, CallsOwn, PositionsOwn, QuestionedOwn, TablesOwn, MemoryOwn, AttendedOwn
<1>3. CASE (Coordinate \/ Prepared \/ Submitted) /\ Next
  <2>1. Calls' /\ Positions' /\ Questioned'
    BY <1>3, CallsNext, PositionsNext, QuestionedNext DEF Calls
  <2>2. Tables'
    BY <1>3, TablesNext DEF Coordinate, Prepared, Submitted
  <2>3. Memory'
    BY <1>3, MemoryPrepared, MemorySubmitted DEF Coordinate, Memory
  <2> QED
    BY <1>3, <2>1, <2>2, <2>3, AttendedNext
<1> QED
  BY <1>1, <1>2, <1>3, Stepped

(***************************************************************************)
(* A restart ends the runs that were requested before it.                  *)
(***************************************************************************)
Rested == worker.pc = "idle" /\ queue = <<>>

Aged ==
    /\ ticket.born <= host.crashes
    /\ host.at = "tickets" => ~supported
    /\ host.at \in {"up", "stopping"} /\ ticket.born # host.crashes =>
          Rested /\ ~supported /\ run.state \notin {"Created", "Running", "Waiting"}

LEMMA AgedNext == ASSUME Base, Aged, Coordinate \/ Prepared \/ Submitted PROVE Aged'
<1>1. worker.pc # "idle" \/ queue # <<>>
  BY DEF Coordinate, Prepared, Submitted
<1>2. ticket' = ticket /\ host' = host
  BY DEF Coordinate, Prepared, Submitted
<1>3. host.at \in {"up", "stopping"}
  BY <1>1 DEF Base, Attended
<1> QED
  BY <1>1, <1>2, <1>3 DEF Aged, Rested

LEMMA AgedOwn == ASSUME Base, Aged, Own PROVE Aged'
<1> USE DEF Base, Shapes, Tables
<1>1. ASSUME ticket'.born = ticket.born, host' = host, Rested => Rested', supported' => supported,
             run'.state = run.state \/ run'.state \in {"Paused", "Blocked", "Cancelled"}
      PROVE  Aged'
  BY <1>1 DEF Aged
<1>2. ASSUME worker.pc # "idle", ticket'.born = ticket.born, host' = host PROVE Aged'
  <2>1. host.at \in {"up", "stopping"} /\ ~Rested
    BY <1>2 DEF Attended, Rested
  <2> QED
    BY <1>2, <2>1 DEF Aged
<1>3. run'.state = run.state \/ run'.state \in {"Paused", "Blocked", "Cancelled"}
  BY OwnEnds
<1>4. CASE SaveProject \/ CancelStored
  <2>1. ticket'.born = ticket.born
    BY <1>4 DEF SaveProject, CancelStored
  <2> QED
    BY <1>1, <1>3, <1>4, <2>1 DEF SaveProject, CancelStored, Rested
<1>5. CASE RequestRun
  <2>1. ticket'.born = host.crashes /\ host' = host /\ host.at = "up"
    BY <1>5 DEF RequestRun, Up
  <2> QED
    BY <2>1 DEF Aged
<1>6. CASE RequestResume
  <2>1. /\ supported /\ host.at = "up" /\ host' = host
        /\ ticket' = [ticket EXCEPT !.state = "Queued", !.profile = profile]
    BY <1>6 DEF RequestResume, CanResume, Up
  <2>2. ticket'.born = ticket.born
    BY ONLY <2>1, Tables DEF Tables
  <2> QED
    BY <2>1, <2>2 DEF Aged
<1>7. ASSUME NEW x, StopExecuting(x) PROVE Aged'
  BY <1>2, <1>7 DEF StopExecuting, Executing, hostVars
<1>8. ASSUME NEW x, RequestApproval(x) PROVE Aged'
  <2>1. run.state = "Waiting" /\ host.at = "up" /\ ticket' = ticket /\ host' = host
    BY <1>8 DEF RequestApproval, Up
  <2> QED
    BY <2>1 DEF Aged
<1>9. CASE TakeRun \/ Skipped
  <2>1. queue # <<>> /\ host' = host /\ host.at = "up" /\ ticket'.born = ticket.born
    BY <1>9 DEF TakeRun, Skipped, TakeDecision, Up
  <2> QED
    BY <2>1 DEF Aged, Rested
<1>10. CASE Escaped \/ Returned \/ FileApproval \/ DecisionReturned \/ DecisionEscaped
  BY <1>2, <1>10 DEF Escaped, Returned, FileApproval, DecisionReturned, DecisionEscaped
<1>11. CASE FileTicket
  <2>1. PICK s, p : ticket' = [ticket EXCEPT !.state = s, !.profile = p]
    BY <1>11 DEF FileTicket
  <2>2. ticket'.born = ticket.born
    BY ONLY <2>1, Tables DEF Tables
  <2> QED
    BY <1>2, <1>11, <2>2 DEF FileTicket
<1>12. CASE CatchException
  <2>1. PICK s : ticket' = [ticket EXCEPT !.state = s]
    BY <1>12 DEF CatchException
  <2>2. ticket'.born = ticket.born
    BY ONLY <2>1, Tables DEF Tables
  <2> QED
    BY <1>2, <1>12, <2>2 DEF CatchException
<1>13. ASSUME NEW x, NotPrepared(x) PROVE Aged'
  BY <1>2, <1>13 DEF NotPrepared
<1>14. CASE ShutDown
  <2>1. /\ host' = [host EXCEPT !.at = "stopping"] /\ host.at = "up" /\ ticket' = ticket
        /\ supported' = supported /\ run' = run /\ worker' = worker /\ queue' = queue
    BY <1>14 DEF ShutDown, Up
  <2>2. host'.at = "stopping" /\ host'.crashes = host.crashes
    BY <2>1
  <2> QED
    BY <2>1, <2>2 DEF Aged, Rested
<1>15. CASE Restart
  <2>1. ticket' = ticket /\ host'.at = "runs" /\ host'.crashes \in {host.crashes, host.crashes + 1}
    <3>1. CASE host.at \in {"up", "stopping"}
      <4>1. host' = [at |-> "runs", crashes |-> host.crashes + 1]
        BY <1>15, <3>1 DEF Restart
      <4>2. host'.at = "runs" /\ host'.crashes = host.crashes + 1
        BY ONLY <4>1
      <4> QED
        BY <1>15, <4>2 DEF Restart
    <3>2. CASE host.at \notin {"up", "stopping"}
      BY <1>15, <3>2 DEF Restart
    <3> QED
      BY <3>1, <3>2
  <2> QED
    BY <2>1 DEF Aged
<1>16. CASE Recover
  <2>1. CASE RecoverRun \/ RecoverApprovals
    <3>1. /\ ticket' = ticket
          /\ \E at \in {"approvals", "checkpoints"} : host' = [host EXCEPT !.at = at]
      BY <2>1 DEF RecoverRun, RecoverApprovals, RecoveryStep
    <3>2. host'.at \in {"approvals", "checkpoints"} /\ host'.crashes = host.crashes
      BY <3>1
    <3> QED
      BY <3>1, <3>2 DEF Aged
  <2>2. CASE RecoverCheckpoints
    <3>1. ticket' = ticket /\ host' = [host EXCEPT !.at = "tickets"] /\ ~supported'
      BY <2>2 DEF RecoverCheckpoints, RecoveryStep
    <3>2. host'.at = "tickets" /\ host'.crashes = host.crashes
      BY <3>1
    <3> QED
      BY <3>1, <3>2 DEF Aged
  <2>3. CASE RecoverTickets
    <3>1. /\ host' = [host EXCEPT !.at = "up"] /\ host.at = "tickets" /\ run' = run
          /\ worker' = worker /\ queue' = queue /\ supported' = supported
          /\ ticket'.born = ticket.born
      BY <2>3 DEF RecoverTickets, RecoveryStep, vars
    <3>2. host'.at = "up" /\ host'.crashes = host.crashes
      BY <3>1
    <3>3. Rested /\ ~supported /\ run.state \notin {"Created", "Running", "Waiting"}
      BY <3>1 DEF Attended, Aged, Rested, Active
    <3> QED
      BY <3>1, <3>2, <3>3 DEF Aged, Rested
  <2> QED
    BY <1>16, <2>1, <2>2, <2>3 DEF Recover
<1> QED
  BY <1>4, <1>5, <1>6, <1>7, <1>8, <1>9, <1>10, <1>11, <1>12, <1>13, <1>14, <1>15, <1>16 DEF Own

\* However often the host stops, crashes or dies while it recovers: a run begins to execute
\* only if it was requested since the last restart (RecoverInterruptedAsync).
THEOREM RestartsEndRuns == HostSpec => RestartEndsRuns
<1>1. HostInit => Base /\ Aged
  <2> SUFFICES ASSUME HostInit PROVE Aged
    BY BaseInit
  <2> QED
    BY DEF HostInit, Aged
<1>2. Base /\ Aged /\ [HostNext]_allVars => (Base /\ Aged)'
  <2> SUFFICES ASSUME Base, Aged, [HostNext]_allVars PROVE Aged'
    BY BaseStep
  <2>1. CASE UNCHANGED allVars
    BY <2>1 DEF Aged, Rested, allVars, vars, hostVars
  <2> QED
    BY <2>1, Stepped, AgedNext, AgedOwn
<1>3. Base /\ Aged /\ [HostNext]_allVars =>
          (run.state # "Running" /\ run'.state = "Running" => ticket.born = host.crashes)
  <2> SUFFICES ASSUME Base, Aged, [HostNext]_allVars, run.state # "Running", run'.state = "Running"
               PROVE  ticket.born = host.crashes
    OBVIOUS
  <2>1. run' # run
    OBVIOUS
  <2>2. HostNext
    BY <2>1 DEF allVars, vars
  <2>3. ~Own
    BY <2>1, OwnEnds DEF Base, Shapes
  <2>4. Coordinate \/ Prepared \/ Submitted
    BY <2>2, <2>3, Stepped
  <2>5. ~Rested
    BY <2>4 DEF Coordinate, Prepared, Submitted, Rested
  <2>6. host.at \in {"up", "stopping"}
    BY <2>5 DEF Base, Attended, Rested
  <2> QED
    BY <2>5, <2>6 DEF Aged
<1> QED
  BY <1>1, <1>2, <1>3, PTL DEF HostSpec, RestartEndsRuns

(***************************************************************************)
(* What the coordinator's steps do to the run, as the host needs it.       *)
(***************************************************************************)
LEMMA NextIsKnown ==
    ASSUME Kept, Positions, Next
    PROVE  /\ def' = def
           /\ run' = run \/ run'.state # "None"
<1> USE DEF Goto, At, Live
<1>1. CASE Start \/ Started \/ Resume \/ Launch \/ Execute \/ Settle \/ SettleRefused
  BY <1>1 DEF Start, Started, Resume, Launch, Execute, Settle, SettleRefused, NoRun, Kept
<1>2. CASE Wait \/ Retry \/ ReworkNotAllowed \/ ReworkBudgetExhausted \/ CompleteRun
           \/ AdvanceRefused \/ NextDispatch \/ Return \/ StoppedEarly \/ CatchError \/ CaughtReturn
           \/ EngineStops \/ Fault \/ Cancelled \/ Escape \/ HostStops \/ Terminated
  BY <1>2 DEF Wait, Retry, ReworkNotAllowed, ReworkBudgetExhausted, CompleteRun, AdvanceRefused,
              NextDispatch, Return, StoppedEarly, CatchError, CaughtReturn, EngineStops, Fault,
              Cancelled, Escape, HostStops, Terminated, vars, Kept
<1>3. CASE NodeFails
  BY <1>3, Ended DEF NodeFails, Kept
<1>4. CASE Rework \/ AdvanceNode
  <2>1. call.pc \in {"route", "approved"} /\ run'.state = run.state /\ def' = def
    BY <1>4 DEF Rework, AdvanceNode, Advancing, Routing, Kept
  <2> QED
    BY <2>1 DEF Positions, Driving
<1>5. CASE HandlerReturns \/ NodeTimeout \/ NodeStopped
  <2>1. PICK outcome : Record(outcome)
    BY <1>5 DEF HandlerReturns, NodeTimeout, NodeStopped
  <2>2. call.pc = "executing" /\ run'.state = run.state /\ def' = def
    BY <2>1 DEF Record, Append1, Kept
  <2> QED
    BY <2>2 DEF Positions, Driving
<1>6. CASE CatchStop
  <2>1. CASE Settled(run)
    BY <1>6, <2>1 DEF CatchStop
  <2>2. CASE ~Settled(run)
    <3> DEFINE r == IF run.node = "" THEN run
                    ELSE Append1(run, run.node, IF call.pause THEN "Interrupted" ELSE "Cancelled")
    <3>1. /\ run' = [r EXCEPT !.state = IF call.pause THEN "Paused" ELSE "Cancelled",
                             !.failure = IF call.pause THEN "STOPPED" ELSE "CANCELLED",
                             !.request = 0]
          /\ def' = def
      BY <1>6, <2>2 DEF CatchStop
    <3>2. "state" \in DOMAIN r
      BY DEF Append1, Kept
    <3> HIDE DEF r
    <3> QED
      BY <3>1, <3>2
  <2> QED
    BY <2>1, <2>2
<1>7. ASSUME NEW x, NEW y, SubmitHuman(x, y) \/ RequestStop(x)
      PROVE  def' = def /\ (run' = run \/ run'.state # "None")
  BY <1>7 DEF SubmitHuman, RequestStop, Kept
<1> QED
  BY <1>1, <1>2, <1>3, <1>4, <1>5, <1>6, <1>7 DEF Next, Engine

\* A call that is at its end goes on to return, to throw or to catch.
LEMMA EndsFollow ==
    ASSUME Kept, Coordinate, call.pc \in Ends
    PROVE  \/ run' = run /\ call'.pc \in {"threw", "idle", "escaped"}
              /\ (call'.pc = "threw" => call.pc = "ending")
              /\ (call'.pc = "idle" => run.state # "Running" \/ call.pc = "caught")
           \/ /\ call.pc = "threw" /\ call'.pc = "caught"
              /\ run'.state \in {"Paused", "Cancelled", "Failed"}
              /\ Settled(run) => run'.state = "Failed"
<1> USE DEF At, Goto, Live
<1>1. ~(\/ Started \/ Launch \/ Execute \/ NodeTimeout \/ NodeStopped \/ Settle \/ SettleRefused
        \/ NextDispatch \/ HandlerReturns \/ EngineStops)
  BY DEF Started, Launch, Execute, NodeTimeout, NodeStopped, Settle, SettleRefused, NextDispatch,
         HandlerReturns, EngineStops, Record, Ends
<1>2. ~(\/ Wait \/ Retry \/ NodeFails \/ ReworkNotAllowed \/ ReworkBudgetExhausted \/ Rework
        \/ AdvanceNode \/ CompleteRun \/ AdvanceRefused)
  BY DEF Wait, Retry, NodeFails, ReworkNotAllowed, ReworkBudgetExhausted, Rework, AdvanceNode,
         CompleteRun, AdvanceRefused, Advancing, Routing, Ends
<1>3. Return \/ StoppedEarly \/ CatchStop \/ CatchError \/ CaughtReturn \/ Fault \/ Cancelled \/ Escape
  BY <1>1, <1>2 DEF Coordinate, Engine
<1>4. CASE Return \/ CaughtReturn
  BY <1>4, IdleIsIdle DEF Return, CaughtReturn
<1>5. CASE StoppedEarly \/ Fault \/ Cancelled
  BY <1>5 DEF StoppedEarly, Fault, Cancelled, InDrive, Ends, Kept
<1>6. CASE Escape
  BY <1>6 DEF Escape, Kept
<1>7. CASE CatchError
  BY <1>7 DEF CatchError, Kept
<1>8. CASE CatchStop /\ Settled(run)
  BY <1>8, IdleIsIdle DEF CatchStop, Settled
<1>9. CASE CatchStop /\ ~Settled(run)
  <2> DEFINE r == IF run.node = "" THEN run
                  ELSE Append1(run, run.node, IF call.pause THEN "Interrupted" ELSE "Cancelled")
  <2>1. /\ run' = [r EXCEPT !.state = IF call.pause THEN "Paused" ELSE "Cancelled",
                           !.failure = IF call.pause THEN "STOPPED" ELSE "CANCELLED",
                           !.request = 0]
        /\ call'.pc = "caught" /\ call.pc = "threw"
    BY <1>9 DEF CatchStop, Kept
  <2>2. "state" \in DOMAIN r
    BY DEF Append1, Kept
  <2> HIDE DEF r
  <2>3. run'.state \in {"Paused", "Cancelled"}
    BY <2>1, <2>2
  <2> QED
    BY <1>9, <2>1, <2>3
<1> QED
  BY <1>3, <1>4, <1>5, <1>6, <1>7, <1>8, <1>9

\* The workflows are like those of the catalogs.
Catalogued == \A f \in Flows : InOrder(f) /\ TestsLead(f)

Known ==
    /\ run.node \in def.nodes \cup {""}
    /\ run.state = "None" => run = NoRun
    /\ ticket.state = "None" => run = NoRun /\ Rested

LEMMA NoRunIs == NoRun.state = "None" /\ NoRun.node = "" /\ NoRun.execs = <<>>
  BY DEF NoRun

LEMMA NodeNext ==
    ASSUME Kept, def \in Flows, run.node \in def.nodes \cup {""}, Next
    PROVE  run'.node \in def.nodes \cup {""}
<1> USE DEF Kept
<1>0. Valid(def)
  BY FlowsAreValid
<1>1. CASE Start
  <2>1. run'.node = def.entry
    BY <1>1 DEF Start, NoRun
  <2> QED
    BY <1>0, <2>1 DEF Valid
<1>2. CASE Rework
  BY <1>0, <1>2 DEF Rework, Valid
<1>3. CASE AdvanceNode
  <2> DEFINE r == CHOOSE r \in def.routes : r.from = run.node /\ r.outcome = "Succeeded"
  <2>1. r \in def.routes
    BY <1>3 DEF AdvanceNode, HasNext
  <2>2. run'.node = r.target /\ r.target # Complete
    BY <1>3 DEF AdvanceNode, NextNode
  <2> HIDE DEF r
  <2> QED
    BY <1>0, <2>1, <2>2 DEF Valid
<1>4. CASE Started \/ Resume \/ Launch \/ Execute \/ Settle \/ SettleRefused \/ Wait \/ Retry
           \/ NodeFails \/ ReworkNotAllowed \/ ReworkBudgetExhausted \/ CompleteRun
           \/ AdvanceRefused \/ NextDispatch \/ Return \/ StoppedEarly \/ CatchError \/ CaughtReturn
           \/ EngineStops \/ Fault \/ Cancelled \/ Escape \/ HostStops \/ Terminated
  BY <1>4 DEF Started, Resume, Launch, Execute, Settle, SettleRefused, Wait, Retry, NodeFails,
     ReworkNotAllowed, ReworkBudgetExhausted, CompleteRun, AdvanceRefused, NextDispatch, Return,
     StoppedEarly, CatchError, CaughtReturn, EngineStops, Fault, Cancelled, Escape, HostStops,
     Terminated, vars
<1>5. CASE HandlerReturns \/ NodeTimeout \/ NodeStopped
  <2>1. PICK outcome : Record(outcome)
    BY <1>5 DEF HandlerReturns, NodeTimeout, NodeStopped
  <2> QED
    BY <2>1 DEF Record, Append1
<1>6. CASE CatchStop
  <2>1. CASE Settled(run)
    BY <1>6, <2>1 DEF CatchStop
  <2>2. CASE ~Settled(run)
    <3> DEFINE r == IF run.node = "" THEN run
                    ELSE Append1(run, run.node, IF call.pause THEN "Interrupted" ELSE "Cancelled")
    <3>1. /\ run' = [r EXCEPT !.state = IF call.pause THEN "Paused" ELSE "Cancelled",
                             !.failure = IF call.pause THEN "STOPPED" ELSE "CANCELLED",
                             !.request = 0]
      BY <1>6, <2>2 DEF CatchStop
    <3>2. "node" \in DOMAIN r /\ r.node = run.node
      BY DEF Append1
    <3> HIDE DEF r
    <3> QED
      BY <3>1, <3>2
  <2> QED
    BY <2>1, <2>2
<1>7. ASSUME NEW x, NEW y, SubmitHuman(x, y) \/ RequestStop(x)
      PROVE  run'.node \in def.nodes \cup {""}
  BY <1>7 DEF SubmitHuman, RequestStop
<1> QED
  BY <1>1, <1>2, <1>3, <1>4, <1>5, <1>6, <1>7 DEF Next, Engine

\* What the host's own steps do to the node of the run.
LEMMA OwnNode ==
    ASSUME Calls, Own
    PROVE  \/ run'.node = run.node
           \/ RequestResume /\ run' = [run EXCEPT !.node = "test"]
              /\ ticket.profile # profile /\ run.node \in {"review", "human", "deliver"}
           \/ CatchException /\ run = NoRun /\ run'.node = def.entry
<1> USE DEF Calls, Kept
<1>1. CASE \/ SaveProject \/ RequestRun \/ TakeRun \/ Skipped \/ Escaped \/ Returned \/ FileApproval
           \/ FileTicket \/ DecisionEscaped \/ ShutDown \/ Restart
  BY <1>1 DEF SaveProject, RequestRun, TakeRun, Skipped, Escaped, Returned, FileApproval,
              FileTicket, DecisionEscaped, ShutDown, Restart, vars
<1>2. ASSUME NEW x, StopExecuting(x) \/ RequestApproval(x) \/ NotPrepared(x) PROVE run' = run
  BY <1>2 DEF StopExecuting, RequestApproval, NotPrepared, vars
<1>3. CASE RequestResume
  <2>1. run' = Retested
    BY <1>3 DEF RequestResume
  <2> QED
    BY <1>3, <2>1 DEF Retested
<1>4. CASE CancelStored \/ DecisionReturned
  BY <1>4 DEF CancelStored, DecisionReturned
<1>5. CASE CatchException
  <2>1. CASE run = NoRun
    <3>1. run.state # "Completed"
      BY <2>1 DEF NoRun
    <3>2. run' = [NoRun EXCEPT !.state = CaughtState(worker.seen), !.node = def.entry,
                               !.failure = worker.seen]
      BY <1>5, <2>1, <3>1 DEF CatchException
    <3>3. run'.node = def.entry
      BY ONLY <3>2 DEF NoRun
    <3> QED
      BY <1>5, <2>1, <3>3
  <2>2. CASE run # NoRun
    BY <1>5, <2>2 DEF CatchException
  <2> QED
    BY <2>1, <2>2
<1>6. CASE Recover
  BY <1>6 DEF Recover, RecoverRun, RecoverApprovals, RecoverCheckpoints, RecoverTickets, vars
<1> QED
  BY <1>1, <1>2, <1>3, <1>4, <1>5, <1>6 DEF Own

\* Which of them change the ticket, and how.
LEMMA OwnTicket ==
    ASSUME Tables, Own
    PROVE  \/ ticket' = ticket
           \/ RequestRun \/ RequestResume
           \/ CancelStored /\ ticket' = [ticket EXCEPT !.state = "Cancelled"]
           \/ TakeRun /\ ticket.state = "Queued" /\ ticket' = [ticket EXCEPT !.state = "Running"]
           \/ FileTicket \/ CatchException
           \/ RecoverTickets /\ ticket' = [ticket EXCEPT !.state = "Interrupted"]
<1>1. CASE CancelStored \/ TakeRun \/ RecoverTickets
  BY <1>1 DEF CancelStored, TakeRun, RecoverTickets
<1>2. CASE \/ SaveProject \/ Skipped \/ Escaped \/ Returned \/ FileApproval \/ DecisionReturned
           \/ DecisionEscaped \/ ShutDown \/ Restart
           \/ RecoverRun \/ RecoverApprovals \/ RecoverCheckpoints
  BY <1>2 DEF SaveProject, Skipped, TakeDecision, Escaped, Returned, FileApproval, DecisionReturned,
     DecisionEscaped, ShutDown, Restart, RecoverRun, RecoverApprovals, RecoverCheckpoints
<1>3. ASSUME NEW x, StopExecuting(x) \/ RequestApproval(x) \/ NotPrepared(x) PROVE ticket' = ticket
  BY <1>3 DEF StopExecuting, RequestApproval, NotPrepared, hostVars
<1> QED
  BY <1>1, <1>2, <1>3 DEF Own, Recover

LEMMA TicketStates ==
    ASSUME Tables, Own
    PROVE  /\ RequestRun \/ RequestResume =>
                  ticket'.state = "Queued" /\ ticket'.profile = profile
           /\ FileTicket \/ CatchException => ticket'.state \in {"Cancelled", "Finished"}
           /\ FileTicket => ticket'.profile = worker.profile
           /\ CatchException => ticket'.profile = ticket.profile
           /\ ticket' # ticket => ticket'.state # "None"
<1>1. RequestRun => ticket'.state = "Queued" /\ ticket'.profile = profile
  BY DEF RequestRun
<1>2. RequestResume => ticket'.state = "Queued" /\ ticket'.profile = profile
  BY DEF RequestResume, Tables
<1>3. FileTicket => ticket'.state \in {"Cancelled", "Finished"} /\ ticket'.profile = worker.profile
  <2> SUFFICES ASSUME FileTicket
               PROVE  ticket'.state \in {"Cancelled", "Finished"} /\ ticket'.profile = worker.profile
    OBVIOUS
  <2>1. PICK s \in {"Cancelled", "Finished"} :
            ticket' = [ticket EXCEPT !.state = s, !.profile = worker.profile]
    BY DEF FileTicket
  <2> QED
    BY <2>1 DEF Tables
<1>4. CatchException => /\ ticket'.state \in {"Cancelled", "Finished"}
                        /\ ticket'.profile = ticket.profile
  <2> SUFFICES ASSUME CatchException
               PROVE  /\ ticket'.state \in {"Cancelled", "Finished"}
                      /\ ticket'.profile = ticket.profile
    OBVIOUS
  <2>1. PICK s \in {"Cancelled", "Finished"} : ticket' = [ticket EXCEPT !.state = s]
    BY DEF CatchException
  <2> QED
    BY <2>1 DEF Tables
<1>5. ticket' # ticket => ticket'.state # "None"
  <2>1. CASE RequestRun \/ RequestResume \/ FileTicket \/ CatchException
    BY <1>1, <1>2, <1>3, <1>4, <2>1
  <2>2. ASSUME NEW s, ticket' = [ticket EXCEPT !.state = s], s # "None"
        PROVE  ticket'.state # "None"
    BY <2>2 DEF Tables
  <2> QED
    BY <2>1, <2>2, OwnTicket
<1> QED
  BY <1>1, <1>2, <1>3, <1>4, <1>5

LEMMA KnownNext ==
    ASSUME Base, def \in Flows, Known, (Coordinate \/ Prepared \/ Submitted) /\ Next
    PROVE  Known'
<1>1. Kept /\ Positions
  BY DEF Base, Shapes, Calls
<1>2. run'.node \in def'.nodes \cup {""}
  BY <1>1, NodeNext, NextIsKnown DEF Known
<1>3. run'.state = "None" => run' = NoRun
  BY <1>1, NextIsKnown DEF Known
<1>4. ticket'.state # "None"
  <2>1. worker.pc # "idle" \/ queue # <<>>
    BY DEF Coordinate, Prepared, Submitted
  <2>2. ticket' = ticket
    BY DEF Coordinate, Prepared, Submitted
  <2> QED
    BY <2>1, <2>2 DEF Known, Rested
<1> QED
  BY <1>2, <1>3, <1>4 DEF Known

LEMMA TestIsKnown ==
    ASSUME def \in Flows, Catalogued
    PROVE  "test" \in def.nodes /\ def.entry \in def.nodes
<1>1. Valid(def) /\ TestsLead(def)
  BY FlowsAreValid DEF Catalogued
<1>2. PICK t \in DOMAIN def.required : def.required[t] = "test"
  BY <1>1 DEF TestsLead
<1>3. def.required \in Seq(def.nodes)
  BY <1>1 DEF Valid
<1> QED
  BY <1>1, <1>2, <1>3 DEF Valid

LEMMA KnownOwn == ASSUME Base, def \in Flows, Known, Catalogued, Own PROVE Known'
<1>0. Calls /\ Tables /\ def' = def
  BY OwnRun DEF Base, Shapes
<1>1. run'.node \in def'.nodes \cup {""}
  BY <1>0, OwnNode, TestIsKnown DEF Known, Calls, Kept
<1>2. run'.state = "None" => run' = NoRun
  BY <1>0, OwnEnds DEF Known, Base
<1>3. ASSUME ticket'.state = "None" PROVE run' = NoRun /\ Rested'
  <2>1. ticket' = ticket /\ ticket.state = "None"
    BY <1>0, <1>3, TicketStates
  <2>2. run = NoRun /\ worker.pc = "idle" /\ queue = <<>> /\ run.state = "None"
    BY <2>1, NoRunIs DEF Known, Rested
  <2>3. ~(RequestRun \/ RequestResume \/ CancelStored)
    BY <1>0, <2>1, <2>2, TicketStates DEF RequestRun, CanResume, RequestResume, CancelStored
  <2>4. ~(\/ TakeRun \/ Skipped \/ Escaped \/ Returned \/ FileApproval \/ FileTicket
          \/ CatchException \/ DecisionReturned \/ DecisionEscaped)
    BY <2>2 DEF TakeRun, Skipped, TakeDecision, Escaped, Returned, FileApproval, FileTicket,
       CatchException, DecisionReturned, DecisionEscaped
  <2>5. \A x : ~(StopExecuting(x) \/ RequestApproval(x) \/ NotPrepared(x))
    BY <2>2 DEF StopExecuting, RequestApproval, NotPrepared, Executing
  <2>6. SaveProject \/ ShutDown \/ Restart \/ Recover
    BY <2>3, <2>4, <2>5 DEF Own
  <2>7. CASE SaveProject \/ ShutDown
    BY <2>2, <2>7 DEF SaveProject, ShutDown, vars, Rested
  <2>8. CASE Restart
    BY <2>2, <2>8, RestingRests DEF Restart, Rested
  <2>9. CASE Recover
    BY <2>2, <2>9 DEF Recover, RecoverRun, RecoverApprovals, RecoverCheckpoints, RecoverTickets,
       vars, Rested, Active
  <2> QED
    BY <2>6, <2>7, <2>8, <2>9
<1> QED
  BY <1>1, <1>2, <1>3 DEF Known

(***************************************************************************)
(* The evidence of CoordinatorProofs, with the host around the calls.      *)
(***************************************************************************)
LEMMA ClearOwn == ASSUME Base, Clear, Own PROVE Clear'
<1>1. call'.pc \in {"created", "approved", "launch", "between", "dispatch"} =>
          call'.pc = call.pc /\ run' = run
  BY OwnEnds DEF Base, Shapes, Ends
<1> QED
  BY <1>1 DEF Clear, Unclear, LastOutcome

\* The test steps before the others of its kind.
LEMMA TestStands ==
    ASSUME def \in Flows, Catalogued
    PROVE  \E t \in 1..Len(def.required) :
               /\ def.required[t] = "test"
               /\ \A i \in 1..Len(def.required) : i > t => def.required[i] \in {"review", "human", "deliver"}
               /\ \A node \in def.nodes \cap {"review", "human", "deliver"} :
                      \E i \in 1..Len(def.required) : i > t /\ node = def.required[i]
<1>1. Valid(def) /\ TestsLead(def)
  BY FlowsAreValid DEF Catalogued
<1>2. DOMAIN def.required = 1..Len(def.required) /\ Len(def.required) \in Nat
  BY <1>1 DEF Valid
<1>3. PICK t \in DOMAIN def.required :
          /\ def.required[t] = "test"
          /\ def.nodes \cap {"review", "human", "deliver"} =
                {def.required[i] : i \in (t + 1)..Len(def.required)}
  BY <1>1 DEF TestsLead
<1>4. \A i \in 1..Len(def.required) : i > t => i \in (t + 1)..Len(def.required)
  BY <1>2
<1>5. \A i \in (t + 1)..Len(def.required) : i \in 1..Len(def.required) /\ i > t
  BY <1>2
<1> QED
  BY <1>2, <1>3, <1>4, <1>5

LEMMA EvidenceOwn == ASSUME Base, Evidenced, Known, Catalogued, Own PROVE Evidenced'
<1>0. /\ Calls /\ Positions /\ Attended /\ \A f \in Flows : InOrder(f)
      /\ def' = def /\ run'.execs = run.execs
  BY OwnRun DEF Base, Shapes, Catalogued
<1>1. \A k : Evident(run, k) => Evident(run, k)'
  BY <1>0 DEF Evident, IsLast
<1>2. run'.state \in {"Waiting", "Completed"} => run' = run /\ call'.pc \in Ends
  BY <1>0, OwnEnds DEF Evidenced
<1>3. call'.pc \in {"settled", "route", "approved"} => call'.pc = call.pc /\ run' = run
  BY <1>0, OwnEnds DEF Ends
<1>4. CASE run'.node = run.node
  <2>1. Undisturbed
    BY <1>0, <1>2, <1>3, <1>4 DEF Undisturbed
  <2> QED
    BY <2>1, EvidenceUndisturbed
<1>5. CASE run'.node # run.node
  <2>1. run'.state \notin {"Waiting", "Completed"}
        /\ call'.pc \notin {"settled", "route", "approved"}
    BY <1>2, <1>3, <1>5
  <2>2. ASSUME NEW k \in DOMAIN def.required, run'.node = def.required[k]
        PROVE  Evident(run, k - 1)'
    <3>1. k \in 1..Len(def.required) /\ k \in Nat /\ Len(def.required) \in Nat
      BY <1>0, RequiredStands
    <3>2. CASE run'.node = "test" /\ run.node \in {"review", "human", "deliver"}
      <4>1. run.node \in def.nodes
        BY <3>2 DEF Known
      <4>2. PICK t \in 1..Len(def.required) :
                /\ def.required[t] = "test"
                /\ \E i \in 1..Len(def.required) : i > t /\ run.node = def.required[i]
        BY <3>2, <4>1, TestStands DEF Evidenced
      <4>3. PICK i \in 1..Len(def.required) : i > t /\ run.node = def.required[i]
        BY <4>2
      <4>4. k = t
        BY <1>0, <2>2, <3>1, <3>2, <4>2, RequiredStands
      <4>5. Evident(run, i - 1)
        BY <1>0, <4>3, RequiredStands DEF Evidenced
      <4>6. k - 1 \in Int /\ i - 1 \in Nat /\ k - 1 <= i - 1
        BY <3>1, <4>3, <4>4
      <4>7. Evident(run, k - 1)
        BY <4>5, <4>6, EvidentBefore
      <4> QED
        BY <1>1, <4>7
    <3>3. CASE run'.node = def.entry
      <4>1. def.entry = def.required[1] /\ 1 \in 1..Len(def.required)
        <5>1. InOrder(def) /\ Len(def.required) \in Nat \ {0}
          BY <1>0, RequiredStands
        <5>2. def.entry = def.required[1]
          BY ONLY <5>1 DEF InOrder
        <5> QED
          BY <5>1, <5>2
      <4>2. k = 1
        BY <1>0, <2>2, <3>1, <3>3, <4>1, RequiredStands
      <4> QED
        BY <4>2 DEF Evident
    <3> QED
      BY <1>0, <1>5, <3>2, <3>3, OwnNode DEF Calls, Kept
  <2> QED
    BY <1>0, <2>1, <2>2 DEF Evidenced
<1> QED
  BY <1>4, <1>5

Proven == Base /\ Clear /\ Evidenced /\ Known

LEMMA ProvenInit == ASSUME Catalogued PROVE HostInit => Proven
<1> SUFFICES ASSUME HostInit PROVE Proven
  OBVIOUS
<1>1. Base /\ Init /\ Clear
  BY BaseInit, RunInit DEF HostInit, IInv
<1>2. Evidenced
  BY <1>1, EvidenceInit DEF Catalogued
<1>3. Known
  <2>1. run = NoRun /\ worker = Resting /\ queue = <<>>
    BY <1>1 DEF Init, HostInit
  <2> QED
    BY <2>1, RestingRests, NoRunIs DEF Known, Rested
<1> QED
  BY <1>1, <1>2, <1>3 DEF Proven

LEMMA ProvenStep == ASSUME Catalogued, Proven, [HostNext]_allVars PROVE Proven'
<1> USE DEF Proven
<1>0. Base' /\ \A f \in Flows : InOrder(f)
  BY BaseStep DEF Catalogued
<1>1. CASE UNCHANGED allVars
  <2>1. UNCHANGED vars /\ UNCHANGED <<ticket, queue, worker>>
    BY <1>1 DEF allVars, hostVars
  <2>2. Clear' /\ Evidenced'
    BY <1>0, <2>1, ClearStep, EvidenceStep DEF Base, Shapes, Calls
  <2>3. Known'
    BY <2>1 DEF Known, Rested, vars
  <2> QED
    BY <1>0, <2>2, <2>3
<1>2. CASE Own
  BY <1>0, <1>2, ClearOwn, EvidenceOwn, KnownOwn DEF Evidenced
<1>3. CASE (Coordinate \/ Prepared \/ Submitted) /\ Next
  <2>1. Clear' /\ Evidenced'
    BY <1>0, <1>3, ClearStep, EvidenceStep DEF Base, Shapes, Calls
  <2> QED
    BY <1>0, <1>3, <2>1, KnownNext DEF Evidenced
<1> QED
  BY <1>1, <1>2, <1>3, Stepped

(***************************************************************************)
(* The commands a run is tested with are those its ticket names.           *)
(***************************************************************************)
Configured ==
    /\ ticket.state \in {"Queued", "Running"} => ticket.profile = profile
    /\ worker.pc = "preparing" =>
          ticket.state = "Running" \/ (ticket.state = "Cancelled" /\ run.state = "Cancelled")
    /\ Executing /\ worker.pc \in {"calling", "file", "ticket"} =>
          /\ worker.profile = ticket.profile
          /\ \/ ticket.state = "Running"
             \/ /\ ticket.state = "Cancelled"
                /\ \/ run.state = "Cancelled"
                   \/ run.state = "Failed" /\ call.pc \in {"caught", "idle", "escaped"}
    /\ worker.pc = "calling" /\ run.state \in {"Created", "Running", "Waiting"} =>
          worker.profile = ticket.profile

LEMMA ConfiguredNext ==
    ASSUME Base, Configured, Coordinate \/ Prepared \/ Submitted
    PROVE  Configured'
<1> USE DEF Base, Shapes, Calls
<1>1. CASE Coordinate
  <2>1. /\ worker.pc = "calling" /\ worker' = worker /\ ticket' = ticket /\ profile' = profile
    BY <1>1 DEF Coordinate
  <2>2. CASE call.pc \in Ends
    <3>1. CASE run' = run /\ call'.pc \in {"threw", "idle", "escaped"}
               /\ (call'.pc = "threw" => call.pc = "ending")
      BY <2>1, <3>1 DEF Configured, Executing
    <3>2. CASE /\ call.pc = "threw" /\ call'.pc = "caught"
               /\ run'.state \in {"Paused", "Cancelled", "Failed"}
               /\ Settled(run) => run'.state = "Failed"
      BY <2>1, <3>2 DEF Configured, Executing, Settled
    <3> QED
      BY <1>1, <2>2, <3>1, <3>2, EndsFollow
  <2>3. CASE call.pc \notin Ends
    <3>1. run.state \in {"Created", "Running"}
      BY <2>3 DEF Positions, Driving
    <3>2. worker.profile = ticket.profile
      BY <2>1, <3>1 DEF Configured
    <3>3. Executing => ticket.state = "Running"
      BY <2>1, <3>1 DEF Configured
    <3> QED
      BY <2>1, <3>2, <3>3 DEF Configured, Executing
  <2> QED
    BY <2>2, <2>3
<1>2. CASE Prepared
  <2>1. /\ worker.pc = "preparing" /\ ticket' = ticket /\ profile' = profile
        /\ worker' = [worker EXCEPT !.pc = "calling", !.profile = profile]
    BY <1>2 DEF Prepared
  <2>2. worker'.pc = "calling" /\ worker'.profile = profile
    BY <2>1 DEF Memory
  <2>3. run.state # "Cancelled"
    <3>1. worker.item.kind \in {"run", "resume"}
      BY <2>1 DEF Memory, Items, Attended
    <3>2. Start \/ Resume
      BY <1>2, <3>1 DEF Prepared
    <3> QED
      BY <3>2, NoRunIs DEF Start, Resume
  <2>4. ticket.state = "Running" /\ ticket.profile = profile
    BY <2>1, <2>3 DEF Configured
  <2> QED
    BY <2>1, <2>2, <2>4 DEF Configured
<1>3. CASE Submitted
  <2>1. /\ worker' = [Resting EXCEPT !.pc = "calling", !.item = Head(queue),
                                     !.profile = ticket.profile]
        /\ ticket' = ticket /\ profile' = profile /\ Head(queue).kind = "decision"
    BY <1>3 DEF Submitted
  <2>2. worker'.pc = "calling" /\ worker'.profile = ticket.profile
        /\ worker'.item.kind = "decision"
    BY <2>1, RestingRests
  <2> QED
    BY <2>1, <2>2 DEF Configured, Executing
<1> QED
  BY <1>1, <1>2, <1>3

LEMMA ConfiguredOwn == ASSUME Base, Known, Configured, Own PROVE Configured'
<1> USE DEF Base, Shapes
<1>1. ASSUME ticket' = ticket, worker' = worker, run' = run, call'.pc = call.pc,
             profile' = profile \/ ticket.state \notin {"Queued", "Running"}
      PROVE  Configured'
  BY <1>1 DEF Configured, Executing
<1>2. ASSUME worker'.pc = "idle",
             ticket'.state \in {"Queued", "Running"} => ticket'.profile = profile'
      PROVE  Configured'
  BY <1>2 DEF Configured, Executing
<1>3. CASE SaveProject
  BY <1>1, <1>3 DEF SaveProject, ProjectBusy, vars
<1>4. CASE RequestRun
  <2>1. ticket.state = "None" /\ worker' = worker /\ profile' = profile
    BY <1>4 DEF RequestRun
  <2>2. worker.pc = "idle"
    BY <2>1 DEF Known, Rested
  <2> QED
    BY <1>2, <1>4, <2>1, <2>2, TicketStates
<1>5. CASE RequestResume
  <2>1. /\ ticket.state \notin {"Queued", "Running"} /\ run.state \in {"Paused", "Blocked"}
        /\ worker' = worker /\ profile' = profile
    BY <1>5 DEF RequestResume, CanResume
  <2>2. run'.state = run.state
    BY <1>5, <2>1, OwnEnds DEF RequestResume, Retested, Calls, Kept
  <2>3. ticket'.profile = profile
    BY <1>5, TicketStates
  <2> QED
    BY <2>1, <2>2, <2>3 DEF Configured, Executing
<1>6. CASE CancelStored
  <2>1. ticket' = [ticket EXCEPT !.state = "Cancelled"] /\ worker' = worker /\ call' = call
        /\ profile' = profile
    BY <1>6 DEF CancelStored
  <2>2. ticket'.state = "Cancelled" /\ ticket'.profile = ticket.profile
    BY <2>1 DEF Tables
  <2>3. CASE run.state = "None"
    <3>1. ~Executing /\ run' = run
      BY <1>6, <2>3 DEF CancelStored
    <3> QED
      BY <2>1, <2>2, <2>3, <3>1 DEF Configured, Executing, Attended
  <2>4. CASE run.state # "None"
    <3>1. run'.state = "Cancelled"
      BY <1>6, <2>4 DEF CancelStored, Calls, Kept
    <3> QED
      BY <2>1, <2>2, <3>1 DEF Configured, Executing
  <2> QED
    BY <2>3, <2>4
<1>7. ASSUME NEW x, StopExecuting(x) \/ RequestApproval(x) PROVE Configured'
  <2>1. ticket' = ticket /\ worker' = worker /\ run' = run /\ call'.pc = call.pc /\ profile' = profile
    BY <1>7 DEF StopExecuting, RequestApproval, vars, hostVars, Calls, Kept
  <2> QED
    BY <1>1, <2>1
<1>8. CASE TakeRun
  <2>1. worker.pc = "idle" /\ profile' = profile
    BY <1>8 DEF TakeRun
  <2>2. CASE ticket.state = "Queued"
    <3>1. /\ ticket' = [ticket EXCEPT !.state = "Running"]
          /\ worker' = [Resting EXCEPT !.pc = "preparing", !.item = Head(queue)]
      BY <1>8, <2>2 DEF TakeRun
    <3>2. worker'.pc = "preparing" /\ ticket'.state = "Running" /\ ticket'.profile = ticket.profile
      BY <3>1, RestingRests DEF Tables
    <3> QED
      BY <2>1, <2>2, <3>2 DEF Configured
  <2>3. CASE ticket.state # "Queued"
    <3>1. ticket' = ticket /\ worker' = worker
      BY <1>8, <2>3 DEF TakeRun
    <3> QED
      BY <1>2, <2>1, <3>1 DEF Configured
  <2> QED
    BY <2>2, <2>3
<1>9. CASE Skipped
  BY <1>1, <1>9 DEF Skipped, TakeDecision, vars
<1>10. CASE Escaped
  <2>1. ticket' = ticket /\ profile' = profile /\ worker'.pc = "catch"
    BY <1>10 DEF Escaped, Memory
  <2> QED
    BY <2>1 DEF Configured
<1>11. CASE Returned
  <2>1. /\ ticket' = ticket /\ profile' = profile /\ run' = run /\ Executing
        /\ worker.pc = "calling" /\ call.pc = "idle" /\ call' = call
        /\ worker' = [worker EXCEPT !.pc = "file", !.seen = run.state,
                                    !.item.request = run.request]
    BY <1>11 DEF Returned, vars, At
  <2>2. worker'.pc = "file" /\ worker'.profile = worker.profile
    BY <2>1 DEF Memory
  <2> QED
    BY <2>1, <2>2 DEF Configured
<1>12. CASE FileApproval
  <2>1. /\ ticket' = ticket /\ profile' = profile /\ run' = run /\ worker.pc = "file"
        /\ call' = call /\ worker' = [worker EXCEPT !.pc = "ticket"]
    BY <1>12 DEF FileApproval, vars
  <2>2. worker'.pc = "ticket" /\ worker'.profile = worker.profile /\ worker'.item = worker.item
    BY <2>1 DEF Memory
  <2> QED
    BY <2>1, <2>2 DEF Configured, Executing
<1>13. CASE FileTicket \/ CatchException
  <2>1. worker'.pc = "idle"
    BY <1>13, RestingRests DEF FileTicket, CatchException
  <2> QED
    BY <1>2, <1>13, <2>1, TicketStates
<1>14. CASE DecisionReturned \/ DecisionEscaped \/ Restart
  <2>1. worker'.pc = "idle" /\ ticket' = ticket /\ profile' = profile
    BY <1>14, RestingRests DEF DecisionReturned, DecisionEscaped, Restart
  <2> QED
    BY <1>2, <2>1 DEF Configured
<1>15. ASSUME NEW x, NotPrepared(x) PROVE Configured'
  <2>1. ticket' = ticket /\ profile' = profile /\ worker'.pc = "catch"
    BY <1>15 DEF NotPrepared, Memory
  <2> QED
    BY <2>1 DEF Configured
<1>16. CASE ShutDown
  <2>1. ticket' = ticket /\ worker' = worker /\ run' = run /\ call'.pc = call.pc /\ profile' = profile
    BY <1>16 DEF ShutDown, Calls, Kept
  <2> QED
    BY <1>1, <2>1
<1>17. CASE Recover
  <2>1. worker'.pc = "idle" /\ profile' = profile
    BY <1>17 DEF Recover, RecoverRun, RecoverApprovals, RecoverCheckpoints, RecoverTickets,
                 RecoveryStep, Attended
  <2>2. ticket' = ticket \/ ticket'.state = "Interrupted"
    BY <1>17 DEF Recover, RecoverRun, RecoverApprovals, RecoverCheckpoints, RecoverTickets, Tables
  <2> QED
    BY <1>2, <2>1, <2>2 DEF Configured
<1> QED
  BY <1>3, <1>4, <1>5, <1>6, <1>7, <1>8, <1>9, <1>10, <1>11, <1>12, <1>13, <1>14, <1>15, <1>16,
     <1>17 DEF Own

PastTest ==
    \/ run.state = "Completed"
    \/ \E t, k \in DOMAIN def.required :
           def.required[t] = "test" /\ k > t /\ run.node = def.required[k]

Tested ==
    /\ PastTest => tested = ticket.profile
    /\ call.pc \in {"settled", "route"} /\ run.node = "test" => tested = ticket.profile

\* Where the test is among the required steps, and which are past it.
LEMMA PastTestIs ==
    ASSUME def \in Flows, Catalogued
    PROVE  \E t \in 1..Len(def.required) :
               /\ def.required[t] = "test"
               /\ DOMAIN def.required = 1..Len(def.required) /\ Len(def.required) \in Nat
               /\ "" \notin {def.required[k] : k \in 1..Len(def.required)}
               /\ \A i, j \in 1..Len(def.required) : def.required[i] = def.required[j] => i = j
               /\ PastTest <=> \/ run.state = "Completed"
                               \/ \E k \in 1..Len(def.required) : k > t /\ run.node = def.required[k]
<1>1. Valid(def) /\ InOrder(def)
  BY FlowsAreValid DEF Catalogued
<1>2. DOMAIN def.required = 1..Len(def.required) /\ Len(def.required) \in Nat
  BY <1>1 DEF Valid
<1>3. PICK t \in 1..Len(def.required) : def.required[t] = "test"
  BY TestStands
<1>4. \A i, j \in 1..Len(def.required) : def.required[i] = def.required[j] => i = j
  BY <1>1, <1>2 DEF InOrder
<1>5. "" \notin {def.required[k] : k \in 1..Len(def.required)}
  BY <1>1, <1>2 DEF InOrder
<1>6. PastTest <=> \/ run.state = "Completed"
                   \/ \E k \in 1..Len(def.required) : k > t /\ run.node = def.required[k]
  BY <1>2, <1>3, <1>4 DEF PastTest
<1> QED
  BY <1>2, <1>3, <1>4, <1>5, <1>6

\* The node the step leaves the run at, is past the test only if it was.
LEMMA AdvancesPastTest ==
    ASSUME def \in Flows, Catalogued, AdvanceNode \/ CompleteRun \/ Rework, Kept, PastTest'
    PROVE  PastTest \/ run.node = "test"
<1> DEFINE n == Len(def.required)
<1>0. Valid(def) /\ InOrder(def) /\ def' = def
  BY FlowsAreValid DEF Catalogued, AdvanceNode, CompleteRun, Rework
<1>1. PICK t \in 1..n :
          /\ def.required[t] = "test" /\ DOMAIN def.required = 1..n /\ n \in Nat
          /\ \A i, j \in 1..n : def.required[i] = def.required[j] => i = j
          /\ PastTest <=> \/ run.state = "Completed"
                          \/ \E k \in 1..n : k > t /\ run.node = def.required[k]
  BY PastTestIs
<1>2. run'.state = "Completed" \/ \E k \in 1..n : k > t /\ run'.node = def.required[k]
  BY <1>0, <1>1 DEF PastTest
<1>3. CASE AdvanceNode \/ CompleteRun
  <2>1. HasNext(def, run.node)
    BY <1>3 DEF AdvanceNode, CompleteRun
  <2>2. PICK i \in 1..n :
            /\ run.node = def.required[i]
            /\ NextNode(def, run.node) # Complete =>
                   i < n /\ NextNode(def, run.node) = def.required[i + 1]
            /\ NextNode(def, run.node) = Complete => i = n
    BY <1>0, <2>1, SuccessLeadsOn
  <2>3. i >= t \/ PastTest
    <3>1. CASE AdvanceNode
      <4>1. /\ run'.node = NextNode(def, run.node) /\ NextNode(def, run.node) # Complete
            /\ run'.state = run.state
        BY <3>1 DEF AdvanceNode, Kept
      <4>2. CASE run.state = "Completed"
        BY <1>1, <4>2
      <4>3. CASE run.state # "Completed"
        <5>1. PICK k \in 1..n : k > t /\ run'.node = def.required[k]
          BY <1>2, <4>1, <4>3
        <5>2. i + 1 \in 1..n /\ def.required[i + 1] = def.required[k]
          BY <1>1, <2>2, <4>1, <5>1
        <5>3. k = i + 1
          BY <1>1, <5>2
        <5> QED
          BY <1>1, <5>1, <5>3
      <4> QED
        BY <4>2, <4>3
    <3>2. CASE CompleteRun
      BY <1>1, <2>2, <3>2 DEF CompleteRun
    <3> QED
      BY <1>3, <3>1, <3>2
  <2>4. CASE i = t
    BY <1>1, <2>2, <2>4
  <2>5. CASE i > t
    BY <1>1, <2>2, <2>5
  <2> QED
    BY <1>1, <2>3, <2>4, <2>5
<1>4. CASE Rework
  <2>1. MayRework(def, run.node) /\ run'.node = def.target /\ run'.state = run.state
    BY <1>4 DEF Rework, Kept
  <2>2. PICK i \in 1..n :
            /\ run.node = def.required[i]
            /\ \A j \in DOMAIN def.required : def.required[j] = def.target => j <= i
    BY <1>0, <2>1, FindingsLeadBack
  <2>3. CASE run.state = "Completed"
    BY <1>1, <2>3
  <2>4. CASE run.state # "Completed"
    <3>1. PICK k \in 1..n : k > t /\ def.target = def.required[k]
      BY <1>2, <2>1, <2>4
    <3>2. i > t
      BY <1>1, <2>2, <3>1
    <3> QED
      BY <1>1, <2>2, <3>2
  <2> QED
    BY <2>3, <2>4
<1> QED
  BY <1>3, <1>4

\* An execution of the test tests with what the worker was given; any other leaves it.
LEMMA TestedExecution ==
    ASSUME Proven, Configured, Tested, Catalogued, Coordinate, NEW outcome,
           def' = def, run'.node = run.node, run'.state # "Completed",
           run'.execs = Append1(run, run.node, outcome).execs,
           call'.pc \in {"settled", "route"} => run.state = "Running"
    PROVE  Tested'
<1> USE DEF Proven, Base, Shapes, Calls
<1>1. Len(run'.execs) > Len(run.execs)
  <2> DEFINE e == Execution(run.node, outcome, run.drive)
  <2>1. run'.execs = Append(run.execs, e)
    BY DEF Append1, Kept
  <2>2. run.execs \in Seq(Elements(run.execs)) /\ Len(run.execs) \in Nat
    BY DEF Kept, Numbered
  <2> HIDE DEF e
  <2>3. Len(run'.execs) = Len(run.execs) + 1
    BY ONLY <2>1, <2>2, Appended
  <2> QED
    BY <2>2, <2>3
<1>2. tested' = IF run.node = "test" THEN worker.profile ELSE tested
  BY <1>1 DEF Coordinate
<1>3. ticket' = ticket /\ worker.pc = "calling"
  BY DEF Coordinate
<1>4. CASE run.node = "test"
  <2>1. ~PastTest'
    <3>1. PICK t \in 1..Len(def.required) :
              /\ def.required[t] = "test"
              /\ DOMAIN def.required = 1..Len(def.required) /\ Len(def.required) \in Nat
              /\ \A i, j \in 1..Len(def.required) : def.required[i] = def.required[j] => i = j
      BY PastTestIs DEF Evidenced
    <3> QED
      BY <1>4, <3>1 DEF PastTest
  <2>2. run.state = "Running" => worker.profile = ticket.profile
    BY <1>3 DEF Configured
  <2> QED
    BY <1>2, <1>3, <1>4, <2>1, <2>2 DEF Tested
<1>5. CASE run.node # "test"
  <2>1. PastTest' => PastTest
    BY DEF PastTest
  <2> QED
    BY <1>2, <1>3, <1>5, <2>1 DEF Tested
<1> QED
  BY <1>4, <1>5

LEMMA TestedCoordinate ==
    ASSUME Proven, Configured, Tested, Catalogued, Coordinate, Next
    PROVE  Tested'
<1> USE DEF Proven, Base, Shapes, Calls, Goto, At, Live
<1>0. /\ ticket' = ticket /\ def' = def
      /\ tested' = IF Len(run'.execs) > Len(run.execs) /\ run.node = "test"
                     THEN worker.profile ELSE tested
  BY NextIsKnown DEF Coordinate
<1>1. ASSUME run'.execs = run.execs, run'.node = run.node,
             run'.state = "Completed" => run.state = "Completed",
             call'.pc \in {"settled", "route"} => call.pc \in {"settled", "route"}
      PROVE  Tested'
  <2>1. tested' = tested
    BY <1>0, <1>1 DEF Kept, Numbered
  <2>2. PastTest' => PastTest
    BY <1>0, <1>1 DEF PastTest
  <2> QED
    BY <1>0, <1>1, <2>1, <2>2 DEF Tested
<1>2. CASE Started \/ Launch \/ Execute \/ Settle \/ SettleRefused \/ Retry \/ ReworkNotAllowed
           \/ Wait \/ ReworkBudgetExhausted \/ NextDispatch \/ StoppedEarly \/ EngineStops \/ Fault
           \/ Cancelled \/ CatchError
  BY <1>1, <1>2 DEF Started, Launch, Execute, Settle, SettleRefused, Retry, ReworkNotAllowed,
     Wait, ReworkBudgetExhausted, NextDispatch, StoppedEarly, EngineStops, Fault, Cancelled,
     CatchError, Kept
<1>3. CASE AdvanceRefused \/ Escape \/ Return \/ CaughtReturn \/ (CatchStop /\ Settled(run))
  <2>1. run' = run /\ call'.pc \in {"threw", "escaped", "idle"}
    BY <1>3, IdleIsIdle DEF AdvanceRefused, AdvanceThrows, Escape, Return, CaughtReturn, CatchStop,
                            Kept
  <2> QED
    BY <1>1, <2>1
<1>4. CASE NodeFails
  <2>1. run'.execs = run.execs /\ run'.node = run.node /\ run'.state # "Completed"
        /\ call'.pc = "ending"
    BY <1>4, Ended DEF NodeFails, Kept
  <2> QED
    BY <1>1, <2>1
<1>5. CASE HandlerReturns \/ NodeTimeout \/ NodeStopped
  <2>1. PICK outcome : Record(outcome)
    BY <1>5 DEF HandlerReturns, NodeTimeout, NodeStopped
  <2>2. run' = Append1(run, run.node, outcome) /\ call.pc = "executing"
    BY <2>1 DEF Record
  <2>3. run'.node = run.node /\ run'.state = run.state /\ run.state = "Running"
    BY <2>2 DEF Append1, Kept, Positions, Driving
  <2> QED
    BY <1>0, <2>2, <2>3, TestedExecution
<1>6. CASE CatchStop /\ ~Settled(run)
  <2> DEFINE o == IF call.pause THEN "Interrupted" ELSE "Cancelled"
             r == IF run.node = "" THEN run ELSE Append1(run, run.node, o)
  <2>1. /\ run' = [r EXCEPT !.state = IF call.pause THEN "Paused" ELSE "Cancelled",
                           !.failure = IF call.pause THEN "STOPPED" ELSE "CANCELLED",
                           !.request = 0]
        /\ call'.pc = "caught"
    BY <1>6 DEF CatchStop, Kept
  <2>2. r.node = run.node /\ "state" \in DOMAIN r
    BY DEF Append1, Kept
  <2>3. r.execs = IF run.node = "" THEN run.execs ELSE Append1(run, run.node, o).execs
    OBVIOUS
  <2> HIDE DEF r, o
  <2>4. /\ run'.node = run.node /\ run'.execs = r.execs /\ run'.state \in {"Paused", "Cancelled"}
    BY <2>1, <2>2
  <2>5. CASE run.node = ""
    BY <1>1, <2>1, <2>3, <2>4, <2>5
  <2>6. CASE run.node # ""
    BY <1>0, <2>1, <2>3, <2>4, <2>6, TestedExecution
  <2> QED
    BY <2>5, <2>6
<1>7. CASE AdvanceNode \/ CompleteRun \/ Rework
  <2>1. run'.execs = run.execs /\ call'.pc \in {"between", "dispatch", "ending"}
    BY <1>7 DEF AdvanceNode, CompleteRun, Rework, Kept
  <2>2. tested' = tested
    BY <1>0, <2>1 DEF Kept, Numbered
  <2>3. ASSUME PastTest' PROVE tested = ticket.profile
    <3>1. CASE PastTest
      BY <3>1 DEF Tested
    <3>2. CASE run.node = "test"
      <4>1. call.pc \in {"route", "approved"}
        BY <1>7 DEF AdvanceNode, CompleteRun, Rework, Advancing, Routing
      <4>2. call.pc = "route"
        BY <3>2, <4>1 DEF Questioned
      <4> QED
        BY <3>2, <4>2 DEF Tested
    <3> QED
      BY <1>7, <2>3, <3>1, <3>2, AdvancesPastTest DEF Evidenced
  <2> QED
    BY <1>0, <2>1, <2>2, <2>3 DEF Tested
<1> QED
  BY <1>2, <1>3, <1>4, <1>5, <1>6, <1>7 DEF Coordinate, Engine

\* The first step and the test itself are not past the test.
LEMMA NotPastTest ==
    ASSUME def \in Flows, Catalogued, def' = def, run'.state # "Completed",
           run'.node \in {"test", "", def.entry}
    PROVE  ~PastTest'
<1> DEFINE n == Len(def.required)
<1>0. Valid(def) /\ InOrder(def)
  BY FlowsAreValid DEF Catalogued
<1>1. PICK t \in 1..n :
          /\ def.required[t] = "test" /\ DOMAIN def.required = 1..n /\ n \in Nat
          /\ "" \notin {def.required[k] : k \in 1..n}
          /\ \A i, j \in 1..n : def.required[i] = def.required[j] => i = j
  BY PastTestIs
<1>2. def.entry = def.required[1]
  BY <1>0 DEF InOrder
<1>3. n \in Nat /\ (\A i, j \in 1..n : def.required[i] = def.required[j] => i = j)
  BY <1>1
<1> HIDE DEF n
<1>4. ASSUME NEW s \in 1..n, NEW k \in 1..n, def.required[s] = "test", k > s, run'.node = def.required[k]
      PROVE  FALSE
  <2>1. k # s /\ k # 1 /\ 1 \in 1..n
    BY ONLY <1>3, <1>4, s \in 1..n, k \in 1..n
  <2>2. CASE run'.node = "test"
    <3>1. def.required[k] = def.required[s]
      BY ONLY <1>4, <2>2
    <3> QED
      BY ONLY <1>3, <2>1, <3>1, s \in 1..n, k \in 1..n
  <2>3. CASE run'.node = ""
    <3>1. def.required[k] = ""
      BY ONLY <1>4, <2>3
    <3> QED
      BY ONLY <1>1, <3>1, k \in 1..n
  <2>4. CASE run'.node = def.entry
    <3>1. def.required[k] = def.required[1]
      BY ONLY <1>2, <1>4, <2>4
    <3> QED
      BY ONLY <1>3, <2>1, <3>1, k \in 1..n
  <2> QED
    BY <2>2, <2>3, <2>4
<1> QED
  BY <1>1, <1>4 DEF PastTest

LEMMA TestedCalled ==
    ASSUME Proven, Tested, Catalogued, Prepared \/ Submitted, Next
    PROVE  Tested'
<1> USE DEF Proven, Base, Shapes, Calls
<1>0. /\ ticket' = ticket /\ def' = def /\ tested' = tested
  BY NextIsKnown DEF Prepared, Submitted
<1>1. Start \/ Resume \/ Submitted
  <2>1. Prepared => worker.item.kind \in {"run", "resume"}
    BY DEF Prepared, Memory, Items, Attended
  <2> QED
    BY <2>1 DEF Prepared
<1>2. CASE Start
  <2>1. run'.node = def.entry /\ run'.state = "Created" /\ call'.pc = "created"
    BY <1>2 DEF Start, NoRun, Kept
  <2> QED
    BY <1>0, <2>1, NotPastTest DEF Tested, Evidenced
<1>3. CASE Resume \/ Submitted
  <2>1. run'.node = run.node /\ run'.state \in {"Running", "Failed"}
        /\ call'.pc \in {"launch", "approved", "caught"}
    BY <1>3 DEF Resume, Submitted, SubmitHuman, Kept
  <2>2. PastTest' => PastTest
    BY <1>0, <2>1 DEF PastTest
  <2> QED
    BY <1>0, <2>1, <2>2 DEF Tested
<1> QED
  BY <1>1, <1>2, <1>3

LEMMA OwnTested == ASSUME Own PROVE tested' = tested
<1>1. CASE \/ SaveProject \/ RequestRun \/ RequestResume \/ CancelStored \/ TakeRun \/ Skipped
           \/ Escaped \/ Returned \/ FileApproval \/ FileTicket \/ CatchException
           \/ DecisionReturned \/ DecisionEscaped \/ ShutDown \/ Restart \/ Recover
  BY <1>1 DEF SaveProject, RequestRun, RequestResume, CancelStored, TakeRun, Skipped, TakeDecision,
     Escaped, Returned, FileApproval, FileTicket, CatchException, DecisionReturned,
     DecisionEscaped, ShutDown, Restart, Recover, RecoverRun, RecoverApprovals,
     RecoverCheckpoints, RecoverTickets
<1>2. ASSUME NEW x, StopExecuting(x) \/ RequestApproval(x) \/ NotPrepared(x) PROVE tested' = tested
  BY <1>2 DEF StopExecuting, RequestApproval, NotPrepared, hostVars
<1> QED
  BY <1>1, <1>2 DEF Own

LEMMA OwnProfile ==
    ASSUME Tables, Own
    PROVE  ticket'.profile = ticket.profile \/ RequestRun \/ RequestResume \/ FileTicket
<1>1. ASSUME NEW s, ticket' = [ticket EXCEPT !.state = s] PROVE ticket'.profile = ticket.profile
  BY <1>1 DEF Tables
<1> QED
  BY <1>1, OwnTicket, TicketStates

\* A run past its tests, resumed under new commands, goes back to them.
LEMMA ResumedIsRetested ==
    ASSUME Proven, Catalogued, RequestResume, PastTest, run'.node = run.node
    PROVE  ticket.profile = profile
<1> USE DEF Proven, Base, Shapes, Calls
<1> SUFFICES ASSUME ticket.profile # profile PROVE FALSE
  OBVIOUS
<1> DEFINE n == Len(def.required)
<1>0. run.state \in {"Paused", "Blocked"} /\ run' = Retested
  BY DEF RequestResume, CanResume
<1>1. PICK t \in 1..n :
          /\ def.required[t] = "test"
          /\ \A i \in 1..n : i > t => def.required[i] \in {"review", "human", "deliver"}
  BY TestStands DEF Evidenced
<1>2. /\ n \in Nat /\ DOMAIN def.required = 1..n
      /\ \A i, j \in 1..n : def.required[i] = def.required[j] => i = j
  BY PastTestIs DEF Evidenced
<1>3. PICK k \in 1..n : k > t /\ run.node = def.required[k]
  BY <1>0, <1>1, <1>2 DEF PastTest
<1>4. run.node \in {"review", "human", "deliver"}
  BY <1>1, <1>3
<1>5. Evident(run, k - 1) /\ t \in 1..(k - 1)
  BY <1>2, <1>3 DEF Evidenced
<1>6. PICK m \in DOMAIN run.execs :
          IsLast(run, def.required[t], m) /\ run.execs[m].outcome = "Succeeded"
  BY <1>5 DEF Evident
<1>7. DOMAIN run.execs = 1..Len(run.execs) /\ Len(run.execs) \in Nat
  BY DEF Kept, Numbered
<1>8. LastOf(run, "test") = m
  BY <1>1, <1>6, <1>7, LastIsLast
<1>9. run' = [run EXCEPT !.node = "test"]
  BY <1>0, <1>4, <1>6, <1>7, <1>8 DEF Retested
<1>10. run'.node = "test"
  BY <1>9 DEF Kept
<1> QED
  BY <1>4, <1>10

LEMMA TestedOwn == ASSUME Proven, Known, Configured, Tested, Catalogued, Own PROVE Tested'
<1> USE DEF Proven, Base, Shapes, Calls
<1>0. def' = def /\ tested' = tested
  BY OwnRun, OwnTested
<1>1. run'.state = "Completed" => run' = run
  BY OwnEnds
<1>2. ASSUME PastTest' PROVE tested = ticket'.profile
  <2>1. run'.node = run.node
    <3>1. CASE run'.state = "Completed"
      BY <1>1, <3>1
    <3>2. CASE run'.state # "Completed"
      <4>1. run'.node \notin {"test", "", def.entry}
        BY <1>0, <1>2, <3>2, NotPastTest DEF Evidenced
      <4>2. RequestResume /\ run' = [run EXCEPT !.node = "test"] => run'.node = "test"
        BY DEF Kept
      <4> QED
        BY <4>1, <4>2, OwnNode
    <3> QED
      BY <3>1, <3>2
  <2>2. PastTest
    BY <1>0, <1>1, <1>2, <2>1 DEF PastTest
  <2>3. tested = ticket.profile
    BY <2>2 DEF Tested
  <2>4. CASE RequestRun
    <3>1. run = NoRun
      BY <2>4 DEF RequestRun, Known
    <3>2. run.state # "Completed" /\ run.node = ""
      BY <3>1, NoRunIs
    <3>3. run' = run
      BY <2>4 DEF RequestRun, vars
    <3> QED
      BY <1>0, <1>2, <3>2, <3>3, NotPastTest DEF Evidenced
  <2>5. CASE RequestResume
    <3>1. ticket.profile = profile
      BY <2>1, <2>2, <2>5, ResumedIsRetested
    <3> QED
      BY <2>3, <2>5, <3>1, TicketStates
  <2>6. CASE FileTicket
    <3>1. worker.pc \in {"file", "ticket"}
      BY <2>6 DEF FileTicket
    <3>2. worker.profile = ticket.profile
      BY <3>1 DEF Attended, Configured, Executing
    <3> QED
      BY <2>3, <2>6, <3>2, TicketStates
  <2> QED
    BY <2>3, <2>4, <2>5, <2>6, OwnProfile
<1>3. ASSUME call'.pc \in {"settled", "route"}, run'.node = "test" PROVE tested = ticket'.profile
  <2>1. call'.pc = call.pc /\ run' = run
    BY <1>3, OwnEnds DEF Ends
  <2>2. run.state = "Running" /\ worker.pc = "calling"
    BY <1>3, <2>1 DEF Positions, Driving, Attended
  <2>3. ~(RequestRun \/ RequestResume \/ FileTicket)
    BY <2>2 DEF RequestRun, RequestResume, FileTicket, CanResume, Known, Rested
  <2> QED
    BY <1>3, <2>1, <2>3, OwnProfile DEF Tested
<1> QED
  BY <1>0, <1>2, <1>3 DEF Tested

\* However often the project's commands change while the run is paused, and wherever stops,
\* exceptions and restarts fall: a completed run was tested with the commands its ticket names
\* (RequestResume, ProcessAsync's WithProfile).
THEOREM CompletedAsConfigured ==
    ASSUME Catalogued
    PROVE  HostSpec => []TestedAsConfigured
<1>1. HostInit => Proven /\ Configured /\ Tested
  <2> SUFFICES ASSUME HostInit PROVE Configured /\ Tested
    BY ProvenInit
  <2>1. run = NoRun /\ worker = Resting /\ ticket.state = "None" /\ call.pc = "idle" /\ Proven
    BY IdleIsIdle, ProvenInit DEF HostInit, Init
  <2>2. run.state = "None" /\ run.node = "" /\ worker.pc = "idle"
    BY <2>1, NoRunIs, RestingRests
  <2>3. ~PastTest
    <3>1. "" \notin {def.required[k] : k \in 1..Len(def.required)}
          /\ DOMAIN def.required = 1..Len(def.required)
      BY <2>1, PastTestIs DEF Proven, Evidenced
    <3> QED
      BY <2>2, <3>1 DEF PastTest
  <2> QED
    BY <2>1, <2>2, <2>3 DEF Configured, Executing, Tested
<1>2. Proven /\ Configured /\ Tested /\ [HostNext]_allVars => (Proven /\ Configured /\ Tested)'
  <2> SUFFICES ASSUME Proven, Configured, Tested, [HostNext]_allVars PROVE Configured' /\ Tested'
    BY ProvenStep
  <2>1. CASE UNCHANGED allVars
    <3>1. UNCHANGED <<def, run, call, ticket, profile, tested, worker>>
      BY <2>1 DEF allVars, vars, hostVars
    <3> QED
      BY <3>1 DEF Configured, Executing, Tested, PastTest
  <2>2. CASE Own
    BY <2>2, ConfiguredOwn, TestedOwn DEF Proven
  <2>3. CASE (Coordinate \/ Prepared \/ Submitted) /\ Next
    BY <2>3, ConfiguredNext, TestedCoordinate, TestedCalled DEF Proven
  <2> QED
    BY <2>1, <2>2, <2>3, Stepped DEF Proven
<1>3. Proven /\ Tested => TestedAsConfigured
  BY DEF Tested, PastTest, TestedAsConfigured
<1> QED
  BY <1>1, <1>2, <1>3, PTL DEF HostSpec

(***************************************************************************)
(* The decisions of the Owner: the n-th request is answered by the outcome *)
(* that the n-th execution of "human" has.                                 *)
(***************************************************************************)
HumanOf(r) == {i \in DOMAIN r.execs : r.execs[i].node = "human"}
Through(r, i) == {j \in HumanOf(r) : j <= i}

Answered(r, n, outcome) ==
    \E i \in HumanOf(r) : Cardinality(Through(r, i)) = n /\ r.execs[i].outcome = outcome

Answer(approved) == IF approved THEN "Succeeded" ELSE "Failed"

Filed ==
    /\ \A k \in DOMAIN approvals :
          /\ approvals[k].status = "Approved" => Answered(run, approvals[k].request, "Succeeded")
          /\ approvals[k].status = "Rejected" => Answered(run, approvals[k].request, "Failed")
    /\ worker.pc = "file" /\ run.state = "Waiting" =>
          worker.seen = "Waiting" /\ worker.item.request = run.request
    /\ worker.pc \notin {"calling", "file"} /\ waiting /\ run.state = "Waiting" =>
          \A k \in LastWaiting : approvals[k].request = run.request
    /\ worker.pc = "calling" /\ ~Executing =>
          /\ \A k \in LastWaiting : approvals[k].request = worker.item.request
          /\ Answered(run, worker.item.request, Answer(worker.item.approved))

\* Executions are only added, and an outcome changes only while it is that of a question.
Continues(q, r) ==
    /\ DOMAIN r.execs \subseteq DOMAIN q.execs
    /\ \A i \in DOMAIN q.execs \ DOMAIN r.execs : \A j \in DOMAIN r.execs : j < i
    /\ \A i \in DOMAIN r.execs :
          /\ q.execs[i].node = r.execs[i].node
          /\ r.execs[i].outcome # "Waiting" => q.execs[i].outcome = r.execs[i].outcome

LEMMA AnswersStand ==
    ASSUME NEW r, NEW q, Continues(q, r), DOMAIN q.execs \subseteq Nat,
           NEW n, NEW outcome, outcome # "Waiting", Answered(r, n, outcome)
    PROVE  Answered(q, n, outcome)
<1>1. PICK i \in HumanOf(r) : Cardinality(Through(r, i)) = n /\ r.execs[i].outcome = outcome
  BY DEF Answered
<1>2. i \in HumanOf(q) /\ q.execs[i].outcome = outcome
  BY <1>1 DEF Continues, HumanOf
<1>3. Through(q, i) = Through(r, i)
  <2>1. \A j \in HumanOf(r) : j \in HumanOf(q)
    BY DEF Continues, HumanOf
  <2>2. ASSUME NEW j \in HumanOf(q), j <= i PROVE j \in HumanOf(r)
    <3>1. j \in DOMAIN r.execs
      <4>1. j \in DOMAIN q.execs /\ i \in DOMAIN r.execs /\ i \in Nat /\ j \in Nat
        BY <1>1, <1>2 DEF HumanOf
      <4>2. j \notin DOMAIN r.execs => i < j
        BY <4>1 DEF Continues
      <4> QED
        BY <2>2, <4>1, <4>2
    <3> QED
      BY <3>1 DEF Continues, HumanOf
  <2> QED
    BY <2>1, <2>2 DEF Through
<1> QED
  BY <1>1, <1>2, <1>3 DEF Answered

\* What is appended comes after what is there.
LEMMA RecordContinues ==
    ASSUME Kept, NEW outcome, run'.execs = Append1(run, run.node, outcome).execs
    PROVE  Continues(run', run)
<1> DEFINE e == Execution(run.node, outcome, run.drive)
<1>1. run'.execs = Append(run.execs, e)
  BY DEF Append1, Kept
<1>2. run.execs \in Seq(Elements(run.execs)) /\ Len(run.execs) \in Nat
      /\ DOMAIN run.execs = 1..Len(run.execs)
  BY DEF Kept, Numbered
<1> HIDE DEF e
<1>3. /\ Len(run'.execs) = Len(run.execs) + 1
      /\ \A i \in 1..Len(run.execs) : run'.execs[i] = run.execs[i]
      /\ run'.execs \in Seq(Elements(run'.execs))
  BY ONLY <1>1, <1>2, Appended
<1>4. DOMAIN run'.execs = 1..(Len(run.execs) + 1)
  BY <1>3
<1> QED
  BY <1>2, <1>3, <1>4 DEF Continues

LEMMA SameContinues == ASSUME run'.execs = run.execs PROVE Continues(run', run)
  BY DEF Continues

LEMMA DecisionContinues ==
    ASSUME Calls, Questioned, NEW request, NEW approved \in BOOLEAN, SubmitHuman(request, approved)
    PROVE  /\ Continues(run', run) /\ DOMAIN run'.execs = DOMAIN run.execs
           /\ Len(run.execs) \in HumanOf(run)
           /\ run'.execs[Len(run.execs)].outcome = Answer(approved)
<1> DEFINE n == Len(run.execs)
<1> USE DEF Calls
<1>0. run.state = "Waiting"
  BY DEF SubmitHuman
<1>1. /\ n \in Nat /\ DOMAIN run.execs = 1..n /\ n \in DOMAIN run.execs
      /\ run.execs[n].node = "human" /\ run.execs[n].outcome = "Waiting"
  BY <1>0 DEF Questioned, OfNode, LastOutcome, Kept, Numbered
<1>2. run.execs[n] = Execution(run.execs[n].node, run.execs[n].outcome, run.execs[n].drive)
  BY <1>1 DEF Kept, Numbered
<1>3. run'.execs = [run.execs EXCEPT ![n] = [run.execs[n] EXCEPT !.outcome = Answer(approved)]]
  BY DEF SubmitHuman, Kept, Answer
<1>4. /\ DOMAIN run'.execs = DOMAIN run.execs
      /\ \A i \in DOMAIN run.execs : i # n => run'.execs[i] = run.execs[i]
      /\ run'.execs[n] = [run.execs[n] EXCEPT !.outcome = Answer(approved)]
  BY <1>1, <1>3
<1>5. run'.execs[n].node = run.execs[n].node /\ run'.execs[n].outcome = Answer(approved)
  BY ONLY <1>2, <1>4 DEF Execution
<1> QED
  BY <1>1, <1>4, <1>5 DEF Continues, HumanOf

LEMMA HistoryNext == ASSUME Calls, Questioned, Next PROVE Continues(run', run)
<1> USE DEF Calls
<1>1. CASE \/ Started \/ Resume \/ Launch \/ Execute \/ Settle \/ SettleRefused \/ Wait \/ Retry
           \/ NodeFails \/ ReworkNotAllowed \/ ReworkBudgetExhausted \/ Rework \/ AdvanceNode
  <2>1. run'.execs = run.execs
    BY <1>1 DEF Started, Resume, Launch, Execute, Settle, SettleRefused, Wait, Retry, NodeFails,
       ReworkNotAllowed, ReworkBudgetExhausted, Rework, AdvanceNode, Kept
  <2> QED
    BY <2>1, SameContinues
<1>2. CASE \/ CompleteRun \/ AdvanceRefused \/ NextDispatch \/ StoppedEarly \/ CatchError
           \/ EngineStops \/ Fault \/ Cancelled \/ Escape \/ HostStops \/ Return \/ CaughtReturn
           \/ Terminated
  <2>1. run'.execs = run.execs
    BY <1>2 DEF CompleteRun, AdvanceRefused, NextDispatch, StoppedEarly, CatchError, EngineStops,
       Fault, Cancelled, Escape, HostStops, Return, CaughtReturn, Terminated, vars, Kept
  <2> QED
    BY <2>1, SameContinues
<1>3. CASE Start
  <2>1. run' = [run EXCEPT !.state = "Created", !.node = def.entry, !.drive = 1]
    BY <1>3 DEF Start
  <2> QED
    BY <2>1, SameContinues DEF Kept
<1>4. CASE HandlerReturns \/ NodeTimeout \/ NodeStopped
  <2>1. PICK outcome : Record(outcome)
    BY <1>4 DEF HandlerReturns, NodeTimeout, NodeStopped
  <2> QED
    BY <2>1, RecordContinues DEF Record
<1>5. CASE CatchStop
  <2> DEFINE outcome == IF call.pause THEN "Interrupted" ELSE "Cancelled"
             r == IF run.node = "" THEN run ELSE Append1(run, run.node, outcome)
  <2>1. CASE Settled(run)
    BY <1>5, <2>1, SameContinues DEF CatchStop
  <2>2. CASE ~Settled(run)
    <3>1. run' = [r EXCEPT !.state = IF call.pause THEN "Paused" ELSE "Cancelled",
                           !.failure = IF call.pause THEN "STOPPED" ELSE "CANCELLED",
                           !.request = 0]
      BY <1>5, <2>2 DEF CatchStop
    <3>2. "execs" \in DOMAIN r
      BY DEF Append1, Kept
    <3>3. r = run \/ r = Append1(run, run.node, outcome)
      OBVIOUS
    <3> HIDE DEF r
    <3>4. run'.execs = r.execs
      BY ONLY <3>1, <3>2
    <3> QED
      BY <3>3, <3>4, SameContinues, RecordContinues
  <2> QED
    BY <2>1, <2>2
<1>6. ASSUME NEW request, NEW approved \in BOOLEAN, SubmitHuman(request, approved)
      PROVE  Continues(run', run)
  BY <1>6, DecisionContinues
<1>7. ASSUME NEW pause, RequestStop(pause) PROVE Continues(run', run)
  BY <1>7, SameContinues DEF RequestStop
<1> QED
  BY <1>1, <1>2, <1>3, <1>4, <1>5, <1>6, <1>7 DEF Next, Engine

\* What was answered stays answered, whatever the host or the coordinator does.
LEMMA AnsweredStays ==
    ASSUME Base, Own \/ Next, NEW n, NEW outcome, outcome # "Waiting", Answered(run, n, outcome)
    PROVE  Answered(run', n, outcome)
<1> USE DEF Base, Shapes
<1>1. Continues(run', run)
  BY HistoryNext, OwnRun, SameContinues
<1>2. Calls'
  BY CallsOwn, CallsNext
<1>3. DOMAIN run'.execs \subseteq Nat
  BY <1>2 DEF Calls, Kept, Numbered
<1> QED
  BY <1>1, <1>3, AnswersStand

\* The decision answers the request that is open.
LEMMA DecisionAnswers ==
    ASSUME Base, NEW request, NEW approved \in BOOLEAN, SubmitHuman(request, approved)
    PROVE  Answered(run', request, Answer(approved))
<1> USE DEF Base, Shapes
<1> DEFINE n == Len(run.execs)
<1>1. /\ Continues(run', run) /\ DOMAIN run'.execs = DOMAIN run.execs
      /\ n \in HumanOf(run) /\ run'.execs[n].outcome = Answer(approved)
  BY DecisionContinues
<1>2. request = Cardinality(HumanAttempts)
  BY DEF SubmitHuman, Questioned
<1>3. HumanOf(run') = HumanAttempts
  BY <1>1 DEF Continues, HumanOf, HumanAttempts
<1>4. Through(run', n) = HumanAttempts
  <2>1. DOMAIN run.execs = 1..n /\ n \in Nat
    BY DEF Calls, Kept, Numbered
  <2> QED
    BY <1>3, <2>1 DEF Through, HumanAttempts
<1>5. n \in HumanOf(run')
  BY <1>1, <1>3 DEF HumanOf, HumanAttempts
<1> QED
  BY <1>1, <1>2, <1>4, <1>5 DEF Answered

\* A step that leaves the approvals alone, and the worker or what a waiting run was asked.
LEMMA FiledQuietly ==
    ASSUME Base, Filed, Own, UNCHANGED <<approvals, waiting>>,
           \/ worker' = worker
           \/ /\ worker'.pc \notin {"calling", "file"}
              /\ worker.pc \notin {"calling", "file"} \/ run'.state # "Waiting"
    PROVE  Filed'
<1> USE DEF Base, Shapes
<1>1. run'.state = "Waiting" => run' = run
  BY OwnEnds
<1>2. LastWaiting' = LastWaiting
  BY DEF LastWaiting
<1>3. \A k \in DOMAIN approvals' :
          /\ approvals'[k].status = "Approved" => Answered(run', approvals'[k].request, "Succeeded")
          /\ approvals'[k].status = "Rejected" => Answered(run', approvals'[k].request, "Failed")
  BY AnsweredStays DEF Filed
<1>4. worker' = worker /\ Answered(run, worker.item.request, Answer(worker.item.approved))
          => Answered(run', worker.item.request, Answer(worker.item.approved))
  <2>1. Answer(worker.item.approved) # "Waiting"
    BY DEF Answer
  <2> QED
    BY <2>1, AnsweredStays
<1>5. CASE worker' = worker
  <2>1. worker'.pc = "file" /\ run'.state = "Waiting" =>
            worker'.seen = "Waiting" /\ worker'.item.request = run'.request
    BY <1>1, <1>5 DEF Filed
  <2>2. worker'.pc \notin {"calling", "file"} /\ waiting' /\ run'.state = "Waiting" =>
            \A k \in LastWaiting' : approvals'[k].request = run'.request
    BY <1>1, <1>2, <1>5 DEF Filed
  <2>3. worker'.pc = "calling" /\ ~Executing' =>
            /\ \A k \in LastWaiting' : approvals'[k].request = worker'.item.request
            /\ Answered(run', worker'.item.request, Answer(worker'.item.approved))
    BY <1>2, <1>4, <1>5 DEF Filed, Executing
  <2> QED
    BY <1>3, <2>1, <2>2, <2>3 DEF Filed
<1>6. CASE /\ worker'.pc \notin {"calling", "file"}
           /\ worker.pc \notin {"calling", "file"} \/ run'.state # "Waiting"
  <2>1. waiting' /\ run'.state = "Waiting" =>
            \A k \in LastWaiting' : approvals'[k].request = run'.request
    BY <1>1, <1>2, <1>6 DEF Filed
  <2> QED
    BY <1>3, <1>6, <2>1 DEF Filed
<1> QED
  BY <1>5, <1>6

\* Entries that are closed are neither answers nor open.
LEMMA FiledClosed ==
    ASSUME Base, Filed, Own, NEW status \in {"Cancelled", "Interrupted"}, approvals' = Closed(status),
           worker' = worker, run'.state # "Waiting"
    PROVE  Filed'
<1> USE DEF Base, Shapes
<1>1. /\ approvals \in Seq(Entries) /\ DOMAIN approvals' = DOMAIN approvals
      /\ \A k \in DOMAIN approvals :
            /\ approvals'[k].request = approvals[k].request
            /\ approvals'[k].status =
                  IF approvals[k].status = "Waiting" THEN status ELSE approvals[k].status
  BY ClosedEntries DEF Tables, Statuses
<1>2. LastWaiting' = {}
  BY <1>1 DEF LastWaiting
<1>3. ASSUME NEW k \in DOMAIN approvals'
      PROVE  /\ approvals'[k].status = "Approved" => Answered(run', approvals'[k].request, "Succeeded")
             /\ approvals'[k].status = "Rejected" => Answered(run', approvals'[k].request, "Failed")
  <2>1. approvals'[k].status \in {"Approved", "Rejected"} => approvals'[k].status = approvals[k].status
    BY <1>1, <1>3
  <2> QED
    BY <1>1, <1>3, <2>1, AnsweredStays DEF Filed
<1>4. worker.pc = "calling" /\ ~Executing
          => Answered(run', worker.item.request, Answer(worker.item.approved))
  <2>1. Answer(worker.item.approved) # "Waiting"
    BY DEF Answer
  <2> QED
    BY <2>1, AnsweredStays DEF Filed
<1> QED
  BY <1>2, <1>3, <1>4 DEF Filed, Executing

\* The request that is filed is the only one that can be open.
LEMMA FiledAnew == ASSUME Base, Filed, FileApproval PROVE Filed'
<1> USE DEF Base, Shapes
<1> DEFINE e == [request |-> worker.item.request, status |-> "Waiting"]
           n == Len(approvals)
<1>0. worker.item.request \in Nat
  BY DEF FileApproval, Memory, Items
<1>1. e \in Entries /\ e.status = "Waiting" /\ e.request = worker.item.request
  BY <1>0 DEF Entries, Statuses
<1>2. approvals \in Seq(Entries) /\ approvals' = Append(approvals, e)
  BY DEF FileApproval, Tables
<1> HIDE DEF e
<1>3. /\ n \in Nat /\ DOMAIN approvals = 1..n /\ DOMAIN approvals' = 1..(n + 1)
      /\ approvals'[n + 1] = e /\ \A i \in 1..n : approvals'[i] = approvals[i]
  BY ONLY <1>1, <1>2, ItemAppended
<1>4. \A k \in LastWaiting' : k = n + 1
  <2>1. n + 1 \in DOMAIN approvals' /\ approvals'[n + 1].status = "Waiting"
    BY <1>1, <1>3
  <2> SUFFICES ASSUME NEW k \in LastWaiting' PROVE k = n + 1
    OBVIOUS
  <2>2. k \in 1..(n + 1) /\ n + 1 <= k
    BY <1>3, <2>1 DEF LastWaiting
  <2> QED
    BY <1>3, <2>2
<1>5. run' = run /\ worker.pc = "file" /\ worker'.pc = "ticket"
  BY DEF FileApproval, vars, Memory
<1>6. ASSUME NEW k \in DOMAIN approvals'
      PROVE  /\ approvals'[k].status = "Approved" => Answered(run', approvals'[k].request, "Succeeded")
             /\ approvals'[k].status = "Rejected" => Answered(run', approvals'[k].request, "Failed")
  <2>1. k = n + 1 \/ k \in 1..n
    BY <1>3, <1>6
  <2> QED
    BY <1>1, <1>3, <1>5, <2>1 DEF Filed
<1>7. run'.state = "Waiting" => \A k \in LastWaiting' : approvals'[k].request = run'.request
  <2>1. run.state = "Waiting" => worker.item.request = run.request
    BY <1>5 DEF Filed
  <2> QED
    BY <1>1, <1>3, <1>4, <1>5, <2>1
<1> QED
  BY <1>5, <1>6, <1>7 DEF Filed

\* The answer is filed under the request that was answered.
LEMMA FiledDecision == ASSUME Base, Filed, DecisionReturned PROVE Filed'
<1> USE DEF Base, Shapes
<1>0. /\ worker.pc = "calling" /\ ~Executing /\ worker' = Resting /\ worker'.pc = "idle"
      /\ run'.state = "Waiting" => run' = run
  BY RestingRests, OwnEnds DEF DecisionReturned, Own
<1>1. /\ \A k \in LastWaiting : approvals[k].request = worker.item.request
      /\ Answered(run, worker.item.request, Answer(worker.item.approved))
  BY <1>0 DEF Filed
<1>2. Answered(run', worker.item.request, Answer(worker.item.approved))
  <2>1. Answer(worker.item.approved) # "Waiting"
    BY DEF Answer
  <2> QED
    BY <1>1, <2>1, AnsweredStays DEF Own
<1>3. CASE LastWaiting = {}
  <2>1. UNCHANGED <<approvals, waiting>>
    BY <1>3 DEF DecisionReturned
  <2>2. LastWaiting' = {}
    BY <1>3, <2>1 DEF LastWaiting
  <2>3. ASSUME NEW k \in DOMAIN approvals'
        PROVE  /\ approvals'[k].status = "Approved" => Answered(run', approvals'[k].request, "Succeeded")
               /\ approvals'[k].status = "Rejected" => Answered(run', approvals'[k].request, "Failed")
    BY <2>1, <2>3, AnsweredStays DEF Filed, Own
  <2> QED
    BY <1>0, <2>2, <2>3 DEF Filed
<1>4. CASE LastWaiting # {}
  <2> DEFINE status == IF worker.item.approved THEN "Approved" ELSE "Rejected"
  <2>1. /\ waiting' = FALSE /\ DOMAIN approvals' = DOMAIN approvals
        /\ \A k \in DOMAIN approvals : approvals'[k] =
               IF k \in LastWaiting THEN [approvals[k] EXCEPT !.status = status] ELSE approvals[k]
    BY <1>4 DEF DecisionReturned
  <2>2. ASSUME NEW k \in DOMAIN approvals'
        PROVE  /\ approvals'[k].status = "Approved" => Answered(run', approvals'[k].request, "Succeeded")
               /\ approvals'[k].status = "Rejected" => Answered(run', approvals'[k].request, "Failed")
    <3>1. CASE k \in LastWaiting
      <4>1. approvals[k] \in Entries
        BY <2>1, <2>2 DEF Tables
      <4>2. approvals'[k].status = status /\ approvals'[k].request = worker.item.request
        BY <1>1, <2>1, <2>2, <3>1, <4>1 DEF Entries
      <4> QED
        BY <1>2, <4>2 DEF Answer
    <3>2. CASE k \notin LastWaiting
      <4>1. approvals'[k] = approvals[k]
        BY <2>1, <2>2, <3>2
      <4> QED
        BY <2>1, <2>2, <4>1, AnsweredStays DEF Filed, Own
    <3> QED
      BY <3>1, <3>2
  <2> QED
    BY <1>0, <2>1, <2>2 DEF Filed
<1> QED
  BY <1>3, <1>4

LEMMA FiledOwn == ASSUME Base, Filed, Own PROVE Filed'
<1> USE DEF Base, Shapes
<1>0. run.state = "Waiting" => call.pc # "escaped"
  BY DEF Positions
<1>1. CASE \/ SaveProject \/ RequestRun \/ RequestResume \/ ShutDown
           \/ RecoverRun \/ RecoverCheckpoints \/ RecoverTickets
  <2>1. UNCHANGED <<approvals, waiting, worker>>
    BY <1>1 DEF SaveProject, RequestRun, RequestResume, ShutDown, RecoverRun,
       RecoverCheckpoints, RecoverTickets
  <2> QED
    BY <2>1, FiledQuietly
<1>2. ASSUME NEW x, StopExecuting(x) \/ RequestApproval(x) PROVE Filed'
  <2>1. UNCHANGED <<approvals, waiting, worker>>
    BY <1>2 DEF StopExecuting, RequestApproval, hostVars
  <2> QED
    BY <2>1, FiledQuietly
<1>3. CASE TakeRun
  <2>1. /\ UNCHANGED <<approvals, waiting>> /\ worker.pc = "idle"
        /\ worker' = worker \/ worker' = [Resting EXCEPT !.pc = "preparing", !.item = Head(queue)]
    BY <1>3 DEF TakeRun
  <2>2. worker' = worker \/ worker'.pc = "preparing"
    BY <2>1, RestingRests
  <2> QED
    BY <2>1, <2>2, FiledQuietly
<1>4. CASE Skipped
  <2>1. UNCHANGED <<approvals, waiting, worker>>
    BY <1>4 DEF Skipped, TakeDecision
  <2> QED
    BY <2>1, FiledQuietly
<1>5. ASSUME NEW cause, NotPrepared(cause) PROVE Filed'
  <2>1. /\ UNCHANGED <<approvals, waiting>> /\ worker.pc = "preparing"
        /\ worker' = [worker EXCEPT !.pc = "catch", !.seen = cause]
    BY <1>5 DEF NotPrepared
  <2>2. worker'.pc = "catch"
    BY <2>1 DEF Memory
  <2> QED
    BY <2>1, <2>2, FiledQuietly
<1>6. CASE Escaped \/ DecisionEscaped
  <2>1. /\ UNCHANGED <<approvals, waiting>> /\ run' = run /\ call.pc = "escaped"
    BY <1>6 DEF Escaped, DecisionEscaped, vars, At
  <2>2. worker'.pc \in {"catch", "idle"}
    BY <1>6, RestingRests DEF Escaped, DecisionEscaped, Memory
  <2> QED
    BY <1>0, <2>1, <2>2, FiledQuietly
<1>7. CASE Returned
  <2>1. /\ UNCHANGED <<approvals, waiting>> /\ run' = run
        /\ worker' = [worker EXCEPT !.pc = "file", !.seen = run.state, !.item.request = run.request]
        /\ worker.item \in Items
    BY <1>7 DEF Returned, vars, Memory
  <2>2. worker'.pc = "file" /\ worker'.seen = run.state /\ worker'.item.request = run.request
    BY <2>1 DEF Memory, Items
  <2> QED
    BY <2>1, <2>2 DEF Filed
<1>8. CASE FileApproval
  BY <1>8, FiledAnew
<1>9. CASE FileTicket
  <2>1. /\ UNCHANGED <<approvals, waiting>> /\ run' = run /\ worker'.pc = "idle"
        /\ worker.pc = "ticket" \/ (worker.pc = "file" /\ worker.seen # "Waiting")
    BY <1>9, RestingRests DEF FileTicket, vars
  <2>2. worker.pc \notin {"calling", "file"} \/ run'.state # "Waiting"
    BY <2>1 DEF Filed
  <2> QED
    BY <2>1, <2>2, FiledQuietly
<1>10. CASE CatchException
  <2>1. UNCHANGED <<approvals, waiting>> /\ worker'.pc = "idle" /\ worker.pc = "catch"
    BY <1>10, RestingRests DEF CatchException
  <2> QED
    BY <2>1, FiledQuietly
<1>11. CASE DecisionReturned
  BY <1>11, FiledDecision
<1>12. CASE CancelStored
  <2>1. CASE run.state = "None"
    <3>1. UNCHANGED <<approvals, waiting, worker>>
      BY <1>12, <2>1 DEF CancelStored
    <3> QED
      BY <3>1, FiledQuietly
  <2>2. CASE run.state # "None"
    <3>1. /\ approvals' = Closed("Cancelled") /\ worker' = worker
          /\ run' = [run EXCEPT !.state = "Cancelled", !.request = 0, !.failure = "CANCELLED"]
      BY <1>12, <2>2 DEF CancelStored
    <3>2. run'.state # "Waiting"
      BY <3>1 DEF Calls, Kept
    <3> QED
      BY <3>1, <3>2, FiledClosed
  <2> QED
    BY <2>1, <2>2
<1>13. CASE RecoverApprovals
  <2>1. /\ approvals' = Closed("Interrupted") /\ worker' = worker /\ run' = run
        /\ host.at = "approvals"
    BY <1>13 DEF RecoverApprovals, RecoveryStep, vars
  <2>2. run'.state # "Waiting"
    BY <2>1 DEF Attended, Active
  <2> QED
    BY <2>1, <2>2, FiledClosed
<1>14. CASE Restart
  <2>1. approvals' = approvals /\ waiting' = FALSE /\ worker'.pc = "idle"
    BY <1>14, RestingRests DEF Restart
  <2> QED
    BY <2>1, AnsweredStays DEF Filed
<1> QED
  BY <1>1, <1>2, <1>3, <1>4, <1>5, <1>6, <1>7, <1>8, <1>9, <1>10, <1>11, <1>12, <1>13, <1>14
     DEF Own, Recover

LEMMA FiledNext ==
    ASSUME Base, Filed, (Coordinate \/ Prepared \/ Submitted) /\ Next
    PROVE  Filed'
<1> USE DEF Base, Shapes
<1>1. approvals' = approvals /\ waiting' = waiting
  BY DEF Coordinate, Prepared, Submitted
<1>2. LastWaiting' = LastWaiting
  BY <1>1 DEF LastWaiting
<1>3. \A k \in DOMAIN approvals' :
          /\ approvals'[k].status = "Approved" => Answered(run', approvals'[k].request, "Succeeded")
          /\ approvals'[k].status = "Rejected" => Answered(run', approvals'[k].request, "Failed")
  BY <1>1, AnsweredStays DEF Filed
<1>4. CASE Coordinate
  <2>1. worker' = worker /\ worker.pc = "calling"
    BY <1>4 DEF Coordinate
  <2>2. Answer(worker.item.approved) # "Waiting"
    BY DEF Answer
  <2> QED
    BY <1>1, <1>2, <1>3, <2>1, <2>2, AnsweredStays DEF Filed, Executing
<1>5. CASE Prepared
  <2>1. worker' = [worker EXCEPT !.pc = "calling", !.profile = profile] /\ worker.pc = "preparing"
    BY <1>5 DEF Prepared
  <2>2. worker'.pc = "calling" /\ worker'.item = worker.item
    BY <2>1 DEF Memory
  <2>3. Executing'
    BY <2>1, <2>2 DEF Executing, Attended
  <2> QED
    BY <1>3, <2>2, <2>3 DEF Filed
<1>6. CASE Submitted
  <2> DEFINE item == Head(queue)
  <2>1. item \in Items
    BY <1>6, HeadOfItems DEF Submitted, Memory
  <2>2. /\ worker' = [Resting EXCEPT !.pc = "calling", !.item = item, !.profile = ticket.profile]
        /\ worker.pc = "idle" /\ waiting /\ run.state = "Waiting" /\ run.request = item.request
        /\ SubmitHuman(item.request, item.approved)
    BY <1>6 DEF Submitted
  <2>3. item.approved \in BOOLEAN
    BY <2>1 DEF Items
  <2> HIDE DEF item
  <2>4. worker'.pc = "calling" /\ worker'.item = item
    BY ONLY <2>2 DEF Resting
  <2>5. Answered(run', item.request, Answer(item.approved))
    BY <2>2, <2>3, DecisionAnswers
  <2>6. \A k \in LastWaiting' : approvals'[k].request = item.request
    BY <1>1, <1>2, <2>2 DEF Filed
  <2> QED
    BY <1>3, <2>4, <2>5, <2>6 DEF Filed
<1> QED
  BY <1>4, <1>5, <1>6

\* No two executions have the same number.
LEMMA NumbersDiffer ==
    ASSUME Calls, NEW i \in HumanOf(run), NEW j \in HumanOf(run), i < j
    PROVE  Cardinality(Through(run, i)) # Cardinality(Through(run, j))
<1>0. IsFiniteSet({k \in DOMAIN run.execs : run.execs[k].node = "human"})
      /\ DOMAIN run.execs \subseteq Nat
  <2>1. Numbered(run)
    BY DEF Calls, Kept
  <2>2. \A node : IsFiniteSet({k \in DOMAIN run.execs : run.execs[k].node = node})
    BY <2>1, HumanAttemptsAreFinite
  <2>3. DOMAIN run.execs \subseteq Nat
    BY <2>1 DEF Numbered
  <2> QED
    BY <2>2, <2>3
<1>1. IsFiniteSet(HumanOf(run)) /\ i \in Nat /\ j \in Nat
  BY ONLY <1>0, i \in HumanOf(run), j \in HumanOf(run) DEF HumanOf
<1>2. Through(run, j) \in SUBSET HumanOf(run) /\ Through(run, i) \in SUBSET Through(run, j)
  <2>1. HumanOf(run) \subseteq Nat
    BY HumanAttemptsAreFinite DEF Calls, Kept, HumanOf
  <2> QED
    BY <1>1, <2>1 DEF Through
<1>3. IsFiniteSet(Through(run, j))
  BY <1>1, <1>2, FS_Subset
<1>4. j \in Through(run, j) /\ j \notin Through(run, i)
  BY <1>1 DEF Through
<1> QED
  BY <1>2, <1>3, <1>4, FS_Subset

\* The approval history says what the run did, however late a cancel, a stop or a restart
\* falls between the coordinator's return and the writes that use its copy (ProcessAsync).
THEOREM HistoryIsTrue == HostSpec => []DecisionsRecorded
<1>1. HostInit => Base /\ Filed
  <2> SUFFICES ASSUME HostInit PROVE Filed
    BY BaseInit
  <2>1. approvals = <<>> /\ worker.pc = "idle" /\ ~waiting
    BY RestingRests DEF HostInit
  <2> QED
    BY <2>1 DEF Filed
<1>2. Base /\ Filed /\ [HostNext]_allVars => (Base /\ Filed)'
  <2> SUFFICES ASSUME Base, Filed, [HostNext]_allVars PROVE Filed'
    BY BaseStep
  <2>1. CASE UNCHANGED allVars
    <3>1. UNCHANGED <<run, approvals, waiting, worker>>
      BY <2>1 DEF allVars, vars, hostVars
    <3> QED
      BY <3>1 DEF Filed, LastWaiting, Executing
  <2> QED
    BY <2>1, Stepped, FiledOwn, FiledNext
<1>3. Base /\ Filed => DecisionsRecorded
  <2> SUFFICES ASSUME Base, Filed, NEW n, NEW outcome, Answered(run, n, outcome)
               PROVE  run.execs[AttemptOf(n)].outcome = outcome
    BY DEF DecisionsRecorded, Filed
  <2>1. PICK i \in HumanOf(run) : Cardinality(Through(run, i)) = n /\ run.execs[i].outcome = outcome
    BY DEF Answered
  <2>2. \A j \in HumanOf(run) : Cardinality(Through(run, j)) = n => j = i
    <3>1. HumanOf(run) \subseteq Nat
      BY HumanAttemptsAreFinite DEF Base, Shapes, Calls, Kept, HumanOf
    <3> QED
      BY <2>1, <3>1, NumbersDiffer DEF Base, Shapes
  <2>3. AttemptOf(n) = CHOOSE j \in HumanOf(run) : Cardinality(Through(run, j)) = n
    BY DEF AttemptOf, HumanAttempts, HumanOf, Through
  <2> QED
    BY <2>1, <2>2, <2>3
<1> QED
  BY <1>1, <1>2, <1>3, PTL DEF HostSpec

(***************************************************************************)
(* While the host is up somebody drives what claims to run, and while it   *)
(* runs the worker or the queue holds what claims to be held.              *)
(***************************************************************************)
Driven ==
    Up => /\ run.state = "Created" => call.pc = "created"
          /\ run.state = "Running" => call.pc \notin {"idle", "caught"}
          /\ call.pc # "escaped"
          /\ worker.pc = "calling" /\ worker.item.kind = "decision" => Live
          /\ call.pc = "approved" => worker.item.kind = "decision"

Asked == \E k \in DOMAIN queue : queue[k].kind # "decision"

Held ==
    host.at \in {"up", "stopping"} =>
        /\ ticket.state = "Running" => Executing
        /\ ticket.state = "Queued" => Asked

\* An approved run goes on: its workflow leads on from "human", and where it ends there, the
\* evidence is complete.
LEMMA ApprovalIsFollowed ==
    ASSUME Proven, Catalogued, call.pc = "approved"
    PROVE  /\ HasNext(def, run.node)
           /\ NextNode(def, run.node) = Complete => ConditionsMet(run)
<1> USE DEF Proven, Base, Shapes
<1> DEFINE n == Len(def.required)
<1>1. /\ run.node = "human" /\ OfNode(run) /\ LastOutcome(run) = "Succeeded"
      /\ def \in Flows /\ run.node \in def.nodes
  BY DEF Questioned, Evidenced, Clear, Known
<1>2. /\ Valid(def) /\ InOrder(def) /\ DOMAIN def.required = 1..n /\ n \in Nat \ {0}
      /\ \A i, j \in 1..n : def.required[i] = def.required[j] => i = j
  BY RequiredStands DEF Catalogued
<1>3. PICK h \in 1..n : run.node = def.required[h]
  BY <1>1, TestStands
<1>4. HasNext(def, run.node)
  <2> DEFINE r == [from |-> def.required[h], outcome |-> "Succeeded",
                   target |-> IF h < n THEN def.required[h + 1] ELSE Complete]
  <2>1. r \in Successors(def.required)
    BY <1>2 DEF Successors
  <2>2. r \in def.routes
    BY <1>2, <2>1 DEF InOrder
  <2>3. r.from = run.node /\ r.outcome = "Succeeded"
    BY <1>3
  <2> HIDE DEF r
  <2> QED
    BY <2>2, <2>3 DEF HasNext
<1>5. ASSUME NextNode(def, run.node) = Complete PROVE ConditionsMet(run)
  <2>1. h = n
    <3>1. PICK i \in 1..n : run.node = def.required[i]
              /\ (NextNode(def, run.node) = Complete => i = n)
      BY <1>2, <1>4, SuccessLeadsOn
    <3> QED
      BY <1>2, <1>3, <1>5, <3>1
  <2>2. Evident(run, n - 1)
    BY <1>2, <1>3, <2>1 DEF Evidenced
  <2>3. n > 1 => def.required[n - 1] # def.required[n]
    <3>1. n > 1 => n - 1 \in 1..n /\ n \in 1..n /\ n - 1 # n
      BY <1>2
    <3> QED
      BY <1>2, <3>1
  <2>4. run.execs \in Seq(Elements(run.execs))
    BY DEF Calls, Kept, Numbered
  <2>5. Evident(run, n)
    <3>1. run.node = def.required[n]
      BY <1>3, <2>1
    <3> HIDE DEF n
    <3> QED
      BY <1>1, <1>2, <2>2, <2>3, <2>4, <3>1, EvidentNext
  <2>6. DOMAIN run.execs \subseteq Nat \ {0}
    BY <2>4
  <2>7. ASSUME NEW i \in 1..n
        PROVE  /\ LastOf(run, def.required[i]) # 0
               /\ run.execs[LastOf(run, def.required[i])].outcome = "Succeeded"
    <3>1. PICK m \in DOMAIN run.execs :
              IsLast(run, def.required[i], m) /\ run.execs[m].outcome = "Succeeded"
      BY <2>5 DEF Evident
    <3>2. LastOf(run, def.required[i]) = m
      BY <2>6, <3>1, LastIsLast
    <3> QED
      BY <2>6, <3>1, <3>2
  <2> QED
    BY <1>2, <2>7 DEF ConditionsMet, Elements
<1> QED
  BY <1>4, <1>5

\* A step of a call neither loses a run on the way nor the exception that ends it.
LEMMA DrivenCoordinate ==
    ASSUME Faults = FALSE, Catalogued, Proven, Driven, Coordinate
    PROVE  Driven'
<1> USE DEF Proven, Base, Shapes, Calls
<1>0. worker' = worker /\ host' = host /\ worker.pc = "calling"
  BY DEF Coordinate
<1> SUFFICES ASSUME Up PROVE Driven'
  BY <1>0 DEF Driven, Up
<1> USE DEF At, Goto
<1> DEFINE Goal == /\ run'.state = "Created" => call'.pc = "created"
                   /\ run'.state = "Running" => call'.pc \notin {"idle", "caught"}
                   /\ call'.pc \notin {"escaped", "approved"}
                   /\ call'.token = call.token \/ call' = Idle
<1>00. Goal => Driven'
  <2>1. ASSUME call'.token = call.token \/ call' = Idle, Live PROVE Live'
    <3>1. Idle.token = "live"
      BY DEF Idle
    <3>2. call'.token = "live"
      BY <2>1, <3>1 DEF Live
    <3> QED
      BY <3>2 DEF Live
  <2>2. worker.item.kind = "decision" => Live
    BY <1>0 DEF Driven
  <2> QED
    BY <1>0, <2>1, <2>2 DEF Driven
<1> SUFFICES Goal
  BY <1>00
<1>1. ~EngineStops /\ ~Fault /\ ~Escape
  BY DEF EngineStops, Fault, Escape
<1>2. /\ run.state = "Created" => call.pc = "created"
      /\ run.state = "Running" => call.pc \notin {"idle", "caught"}
      /\ call.pc \in Driving => run.state = "Running"
      /\ call.pc # "escaped"
  BY DEF Driven, Positions
<1>3. CASE Started \/ Launch \/ Execute \/ Settle \/ SettleRefused
  BY <1>2, <1>3 DEF Started, Launch, Execute, Settle, SettleRefused, Kept, Driving
<1>4. CASE NodeTimeout \/ NodeStopped \/ HandlerReturns
  <2>1. PICK outcome : Record(outcome)
    BY <1>4 DEF HandlerReturns, NodeTimeout, NodeStopped
  <2>2. run'.state = run.state /\ call' = [call EXCEPT !.pc = "settled"] /\ call.pc = "executing"
    BY <2>1 DEF Record, Append1, Kept
  <2> QED
    BY <1>2, <2>2 DEF Kept
<1>5. CASE Wait \/ Retry \/ ReworkNotAllowed \/ ReworkBudgetExhausted \/ NextDispatch
  BY <1>2, <1>5 DEF Wait, Retry, ReworkNotAllowed, ReworkBudgetExhausted, NextDispatch, Routing,
     Kept, Driving
<1>6. CASE NodeFails
  BY <1>2, <1>6, Ended DEF NodeFails, Routing, Kept, Driving
<1>7. CASE Rework \/ AdvanceNode \/ CompleteRun
  BY <1>2, <1>7 DEF Rework, AdvanceNode, CompleteRun, Routing, Advancing, Kept, Driving
<1>8. CASE AdvanceRefused
  <2>1. call.pc # "approved"
    <3> SUFFICES ASSUME call.pc = "approved" PROVE FALSE
      OBVIOUS
    <3>1. Live
      BY <1>0 DEF Driven
    <3> QED
      BY <1>8, <3>1, ApprovalIsFollowed DEF AdvanceRefused
  <2> QED
    BY <1>2, <1>8, <2>1 DEF AdvanceRefused, AdvanceThrows, Advancing, Routing, Kept, Driving
<1>9. CASE Return \/ CaughtReturn
  BY <1>2, <1>9, IdleIsIdle DEF Return, CaughtReturn
<1>10. CASE StoppedEarly \/ Cancelled
  BY <1>2, <1>10 DEF StoppedEarly, Cancelled, InDrive, Kept
<1>11. CASE CatchStop \/ CatchError
  <2>1. call.pc = "threw"
    BY <1>11 DEF CatchStop, CatchError
  <2>2. \/ run' = run /\ call'.pc \in {"threw", "idle"} /\ run.state # "Running"
        \/ call'.pc = "caught" /\ run'.state \in {"Paused", "Cancelled", "Failed"}
    <3>1. CASE CatchError
      BY <3>1 DEF CatchError, Kept
    <3>2. CASE CatchStop /\ Settled(run)
      BY <3>2, IdleIsIdle DEF CatchStop, Settled
    <3>3. CASE CatchStop /\ ~Settled(run)
      <4>1. call'.pc = "caught"
        BY <3>3 DEF CatchStop, Kept
      <4> QED
        BY <2>1, <4>1, EndsFollow DEF Ends
    <3> QED
      BY <1>11, <3>1, <3>2, <3>3
  <2>3. call'.token = call.token \/ call' = Idle
    BY <1>11 DEF CatchStop, CatchError, Kept
  <2> QED
    BY <1>2, <2>1, <2>2, <2>3
<1> QED
  BY <1>1, <1>3, <1>4, <1>5, <1>6, <1>7, <1>8, <1>9, <1>10, <1>11 DEF Coordinate, Engine

LEMMA DrivenCalled == ASSUME Base, Driven, Prepared \/ Submitted PROVE Driven'
<1> USE DEF Base, Shapes, Calls, At, Goto
<1>1. CASE Prepared
  <2>1. worker.item.kind \in {"run", "resume"} /\ worker'.item = worker.item
    BY <1>1 DEF Prepared, Memory, Items, Attended
  <2>2. Start \/ Resume
    BY <1>1, <2>1 DEF Prepared
  <2>3. /\ run'.state = "Created" => call'.pc = "created"
        /\ call'.pc \in {"created", "launch"}
    BY <2>2 DEF Start, Resume, NoRun, Kept
  <2> QED
    BY <2>1, <2>3 DEF Driven
<1>2. CASE Submitted
  <2> DEFINE item == Head(queue)
  <2>1. /\ worker' = [Resting EXCEPT !.pc = "calling", !.item = item, !.profile = ticket.profile]
        /\ SubmitHuman(item.request, item.approved) /\ item.kind = "decision"
    BY <1>2 DEF Submitted
  <2> HIDE DEF item
  <2>2. worker'.item = item
    BY ONLY <2>1 DEF Resting
  <2>3. /\ call'.pc \in {"approved", "caught"} /\ call'.token = call.token /\ call.token = "live"
        /\ run'.state = (IF item.approved THEN "Running" ELSE "Failed")
        /\ call'.pc = "caught" => ~item.approved
    BY <2>1 DEF SubmitHuman, Kept, Live
  <2>4. Live'
    BY <2>3 DEF Live
  <2> QED
    BY <2>1, <2>2, <2>3, <2>4 DEF Driven
<1> QED
  BY <1>1, <1>2

\* What the host does itself takes no run from the call that drives it.
LEMMA DrivenOwn == ASSUME Base, Driven, Own PROVE Driven'
<1> USE DEF Base, Shapes, Calls
<1> DEFINE Same == /\ run'.state = run.state \/ run'.state \in {"Paused", "Blocked", "Cancelled"}
                   /\ call'.pc = call.pc
           Steady == call'.token = call.token /\ worker'.item.kind = worker.item.kind
                     /\ (worker'.pc = "calling" => worker.pc = "calling")
<1>1. ASSUME Up' => Up /\ Same /\ (Steady \/ (worker'.pc # "calling" /\ call'.pc # "approved"))
      PROVE  Driven'
  <2>1. Live <=> call.token = "live"
    BY DEF Live
  <2>2. Live' <=> call'.token = "live"
    BY DEF Live
  <2> QED
    BY <1>1, <2>1, <2>2 DEF Driven
<1>2. CASE \/ SaveProject \/ RequestRun \/ RequestResume \/ CancelStored \/ Skipped
  <2>1. call' = call /\ worker' = worker /\ host' = host
    BY <1>2 DEF SaveProject, RequestRun, RequestResume, CancelStored, Skipped, TakeDecision, vars
  <2>2. run'.state = run.state \/ run'.state = "Cancelled"
    BY <1>2 DEF SaveProject, RequestRun, RequestResume, Retested, CancelStored, Skipped, vars, Kept
  <2>3. (Up' => Up) /\ Same /\ Steady
    BY <2>1, <2>2 DEF Up
  <2> HIDE DEF Same, Steady
  <2>4. Up' => Up /\ Same /\ (Steady \/ (worker'.pc # "calling" /\ call'.pc # "approved"))
    BY ONLY <2>3
  <2> QED
    BY ONLY <1>1, <2>4
<1>3. ASSUME NEW x, RequestApproval(x) PROVE Driven'
  <2>1. call' = call /\ worker' = worker /\ host' = host /\ run' = run
    BY <1>3 DEF RequestApproval, vars
  <2>2. (Up' => Up) /\ Same /\ Steady
    BY <2>1 DEF Up
  <2> HIDE DEF Same, Steady
  <2>3. Up' => Up /\ Same /\ (Steady \/ (worker'.pc # "calling" /\ call'.pc # "approved"))
    BY ONLY <2>2
  <2> QED
    BY ONLY <1>1, <2>3
<1>4. ASSUME NEW pause, StopExecuting(pause) PROVE Driven'
  <2>1. worker' = worker /\ host' = host /\ run' = run /\ call'.pc = call.pc
    BY <1>4 DEF StopExecuting, hostVars, Kept
  <2>2. worker.item.kind # "decision"
    BY <1>4 DEF StopExecuting, Executing
  <2> QED
    BY <2>1, <2>2 DEF Driven, Up
<1>5. ASSUME NEW cause, NotPrepared(cause) PROVE Driven'
  <2>1. /\ call' = call /\ host' = host /\ run' = run /\ worker.pc = "preparing"
        /\ worker' = [worker EXCEPT !.pc = "catch", !.seen = cause]
    BY <1>5 DEF NotPrepared, vars
  <2>2. worker'.pc = "catch" /\ call.pc = "idle"
    BY <2>1 DEF Memory, Attended
  <2> QED
    BY <1>1, <2>1, <2>2 DEF Up
<1>6. CASE Escaped \/ DecisionEscaped
  <2>1. host' = host /\ call.pc = "escaped"
    BY <1>6 DEF Escaped, DecisionEscaped, At
  <2>2. ~Up'
    BY <2>1 DEF Driven, Up
  <2> QED
    BY <2>2 DEF Driven
<1>7. CASE Returned \/ FileApproval \/ FileTicket
  <2>1. call' = call /\ host' = host /\ run' = run
    BY <1>7 DEF Returned, FileApproval, FileTicket, vars
  <2>2. worker'.pc \in {"file", "ticket", "idle"}
    BY <1>7, RestingRests DEF Returned, FileApproval, FileTicket, Memory
  <2>3. call.pc = "idle"
    BY <1>7 DEF Returned, FileApproval, FileTicket, At, Attended
  <2> QED
    BY <1>1, <2>1, <2>2, <2>3 DEF Up
<1>8. CASE TakeRun
  <2>1. host' = host /\ run' = run /\ worker.pc = "idle"
    BY <1>8 DEF TakeRun
  <2>2. call.pc = "idle" /\ call'.pc = "idle"
    BY <1>8, <2>1, IdleIsIdle DEF TakeRun, Attended
  <2>3. worker'.pc \in {"idle", "preparing"}
    BY <1>8, <2>1, RestingRests DEF TakeRun
  <2> QED
    BY <1>1, <2>1, <2>2, <2>3 DEF Up
<1>9. CASE DecisionReturned
  <2>1. call' = call /\ host' = host /\ call.pc = "idle" /\ worker'.pc = "idle"
    BY <1>9, RestingRests DEF DecisionReturned, At
  <2>2. run'.state = run.state \/ run'.state = "Blocked"
    BY <1>9 DEF DecisionReturned, Kept
  <2> QED
    BY <1>1, <2>1, <2>2 DEF Up
<1>10. CASE CatchException
  <2>1. host' = host /\ call'.pc = "idle" /\ worker'.pc = "idle"
    BY <1>10, IdleIsIdle, RestingRests DEF CatchException
  <2>2. run'.state \in {"Completed", "Paused", "Blocked", "Cancelled"}
    <3>1. CASE run.state = "Completed"
      <4>1. run # NoRun
        BY <3>1, NoRunIs
      <4> QED
        BY <1>10, <3>1, <4>1 DEF CatchException
    <3>2. CASE run.state # "Completed"
      <4>1. PICK s \in {"Paused", "Blocked", "Cancelled"} :
                \/ run' = [NoRun EXCEPT !.state = s, !.node = def.entry, !.failure = worker.seen]
                \/ run' = [run EXCEPT !.state = s, !.failure = worker.seen]
        BY <1>10, <3>2 DEF CatchException, CaughtState
      <4>2. CASE run' = [NoRun EXCEPT !.state = s, !.node = def.entry, !.failure = worker.seen]
        BY ONLY <4>1, <4>2 DEF NoRun
      <4>3. CASE run' = [run EXCEPT !.state = s, !.failure = worker.seen]
        BY <4>3 DEF Kept
      <4> QED
        BY <4>1, <4>2, <4>3
    <3> QED
      BY <3>1, <3>2
  <2> QED
    BY <2>1, <2>2 DEF Driven
<1>11. CASE ShutDown \/ Restart \/ RecoverRun \/ RecoverApprovals \/ RecoverCheckpoints
  <2>1. host'.at \in {"stopping", "runs", "approvals", "checkpoints", "tickets"}
    BY <1>11 DEF ShutDown, Restart, RecoverRun, RecoverApprovals, RecoverCheckpoints,
       RecoveryStep, Tables
  <2> QED
    BY <2>1 DEF Driven, Up
<1>12. CASE RecoverTickets
  <2>1. host.at = "tickets" /\ UNCHANGED <<run, call, worker>>
    BY <1>12 DEF RecoverTickets, RecoveryStep, vars
  <2>2. run.state \notin {"Created", "Running"} /\ worker.pc = "idle" /\ call.pc = "idle"
    BY <2>1 DEF Attended, Active
  <2> QED
    BY <2>1, <2>2 DEF Driven
<1> QED
  BY <1>2, <1>3, <1>4, <1>5, <1>6, <1>7, <1>8, <1>9, <1>10, <1>11, <1>12 DEF Own, Recover

\* Behind a decision the queue holds what it held.
LEMMA AskedBehind ==
    ASSUME Memory, queue # <<>>, Head(queue).kind = "decision", queue' = Tail(queue), Asked
    PROVE  Asked'
<1>0. queue \in Seq(Items)
  BY DEF Memory
<1>1. queue \in Seq(Items) /\ DOMAIN queue = 1..Len(queue)
  BY ONLY <1>0
<1>2. PICK k \in DOMAIN queue : queue[k].kind # "decision"
  BY DEF Asked
<1>3. /\ Len(queue) \in Nat /\ queue[1] = Head(queue) /\ Tail(queue) \in Seq(Items)
      /\ Len(Tail(queue)) = Len(queue) - 1
      /\ \A i \in 1..(Len(queue) - 1) : Tail(queue)[i] = queue[i + 1]
  BY <1>1, HeadOfItems
<1>4. k # 1 /\ k \in Nat
  BY <1>1, <1>2, <1>3
<1>5. k - 1 \in 1..(Len(queue) - 1) /\ (k - 1) + 1 = k
  BY <1>1, <1>3, <1>4
<1>6. k - 1 \in DOMAIN queue' /\ queue'[k - 1] = queue[k]
  BY <1>3, <1>5
<1> QED
  BY <1>2, <1>6 DEF Asked

\* What is queued or running is held, whatever the coordinator does.
LEMMA HeldCalled ==
    ASSUME Base, Held, Coordinate \/ Prepared \/ Submitted
    PROVE  Held'
<1> USE DEF Base, Shapes
<1>1. ticket' = ticket /\ host' = host
  BY DEF Coordinate, Prepared, Submitted
<1>2. CASE Coordinate
  <2>1. worker' = worker /\ queue' = queue
    BY <1>2 DEF Coordinate
  <2> QED
    BY <1>1, <2>1 DEF Held, Executing, Asked
<1>3. CASE Prepared
  <2>1. /\ queue' = queue /\ worker.pc = "preparing"
        /\ worker' = [worker EXCEPT !.pc = "calling", !.profile = profile]
    BY <1>3 DEF Prepared
  <2>2. worker'.pc = "calling" /\ worker'.item = worker.item
    BY <2>1 DEF Memory
  <2> QED
    BY <1>1, <2>1, <2>2 DEF Held, Executing, Asked
<1>4. CASE Submitted
  <2>1. worker.pc = "idle" /\ queue' = Tail(queue) /\ queue # <<>> /\ Head(queue).kind = "decision"
    BY <1>4 DEF Submitted
  <2>2. Asked => Asked'
    BY <2>1, AskedBehind
  <2> QED
    BY <1>1, <2>1, <2>2 DEF Held, Executing
<1> QED
  BY <1>2, <1>3, <1>4

LEMMA HeldOwn == ASSUME Base, Held, Own PROVE Held'
<1> USE DEF Base, Shapes
<1>1. ASSUME \/ ticket'.state = ticket.state
             \/ ticket'.state \notin {"Queued", "Running"},
             host'.at \in {"up", "stopping"} => host.at \in {"up", "stopping"},
             Executing /\ ticket'.state = "Running" => Executing',
             Asked => Asked'
      PROVE  Held'
  BY <1>1 DEF Held
<1>2. CASE SaveProject \/ ShutDown
  <2>1. ticket' = ticket /\ worker' = worker /\ queue' = queue
    BY <1>2 DEF SaveProject, ShutDown
  <2>2. host.at \in {"up", "stopping"}
    BY <1>2 DEF SaveProject, ShutDown, Up
  <2> QED
    BY <1>1, <2>1, <2>2 DEF Executing, Asked
<1>3. CASE RequestRun \/ RequestResume
  <2>1. PICK kind \in {"run", "resume"} : queue' = Append(queue, RunItem(kind))
    BY <1>3 DEF RequestRun, RequestResume
  <2>2. RunItem(kind) \in Items /\ RunItem(kind).kind # "decision"
    BY ONLY kind \in {"run", "resume"} DEF RunItem, Items
  <2>3. Asked'
    <3> DEFINE item == RunItem(kind)
    <3>1. item \in Items /\ queue \in Seq(Items)
      BY <2>2 DEF Memory
    <3> HIDE DEF item
    <3>2. Append(queue, item)[Len(queue) + 1] = item /\ Len(queue) \in Nat
          /\ DOMAIN Append(queue, item) = 1..(Len(queue) + 1)
      BY ONLY <3>1, ItemAppended
    <3>3. Len(queue) + 1 \in DOMAIN Append(queue, item)
      BY <3>2
    <3> USE DEF item
    <3> QED
      BY <2>1, <2>2, <3>2, <3>3 DEF Asked
  <2>4. ticket'.state = "Queued"
    BY <1>3, TicketStates
  <2> QED
    BY <2>3, <2>4 DEF Held
<1>4. CASE CancelStored
  <2>1. /\ ticket' = [ticket EXCEPT !.state = "Cancelled"]
        /\ worker' = worker /\ queue' = queue /\ host' = host
    BY <1>4 DEF CancelStored
  <2>2. ticket'.state = "Cancelled"
    BY <2>1 DEF Tables
  <2> QED
    BY <2>2 DEF Held
<1>5. ASSUME NEW x, StopExecuting(x) PROVE Held'
  <2>1. ticket' = ticket /\ worker' = worker /\ queue' = queue /\ host' = host
    BY <1>5 DEF StopExecuting, hostVars
  <2> QED
    BY <1>1, <2>1 DEF Executing, Asked
<1>6. ASSUME NEW approved \in BOOLEAN, RequestApproval(approved) PROVE Held'
  <2>1. /\ ticket' = ticket /\ worker' = worker /\ host' = host
        /\ queue' = Append(queue, Decision(run.request, approved))
    BY <1>6 DEF RequestApproval
  <2>2. Decision(run.request, approved) \in Items
    BY DEF Decision, Items, Calls
  <2>3. Asked => Asked'
    <3> DEFINE item == Decision(run.request, approved)
    <3>1. item \in Items /\ queue \in Seq(Items) /\ queue' = Append(queue, item)
      BY <2>1, <2>2 DEF Memory
    <3> HIDE DEF item
    <3>2. /\ DOMAIN queue = 1..Len(queue) /\ DOMAIN queue' = 1..(Len(queue) + 1)
          /\ Len(queue) \in Nat /\ \A k \in 1..Len(queue) : queue'[k] = queue[k]
      BY ONLY <3>1, ItemAppended
    <3>3. \A k \in DOMAIN queue : k \in DOMAIN queue' /\ queue'[k] = queue[k]
      BY <3>2
    <3> QED
      BY <3>3 DEF Asked
  <2> QED
    BY <1>1, <2>1, <2>3 DEF Executing
<1>7. CASE TakeRun
  <2>1. CASE ticket.state = "Queued"
    <3>1. /\ ticket' = [ticket EXCEPT !.state = "Running"]
          /\ worker' = [Resting EXCEPT !.pc = "preparing", !.item = Head(queue)]
          /\ Head(queue).kind # "decision"
      BY <1>7, <2>1 DEF TakeRun
    <3>2. ticket'.state = "Running"
      BY <3>1 DEF Tables
    <3>3. worker'.pc = "preparing" /\ worker'.item = Head(queue)
      BY <3>1, RestingRests
    <3> QED
      BY <3>1, <3>2, <3>3 DEF Held, Executing
  <2>2. CASE ticket.state # "Queued"
    <3>1. ticket' = ticket /\ worker' = worker /\ host' = host
      BY <1>7, <2>2 DEF TakeRun
    <3> QED
      BY <2>2, <3>1 DEF Held, Executing
  <2> QED
    BY <2>1, <2>2
<1>8. CASE Skipped
  <2>1. /\ ticket' = ticket /\ worker' = worker /\ host' = host
        /\ queue' = Tail(queue) /\ queue # <<>> /\ Head(queue).kind = "decision"
    BY <1>8 DEF Skipped, TakeDecision
  <2>2. Asked => Asked'
    BY <2>1, AskedBehind
  <2> QED
    BY <1>1, <2>1, <2>2 DEF Executing
<1>9. ASSUME NEW cause, NotPrepared(cause) \/ Escaped \/ Returned \/ FileApproval PROVE Held'
  <2>1. ticket' = ticket /\ queue' = queue /\ host' = host
    BY <1>9 DEF NotPrepared, Escaped, Returned, FileApproval
  <2>2. worker'.pc # "idle" /\ worker'.item.kind = worker.item.kind
    <3>1. CASE Returned
      <4>1. /\ worker' = [worker EXCEPT !.pc = "file", !.seen = run.state, !.item.request = run.request]
            /\ worker.item \in Items
        BY <3>1 DEF Returned, Memory
      <4> QED
        BY <4>1 DEF Memory, Items
    <3>2. CASE NotPrepared(cause) \/ Escaped \/ FileApproval
      BY <3>2 DEF NotPrepared, Escaped, FileApproval, Memory
    <3> QED
      BY <1>9, <3>1, <3>2
  <2> QED
    BY <1>1, <2>1, <2>2 DEF Executing, Asked
<1>10. CASE FileTicket \/ CatchException
  <2>1. ticket'.state \in {"Cancelled", "Finished"}
    BY <1>10, TicketStates
  <2> QED
    BY <2>1 DEF Held
<1>11. CASE DecisionReturned \/ DecisionEscaped
  <2>1. ticket' = ticket /\ queue' = queue /\ host' = host /\ ~Executing
    BY <1>11 DEF DecisionReturned, DecisionEscaped
  <2> QED
    BY <1>1, <2>1 DEF Asked
<1>12. CASE Restart \/ RecoverRun \/ RecoverApprovals \/ RecoverCheckpoints
  <2>1. host'.at \in {"runs", "approvals", "checkpoints", "tickets"}
    BY <1>12 DEF Restart, RecoverRun, RecoverApprovals, RecoverCheckpoints, RecoveryStep, Tables
  <2> QED
    BY <2>1 DEF Held
<1>13. CASE RecoverTickets
  <2>1. ticket'.state \notin {"Queued", "Running"}
    <3>1. CASE ticket.state \in {"Queued", "Running"}
      <4>1. ticket' = [ticket EXCEPT !.state = "Interrupted"]
        BY <1>13, <3>1 DEF RecoverTickets
      <4> QED
        BY <4>1 DEF Tables
    <3>2. CASE ticket.state \notin {"Queued", "Running"}
      BY <1>13, <3>2 DEF RecoverTickets
    <3> QED
      BY <3>1, <3>2
  <2> QED
    BY <2>1 DEF Held
<1> QED
  BY <1>2, <1>3, <1>4, <1>5, <1>6, <1>7, <1>8, <1>9, <1>10, <1>11, <1>12, <1>13 DEF Own, Recover

\* While the host is up, what claims to run has somebody who runs it, and a ticket that keeps
\* the project busy is in the worker's hands or in its queue, if neither events nor the engine
\* fail (ProcessAsync, RecoverInterruptedAsync).
THEOREM NothingIsAbandoned ==
    ASSUME Faults = FALSE, Catalogued
    PROVE  HostSpec => []NothingAbandoned
<1>1. HostInit => Proven /\ Driven /\ Held
  <2> SUFFICES ASSUME HostInit PROVE Driven /\ Held
    BY ProvenInit
  <2>1. /\ run = NoRun /\ call = Idle /\ worker = Resting
        /\ ticket = [state |-> "None", profile |-> 1, born |-> 0]
    BY DEF HostInit, Init
  <2>2. run.state = "None" /\ call.pc = "idle" /\ worker.pc = "idle"
    BY <2>1, NoRunIs, IdleIsIdle, RestingRests
  <2>3. ticket.state = "None"
    BY ONLY <2>1
  <2> QED
    BY <2>2, <2>3 DEF Driven, Held
<1>2. Proven /\ Driven /\ Held /\ [HostNext]_allVars => (Proven /\ Driven /\ Held)'
  <2> SUFFICES ASSUME Proven, Driven, Held, [HostNext]_allVars PROVE Driven' /\ Held'
    BY ProvenStep
  <2>1. CASE UNCHANGED allVars
    <3>1. UNCHANGED <<run, call, ticket, worker, queue, host>>
      BY <2>1 DEF allVars, vars, hostVars
    <3> QED
      BY <3>1 DEF Driven, Held, Up, Live, Executing, Asked
  <2>2. CASE Own
    BY <2>2, DrivenOwn, HeldOwn DEF Proven
  <2>3. CASE Coordinate \/ Prepared \/ Submitted
    BY <2>3, DrivenCoordinate, DrivenCalled, HeldCalled DEF Proven
  <2> QED
    BY <2>1, <2>2, <2>3, Stepped DEF Proven
<1>3. Proven /\ Driven /\ Held => NothingAbandoned
  <2> SUFFICES ASSUME Proven, Driven, Held, Up PROVE NothingAbandoned
    BY DEF NothingAbandoned
  <2>1. worker.pc = "idle" => call.pc = "idle"
    BY DEF Proven, Base, Attended
  <2> QED
    BY <2>1 DEF NothingAbandoned, Driven, Held, Up, Asked
<1> QED
  BY <1>1, <1>2, <1>3, PTL DEF HostSpec
=============================================================================
