-------------------------- MODULE CoordinatorProofs --------------------------
(***************************************************************************)
(* Proofs about WorkflowCoordinator, for every definition, number of calls *)
(* and place where a stop, a deadline or an exception falls.               *)
(***************************************************************************)
EXTENDS CoordinatorProperties, FiniteSetTheorems, TLAPS

(***************************************************************************)
(* Where a run can be while a call is at one of its steps.                 *)
(***************************************************************************)
Ends == {"ending", "threw", "idle", "escaped", "caught"}

Placed ==
    /\ run.state = "Completed" => call.pc \in Ends
    /\ life = "Delivered" => run.state = "Completed"
    /\ call.token = "stop" => run.state # "Completed"
    /\ run.state = "Created" => call.pc \in {"created", "escaped"}
    /\ call.pc \in {"idle", "caught"} => run.state # "Running"
    /\ call.pc = "idle" => call = Idle

\* The executions form a sequence, and none belongs to a later call than the current one.
Numbered(r) ==
    /\ r.execs \in Seq(Elements(r.execs))
    /\ r.drive \in Nat
    /\ \A i \in 1..Len(r.execs) :
          /\ r.execs[i] = Execution(r.execs[i].node, r.execs[i].outcome, r.execs[i].drive)
          /\ r.execs[i].drive \in Nat /\ r.execs[i].drive <= r.drive

Kept ==
    /\ Numbered(run)
    /\ run = [f \in {"state", "node", "reworks", "execs", "request", "failure", "drive"} |-> run[f]]
    /\ call = [f \in {"op", "pc", "token", "pause"} |-> call[f]]

\* What is dispatched next did not just fail with an unknown effect.
Clear ==
    /\ call.pc = "created" => run.execs = <<>>
    /\ call.pc = "approved" => LastOutcome(run) = "Succeeded"
    /\ call.pc \in {"launch", "between", "dispatch"} => ~Unclear(run)

IInv == Placed /\ Kept /\ Clear

LEMMA Appended ==
    ASSUME NEW s, s \in Seq(Elements(s)), NEW e
    PROVE  /\ Append(s, e) \in Seq(Elements(Append(s, e)))
           /\ Len(Append(s, e)) = Len(s) + 1
           /\ Append(s, e)[Len(s) + 1] = e
           /\ \A i \in 1..Len(s) : Append(s, e)[i] = s[i]
<1> DEFINE S == Elements(s) \cup {e}
<1>1. s \in Seq(S) /\ e \in S
  OBVIOUS
<1>2. /\ Append(s, e) \in Seq(S) /\ Len(Append(s, e)) = Len(s) + 1
      /\ Append(s, e)[Len(s) + 1] = e
      /\ \A i \in 1..Len(s) : Append(s, e)[i] = s[i]
  BY <1>1
<1> HIDE DEF S
<1> DEFINE t == Append(s, e)
<1>3. t \in Seq(S)
  BY <1>2
<1> HIDE DEF t
<1>4. DOMAIN t = 1..Len(t) /\ Len(t) \in Nat /\ t = [i \in 1..Len(t) |-> t[i]]
  BY <1>3
<1>5. \A i \in 1..Len(t) : t[i] \in Elements(t)
  BY <1>4 DEF Elements
<1>6. t \in Seq(Elements(t))
  BY <1>4, <1>5
<1> USE DEF t
<1> QED
  BY <1>2, <1>6

LEMMA Recorded ==
    ASSUME Kept, NEW outcome
    PROVE  /\ LastOutcome(Append1(run, run.node, outcome)) = outcome
           /\ Numbered(Append1(run, run.node, outcome))
<1> DEFINE r == Append1(run, run.node, outcome)
<1> DEFINE e == Execution(run.node, outcome, run.drive)
<1>1. r.execs = Append(run.execs, e) /\ r.drive = run.drive
  BY DEF Append1, Kept
<1>2. e.outcome = outcome /\ e.drive = run.drive /\ e = Execution(e.node, e.outcome, e.drive)
  BY DEF Execution
<1> HIDE DEF e, r
<1>3. /\ r.execs \in Seq(Elements(r.execs))
      /\ Len(r.execs) = Len(run.execs) + 1
      /\ r.execs[Len(run.execs) + 1] = e
      /\ \A i \in 1..Len(run.execs) : r.execs[i] = run.execs[i]
  <2>1. run.execs \in Seq(Elements(run.execs))
    BY DEF Kept, Numbered
  <2>2. /\ Append(run.execs, e) \in Seq(Elements(Append(run.execs, e)))
        /\ Len(Append(run.execs, e)) = Len(run.execs) + 1
        /\ Append(run.execs, e)[Len(run.execs) + 1] = e
        /\ \A i \in 1..Len(run.execs) : Append(run.execs, e)[i] = run.execs[i]
    BY ONLY <2>1, Appended
  <2> QED
    BY <1>1, <2>2
<1>4. Len(run.execs) \in Nat /\ r.execs # <<>>
  BY <1>3 DEF Kept, Numbered
<1>5. LastOutcome(r) = outcome
  <2>1. r.execs[Len(r.execs)].outcome = outcome
    BY <1>2, <1>3
  <2> QED
    BY <1>4, <2>1 DEF LastOutcome
<1>6. ASSUME NEW i \in 1..Len(r.execs)
      PROVE  /\ r.execs[i] = Execution(r.execs[i].node, r.execs[i].outcome, r.execs[i].drive)
             /\ r.execs[i].drive \in Nat /\ r.execs[i].drive <= r.drive
  <2>1. CASE i = Len(run.execs) + 1
    BY <1>1, <1>2, <1>3, <2>1 DEF Kept, Numbered
  <2>2. CASE i \in 1..Len(run.execs)
    BY <1>1, <1>3, <2>2 DEF Kept, Numbered
  <2> QED
    BY <1>3, <1>4, <2>1, <2>2
<1>7. Numbered(r)
  BY <1>1, <1>3, <1>6 DEF Kept, Numbered
<1> QED
  BY <1>5, <1>7 DEF r

LEMMA Ended == \A outcome : EndState(outcome) \in {"Paused", "Cancelled", "Blocked", "Failed"}
  BY DEF EndState

LEMMA RunInit == Init => IInv
<1> SUFFICES ASSUME Init PROVE IInv
  OBVIOUS
<1>1. run.execs = <<>> /\ run.state = "None" /\ run.drive = 0 /\ call = Idle /\ life = "Ready"
  BY DEF Init, NoRun
<1>2. <<>> \in Seq(Elements(<<>>)) /\ Len(<<>>) = 0
  OBVIOUS
<1>3. Kept
  <2>1. run = [f \in {"state", "node", "reworks", "execs", "request", "failure", "drive"} |-> run[f]]
    BY DEF Init, NoRun
  <2>2. call = [f \in {"op", "pc", "token", "pause"} |-> call[f]]
    BY DEF Init, Idle
  <2> QED
    BY <1>1, <1>2, <2>1, <2>2 DEF Kept, Numbered
<1> QED
  BY <1>1, <1>3 DEF IInv, Placed, Clear, Idle, Ends

LEMMA PlacedStep == ASSUME IInv, [Next]_vars PROVE Placed'
<1> USE DEF IInv, Placed, Goto, At, Live, Ends
<1>1. CASE UNCHANGED vars
  BY <1>1 DEF vars
<1>2. CASE Start \/ Started \/ Resume \/ Launch
  BY <1>2 DEF Start, Started, Resume, Launch, NoRun, Idle, Kept
<1>3. ASSUME NEW request, NEW approved \in BOOLEAN, SubmitHuman(request, approved) PROVE Placed'
  <2>1. run'.state = IF approved THEN "Running" ELSE "Failed"
    BY <1>3 DEF SubmitHuman, Kept
  <2>2. call' = [call EXCEPT !.op = "decision", !.pc = IF approved THEN "approved" ELSE "caught"]
    BY <1>3 DEF SubmitHuman
  <2> QED
    BY <1>3, <2>1, <2>2 DEF SubmitHuman, Kept, Idle
<1>4. CASE Execute \/ Settle \/ SettleRefused \/ NextDispatch \/ EngineStops \/ Fault \/ Cancelled
           \/ Escape \/ HostStops \/ Retry \/ ReworkNotAllowed \/ StoppedEarly \/ AdvanceRefused
  BY <1>4 DEF Execute, Settle, SettleRefused, NextDispatch, EngineStops, Fault, Cancelled, Escape,
              HostStops, Retry, ReworkNotAllowed, StoppedEarly, AdvanceRefused, AdvanceThrows,
              Routing, Advancing, InDrive, Kept
<1>5. CASE HandlerReturns \/ NodeTimeout \/ NodeStopped
  <2>1. PICK outcome : Record(outcome)
    BY <1>5 DEF HandlerReturns, NodeTimeout, NodeStopped
  <2>2. run'.state = run.state
    BY <2>1, Recorded DEF Record, Append1, Kept
  <2> QED
    BY <2>1, <2>2 DEF Record, Kept
<1>6. CASE Wait \/ ReworkBudgetExhausted \/ Rework \/ AdvanceNode
  BY <1>6 DEF Wait, ReworkBudgetExhausted, Rework, AdvanceNode, Routing, Advancing, Kept
<1>7. CASE NodeFails
  BY <1>7, Ended DEF NodeFails, Routing, Kept
<1>8. CASE CompleteRun
  BY <1>8 DEF CompleteRun, Routing, Advancing, Kept
<1>9. CASE Return \/ CaughtReturn
  <2>1. call' = Idle /\ run' = run /\ life' = life
    BY <1>9 DEF Return, CaughtReturn
  <2>2. run.state # "Running" /\ run.state # "Created"
    BY <1>9 DEF Return, CaughtReturn
  <2> QED
    BY <2>1, <2>2 DEF Idle
<1>10. CASE CatchStop /\ Settled(run)
  <2>1. call' = Idle /\ run' = run /\ life' = life
    BY <1>10 DEF CatchStop
  <2>2. run.state # "Running" /\ run.state # "Created"
    BY <1>10 DEF Settled
  <2> QED
    BY <2>1, <2>2 DEF Idle
<1>11. CASE CatchStop /\ ~Settled(run)
  <2> DEFINE r == IF run.node = "" THEN run
                  ELSE Append1(run, run.node, IF call.pause THEN "Interrupted" ELSE "Cancelled")
  <2>1. /\ run' = [r EXCEPT !.state = IF call.pause THEN "Paused" ELSE "Cancelled",
                           !.failure = IF call.pause THEN "STOPPED" ELSE "CANCELLED",
                           !.request = 0]
        /\ DOMAIN r = {"state", "node", "reworks", "execs", "request", "failure", "drive"}
    BY <1>11 DEF CatchStop, Append1, Kept
  <2>2. run'.state \in {"Paused", "Cancelled"}
    BY <2>1
  <2>3. call' = [call EXCEPT !.pc = "caught"] /\ life' = life
    BY <1>11 DEF CatchStop
  <2>4. life # "Delivered"
    BY <1>11 DEF Settled
  <2> QED
    BY <2>2, <2>3, <2>4 DEF Kept
<1>14. CASE CatchError
  <2>1. run'.state = "Failed" /\ call' = [call EXCEPT !.pc = "caught"]
    BY <1>14 DEF CatchError, Kept
  <2>2. life' # "Delivered"
    BY <1>14 DEF CatchError
  <2> QED
    BY <2>1, <2>2 DEF Kept
<1>12. ASSUME NEW pause \in BOOLEAN, RequestStop(pause) PROVE Placed'
  BY <1>12 DEF RequestStop, Kept
<1>13. CASE Terminated
  BY <1>13 DEF Terminated, vars
<1> QED
  BY <1>1, <1>2, <1>3, <1>4, <1>5, <1>6, <1>7, <1>8, <1>9, <1>10, <1>11, <1>12, <1>13, <1>14
     DEF Next, Engine

\* A step of the engine that records nothing leaves the executions alone.
LEMMA KeptStep == ASSUME Kept, [Next]_vars PROVE Kept'
<1> USE DEF Goto, At, Live
<1> DEFINE Fields == {"state", "node", "reworks", "execs", "request", "failure", "drive"}
<1>1. ASSUME run'.execs = run.execs, run'.drive \in Nat, run.drive <= run'.drive,
             run' = [f \in Fields |-> run'[f]],
             call' = [f \in {"op", "pc", "token", "pause"} |-> call'[f]]
      PROVE  Kept'
  BY <1>1 DEF Kept, Numbered
<1>2. CASE UNCHANGED vars
  BY <1>1, <1>2 DEF vars, Kept, Numbered
<1>3. CASE Start
  <2>1. /\ run' = [run EXCEPT !.state = "Created", !.node = def.entry, !.drive = 1]
        /\ call' = [call EXCEPT !.op = "run", !.pc = "created"] /\ run.drive = 0
    BY <1>3 DEF Start, NoRun
  <2>2. /\ run'.execs = run.execs /\ run'.drive = 1 /\ run' = [f \in Fields |-> run'[f]]
        /\ call' = [f \in {"op", "pc", "token", "pause"} |-> call'[f]]
    BY <2>1 DEF Kept
  <2> QED
    BY <1>1, <2>1, <2>2
<1>4. CASE Started \/ Resume \/ Launch \/ Execute \/ Settle \/ SettleRefused \/ Wait \/ Retry
           \/ NodeFails \/ ReworkNotAllowed \/ ReworkBudgetExhausted \/ Rework \/ AdvanceNode
  <2>1. run'.execs = run.execs /\ run' = [f \in Fields |-> run'[f]]
    BY <1>4 DEF Started, Resume, Launch, Execute, Settle, SettleRefused, Wait, Retry, NodeFails,
             ReworkNotAllowed, ReworkBudgetExhausted, Rework, AdvanceNode, Kept
  <2>2. run'.drive \in {run.drive, run.drive + 1}
    BY <1>4 DEF Started, Resume, Launch, Execute, Settle, SettleRefused, Wait, Retry, NodeFails,
             ReworkNotAllowed, ReworkBudgetExhausted, Rework, AdvanceNode, Kept
  <2>3. call' = [f \in {"op", "pc", "token", "pause"} |-> call'[f]]
    BY <1>4 DEF Started, Resume, Launch, Execute, Settle, SettleRefused, Wait, Retry, NodeFails,
             ReworkNotAllowed, ReworkBudgetExhausted, Rework, AdvanceNode, Kept
  <2>4. run.drive \in Nat
    BY DEF Kept, Numbered
  <2> QED
    BY <1>1, <2>1, <2>2, <2>3, <2>4
<1>5. CASE CompleteRun \/ AdvanceRefused \/ NextDispatch \/ StoppedEarly \/ CatchError
           \/ EngineStops \/ Fault \/ Cancelled \/ Escape \/ HostStops
  BY <1>1, <1>5 DEF CompleteRun, AdvanceRefused, AdvanceThrows, NextDispatch, StoppedEarly,
           CatchError, EngineStops, Fault, Cancelled, Escape, HostStops, Kept, Numbered
<1>6. CASE Return \/ CaughtReturn
  BY <1>1, <1>6 DEF Return, CaughtReturn, Idle, Kept, Numbered
<1>7. ASSUME NEW pause \in BOOLEAN, RequestStop(pause) PROVE Kept'
  BY <1>1, <1>7 DEF RequestStop, Kept, Numbered
<1>8. CASE Terminated
  BY <1>1, <1>8 DEF Terminated, vars, Kept, Numbered
<1>9. CASE HandlerReturns \/ NodeTimeout \/ NodeStopped
  <2>1. PICK outcome : Record(outcome)
    BY <1>9 DEF HandlerReturns, NodeTimeout, NodeStopped
  <2>2. run' = Append1(run, run.node, outcome) /\ call' = [call EXCEPT !.pc = "settled"]
    BY <2>1 DEF Record
  <2>3. /\ run' = [f \in Fields |-> run'[f]]
        /\ call' = [f \in {"op", "pc", "token", "pause"} |-> call'[f]]
    BY <2>2 DEF Append1, Kept
  <2>4. Numbered(run')
    BY <2>2, Recorded
  <2> QED
    BY <2>3, <2>4 DEF Kept
<1>10. CASE CatchStop
  <2> DEFINE r == IF run.node = "" THEN run
                  ELSE Append1(run, run.node, IF call.pause THEN "Interrupted" ELSE "Cancelled")
  <2>1. CASE Settled(run)
    BY <1>1, <1>10, <2>1 DEF CatchStop, Idle, Kept, Numbered
  <2>2. CASE ~Settled(run)
    <3>1. /\ run' = [r EXCEPT !.state = IF call.pause THEN "Paused" ELSE "Cancelled",
                             !.failure = IF call.pause THEN "STOPPED" ELSE "CANCELLED",
                             !.request = 0]
          /\ call' = [call EXCEPT !.pc = "caught"]
      BY <1>10, <2>2 DEF CatchStop
    <3>2. r = [f \in Fields |-> r[f]]
      BY DEF Append1, Kept
    <3>3. Numbered(r)
      BY Recorded DEF Kept
    <3> HIDE DEF r
    <3>4. run'.execs = r.execs /\ run'.drive = r.drive /\ run' = [f \in Fields |-> run'[f]]
      BY <3>1, <3>2
    <3>5. call' = [f \in {"op", "pc", "token", "pause"} |-> call'[f]]
      BY <3>1 DEF Kept
    <3> QED
      BY <3>3, <3>4, <3>5 DEF Kept, Numbered
  <2> QED
    BY <2>1, <2>2
<1>11. ASSUME NEW request \in DOMAIN run.execs, NEW approved \in BOOLEAN,
              SubmitHuman(request, approved)
       PROVE  Kept'
  <2> DEFINE n == Len(run.execs)
             e == Execution(run.execs[n].node, IF approved THEN "Succeeded" ELSE "Failed",
                            run.execs[n].drive)
  <2>1. n \in 1..n /\ DOMAIN run.execs = 1..n /\ n \in Nat
    BY <1>11 DEF Kept, Numbered
  <2>2. e = Execution(e.node, e.outcome, e.drive) /\ e.drive = run.execs[n].drive
    BY DEF Execution
  <2>3. [run.execs[n] EXCEPT !.outcome = IF approved THEN "Succeeded" ELSE "Failed"] = e
    <3>1. run.execs[n] = [node |-> run.execs[n].node, outcome |-> run.execs[n].outcome,
                          drive |-> run.execs[n].drive]
      BY <2>1 DEF Kept, Numbered, Execution
    <3> QED
      BY <3>1 DEF Execution
  <2>4. run'.execs = [run.execs EXCEPT ![n] =
                        [run.execs[n] EXCEPT !.outcome = IF approved THEN "Succeeded" ELSE "Failed"]]
    BY <1>11 DEF SubmitHuman, Kept
  <2>5. run'.drive = run.drive /\ run' = [f \in Fields |-> run'[f]]
    BY <1>11 DEF SubmitHuman, Kept
  <2>6. call' = [f \in {"op", "pc", "token", "pause"} |-> call'[f]]
    BY <1>11 DEF SubmitHuman, Kept
  <2> HIDE DEF e
  <2>7. run'.execs = [run.execs EXCEPT ![n] = e]
    BY <2>3, <2>4
  <2>8. run'.execs = [i \in 1..n |-> run'.execs[i]]
    BY <2>1, <2>7
  <2>9. run'.execs \in Seq(Elements(run'.execs)) /\ Len(run'.execs) = n
    <3>1. \A i \in 1..n : run'.execs[i] \in Elements(run'.execs)
      BY <2>8 DEF Elements
    <3> QED
      BY <2>1, <2>8, <3>1
  <2>10. \A i \in 1..n : run'.execs[i] = IF i = n THEN e ELSE run.execs[i]
    BY <2>1, <2>7
  <2>11. Numbered(run')
    BY <2>1, <2>2, <2>5, <2>9, <2>10 DEF Kept, Numbered
  <2> QED
    BY <2>5, <2>6, <2>11 DEF Kept
<1> QED
  BY <1>2, <1>3, <1>4, <1>5, <1>6, <1>7, <1>8, <1>9, <1>10, <1>11 DEF Next, Engine

\* The executions are as before the step, and the node that is next.
LEMMA SameLast ==
    ASSUME run'.execs = run.execs
    PROVE  /\ LastOutcome(run') = LastOutcome(run)
           /\ run'.node = run.node /\ run'.drive = run.drive => Unclear(run') = Unclear(run)
           /\ LastOutcome(run) # "Unknown" => ~Unclear(run')
  BY DEF LastOutcome, Unclear

LEMMA IdleIsIdle == Idle.pc = "idle"
  BY DEF Idle

LEMMA ClearStep == ASSUME Kept, Clear, [Next]_vars PROVE Clear'
<1> USE DEF Clear, Goto, At, Live
<1>1. ASSUME call'.pc \notin {"created", "approved", "launch", "between", "dispatch"}
      PROVE  Clear'
  BY <1>1
<1>2. ASSUME run' = run, call'.pc = call.pc PROVE Clear'
  BY <1>2 DEF Unclear, LastOutcome
<1>3. CASE UNCHANGED vars \/ Terminated \/ HostStops
  BY <1>2, <1>3 DEF vars, Terminated, HostStops, Kept
<1>4. ASSUME NEW pause \in BOOLEAN, RequestStop(pause) PROVE Clear'
  BY <1>2, <1>4 DEF RequestStop, Kept
<1>5. CASE Start
  BY <1>5 DEF Start, NoRun, Kept
<1>6. CASE Started \/ Resume
  <2>1. call'.pc = "launch" /\ run'.execs = run.execs
    BY <1>6 DEF Started, Resume, Kept
  <2>2. ~Unclear(run')
    <3>1. CASE Started
      <4>1. run'.execs = <<>>
        BY <2>1, <3>1 DEF Started
      <4> QED
        BY <4>1 DEF Unclear, LastOutcome
    <3>2. CASE Resume
      <4>1. run'.drive = run.drive + 1 /\ run.drive \in Nat
        BY <3>2 DEF Resume, Kept, Numbered
      <4>2. CASE run.execs = <<>>
        BY <2>1, <4>2 DEF Unclear, LastOutcome
      <4>3. CASE run.execs # <<>>
        <5>1. Len(run.execs) \in 1..Len(run.execs)
          BY <4>3 DEF Kept, Numbered
        <5>2. run.execs[Len(run.execs)].drive \in Nat
              /\ run.execs[Len(run.execs)].drive <= run.drive
          BY <5>1 DEF Kept, Numbered
        <5> QED
          BY <2>1, <4>1, <5>2 DEF Unclear
      <4> QED
        BY <4>2, <4>3
    <3> QED
      BY <1>6, <3>1, <3>2
  <2> QED
    BY <2>1, <2>2
<1>7. CASE Launch \/ NextDispatch
  <2>1. call'.pc = "dispatch" /\ run' = run /\ ~Unclear(run)
    BY <1>7 DEF Launch, NextDispatch, Kept
  <2> QED
    BY <2>1 DEF Unclear, LastOutcome
<1>8. CASE Execute \/ Settle \/ SettleRefused \/ Wait \/ NodeFails \/ ReworkNotAllowed
           \/ ReworkBudgetExhausted \/ CompleteRun \/ AdvanceRefused \/ StoppedEarly
           \/ CatchError \/ EngineStops \/ Fault \/ Cancelled \/ Escape
  BY <1>1, <1>8 DEF Execute, Settle, SettleRefused, Wait, NodeFails, ReworkNotAllowed,
              ReworkBudgetExhausted, CompleteRun, AdvanceRefused, AdvanceThrows, StoppedEarly,
              CatchError, EngineStops, Fault, Cancelled, Escape, Kept
<1>9. CASE Return \/ CaughtReturn
  <2>1. call'.pc = "idle"
    BY <1>9, IdleIsIdle DEF Return, CaughtReturn
  <2> QED
    BY <1>1, <2>1
<1>10. CASE HandlerReturns \/ NodeTimeout \/ NodeStopped
  BY <1>1, <1>10 DEF HandlerReturns, NodeTimeout, NodeStopped, Record, Kept
<1>11. CASE CatchStop
  <2>1. call' = Idle \/ call' = [call EXCEPT !.pc = "caught"]
    BY <1>11 DEF CatchStop
  <2>2. call'.pc \in {"idle", "caught"}
    BY <2>1, IdleIsIdle DEF Kept
  <2> QED
    BY <1>1, <2>2
<1>12. CASE Retry \/ Rework
  <2>1. call'.pc = "between" /\ run'.execs = run.execs /\ LastOutcome(run) # "Unknown"
    BY <1>12 DEF Retry, MayRetry, Rework, Routing, Kept
  <2> QED
    BY <2>1, SameLast
<1>13. CASE AdvanceNode
  <2>1. /\ call'.pc \in {"dispatch", "between"} /\ run'.execs = run.execs
        /\ LastOutcome(run) = "Succeeded"
    BY <1>13 DEF AdvanceNode, Advancing, Routing, Kept
  <2> QED
    BY <2>1, SameLast
<1>14. ASSUME NEW request \in DOMAIN run.execs, NEW approved \in BOOLEAN,
              SubmitHuman(request, approved)
       PROVE  Clear'
  <2> DEFINE n == Len(run.execs)
  <2>1. n \in 1..n /\ DOMAIN run.execs = 1..n
    BY <1>14 DEF Kept, Numbered
  <2>2. call'.pc = IF approved THEN "approved" ELSE "caught"
    BY <1>14 DEF SubmitHuman, Kept
  <2>3. run'.execs = [run.execs EXCEPT ![n] =
                        [run.execs[n] EXCEPT !.outcome = IF approved THEN "Succeeded" ELSE "Failed"]]
    BY <1>14 DEF SubmitHuman, Kept
  <2>4. Len(run'.execs) = n /\ run'.execs # <<>>
    <3>1. DOMAIN run'.execs = 1..n /\ n \in Nat /\ n # 0
      <4>1. DOMAIN run'.execs = DOMAIN run.execs
        BY <2>3
      <4>2. n \in Nat
        BY DEF Kept, Numbered
      <4> QED
        BY <2>1, <4>1, <4>2
    <3>2. run'.execs \in Seq(Elements(run'.execs))
      BY <1>14, KeptStep DEF Next, Kept, Numbered
    <3> QED
      BY <3>1, <3>2
  <2>5. approved => run'.execs[n].outcome = "Succeeded"
    <3>1. run.execs[n] = Execution(run.execs[n].node, run.execs[n].outcome, run.execs[n].drive)
      BY <2>1 DEF Kept, Numbered
    <3> QED
      BY <2>1, <2>3, <3>1 DEF Execution
  <2>6. approved => LastOutcome(run') = "Succeeded"
    BY <2>4, <2>5 DEF LastOutcome
  <2> QED
    BY <2>2, <2>6
<1> QED
  BY <1>3, <1>4, <1>5, <1>6, <1>7, <1>8, <1>9, <1>10, <1>11, <1>12, <1>13, <1>14 DEF Next, Engine

LEMMA RunStep == IInv /\ [Next]_vars => IInv'
  BY PlacedStep, KeptStep, ClearStep DEF IInv

\* Once the Owner's stop is accepted the run of that call is not completed, for every
\* definition and however late the stop came (RequestStop and Advance under one lock).
THEOREM StopsAreHonoured == Spec => []StopHonoured
<1>1. IInv => StopHonoured
  BY DEF IInv, Placed, StopHonoured
<1> QED
  BY <1>1, RunInit, RunStep, PTL DEF Spec

\* No call returns while its run claims to execute (Drive).
THEOREM NoRunIsOrphaned == Spec => []NoOrphan
<1>1. IInv => NoOrphan
  BY DEF IInv, Placed, NoOrphan, At
<1> QED
  BY <1>1, RunInit, RunStep, PTL DEF Spec

\* A task is Delivered only by a run that stayed Completed, whatever throws after the
\* commit (Drive's catch block).
THEOREM DeliveredIsCompleted == Spec => []DeliveredOnlyCompleted
<1>1. IInv => DeliveredOnlyCompleted
  BY DEF IInv, Placed, DeliveredOnlyCompleted
<1> QED
  BY <1>1, RunInit, RunStep, PTL DEF Spec

\* A step whose effect on the workspace is unknown is not executed again within the call
\* in which it failed, for every retry allowance of the definition (Dispatch).
THEOREM NoStepRepeatsBlindly == Spec => NoBlindRepeat
<1>1. ASSUME IInv, [Next]_vars, ~At("executing"), At("executing")' PROVE ~Unclear(run)
  <2>1. CASE At("dispatch")
    BY <1>1, <2>1 DEF IInv, Clear, At
  <2>2. CASE ~At("dispatch")
    <3>1. call'.pc = "executing" /\ call.pc # "executing" /\ call.pc # "dispatch"
      BY <1>1, <2>2 DEF At
    <3> USE DEF IInv, Kept, Goto, At
    <3>2. ~UNCHANGED vars
      BY <3>1 DEF vars
    <3>3. ~(Start \/ Resume \/ EngineStops \/ Fault \/ Cancelled \/ Escape \/ HostStops \/ Terminated)
      BY <1>1, <3>1 DEF Start, Resume, EngineStops, Fault, Cancelled, Escape, HostStops, Terminated, vars
    <3>4. ~(Started \/ Launch \/ Execute \/ Settle \/ SettleRefused \/ Wait \/ Retry \/ NodeFails
             \/ ReworkNotAllowed \/ ReworkBudgetExhausted \/ Rework)
      BY <1>1, <3>1 DEF Started, Launch, Execute, Settle, SettleRefused, Wait, Retry, NodeFails,
                       ReworkNotAllowed, ReworkBudgetExhausted, Rework
    <3>5. ~(AdvanceNode \/ CompleteRun \/ AdvanceRefused \/ NextDispatch \/ Return \/ StoppedEarly
             \/ CatchStop \/ CatchError \/ CaughtReturn)
      BY <1>1, <3>1, IdleIsIdle
         DEF AdvanceNode, CompleteRun, AdvanceRefused, AdvanceThrows, NextDispatch, Return,
             StoppedEarly, CatchStop, CatchError, CaughtReturn
    <3>6. ~(HandlerReturns \/ NodeTimeout \/ NodeStopped)
      BY <1>1, <3>1 DEF HandlerReturns, NodeTimeout, NodeStopped, Record
    <3>7. \A pause \in BOOLEAN : ~RequestStop(pause)
      BY <1>1, <3>1 DEF RequestStop
    <3>8. \A request, approved : ~SubmitHuman(request, approved)
      BY <1>1, <3>1 DEF SubmitHuman
    <3> QED
      BY <1>1, <3>2, <3>3, <3>4, <3>5, <3>6, <3>7, <3>8 DEF Next, Engine
  <2> QED
    BY <2>1, <2>2
<1>2. IInv /\ [Next]_vars => [~At("executing") /\ At("executing")' => ~Unclear(run)]_vars
  BY <1>1
<1> QED
  BY <1>2, RunInit, RunStep, PTL DEF Spec, NoBlindRepeat

(***************************************************************************)
(* The rework budget.  A round shows in the executions when the target     *)
(* runs after findings; until it does, the round is pending.               *)
(***************************************************************************)
Pending ==
    /\ LastOutcome(run) = "ReworkRequired"
    /\ run.execs[Len(run.execs)].node # def.target
    /\ run.node = def.target

Budgeted ==
    /\ def \in Flows
    /\ run.reworks \in Nat /\ run.reworks <= def.budget
    /\ IsFiniteSet(ReworkRounds)
    /\ Cardinality(ReworkRounds) <= run.reworks
    /\ Pending => Cardinality(ReworkRounds) < run.reworks
    /\ call.pc \in {"settled", "route"} => run.execs[Len(run.execs)].node = run.node

LEMMA BudgetInit == Init => Budgeted
<1> SUFFICES ASSUME Init PROVE Budgeted
  OBVIOUS
<1>1. run.execs = <<>> /\ run.reworks = 0 /\ call.pc = "idle" /\ def \in Flows
  BY IdleIsIdle DEF Init, NoRun
<1>2. ReworkRounds = {}
  BY <1>1 DEF ReworkRounds
<1>3. def.budget \in Nat
  BY <1>1, FlowsAreValid DEF Valid
<1>4. ~Pending
  BY <1>1 DEF Pending, LastOutcome
<1> QED
  BY <1>1, <1>2, <1>3, <1>4, FS_EmptySet DEF Budgeted

\* Executions are the same: so are the rounds they show.
LEMMA RoundsStay ==
    ASSUME run'.execs = run.execs, def' = def
    PROVE  ReworkRounds' = ReworkRounds /\ LastOutcome(run') = LastOutcome(run)
  BY DEF ReworkRounds, LastOutcome

\* What is recorded after findings ends a pending round, and starts none.
LEMMA RoundRecorded ==
    ASSUME Kept, Budgeted, NEW outcome, def' = def, run'.node = run.node,
           run'.execs = Append1(run, run.node, outcome).execs, run'.reworks = run.reworks
    PROVE  /\ IsFiniteSet(ReworkRounds')
           /\ Cardinality(ReworkRounds') <= run'.reworks
           /\ ~Pending'
           /\ run'.execs[Len(run'.execs)].node = run'.node
<1> DEFINE n == Len(run.execs)
           e == Execution(run.node, outcome, run.drive)
<1>1. run'.execs = Append(run.execs, e)
  BY DEF Append1, Kept
<1>2. e.node = run.node
  BY DEF Execution
<1> HIDE DEF e
<1>3. /\ run'.execs \in Seq(Elements(run'.execs)) /\ Len(run'.execs) = n + 1
      /\ run'.execs[n + 1] = e /\ \A i \in 1..n : run'.execs[i] = run.execs[i]
  <2>1. run.execs \in Seq(Elements(run.execs))
    BY DEF Kept, Numbered
  <2>2. /\ Append(run.execs, e) \in Seq(Elements(Append(run.execs, e)))
        /\ Len(Append(run.execs, e)) = n + 1
        /\ Append(run.execs, e)[n + 1] = e
        /\ \A i \in 1..n : Append(run.execs, e)[i] = run.execs[i]
    BY ONLY <2>1, Appended
  <2> QED
    BY <1>1, <2>2
<1>4. n \in Nat /\ DOMAIN run.execs = 1..n /\ DOMAIN run'.execs = 1..(n + 1)
  BY <1>3 DEF Kept, Numbered
<1>5. run'.execs[Len(run'.execs)].node = run.node
  BY <1>2, <1>3
<1>6. ~Pending'
  BY <1>5 DEF Pending
<1>7. ReworkRounds' \ {n} = ReworkRounds
  <2>1. ASSUME NEW i PROVE i \in ReworkRounds' /\ i # n <=> i \in ReworkRounds
    <3>1. CASE i \in 1..n /\ i < n
      <4>1. run'.execs[i] = run.execs[i] /\ run'.execs[i + 1] = run.execs[i + 1]
        BY <1>3, <1>4, <3>1
      <4> QED
        BY <1>3, <1>4, <3>1, <4>1 DEF ReworkRounds
    <3>2. CASE ~(i \in 1..n /\ i < n)
      BY <1>3, <1>4, <3>2 DEF ReworkRounds
    <3> QED
      BY <3>1, <3>2
  <2> QED
    BY <2>1
<1>8. n \in ReworkRounds' => Pending
  <2> SUFFICES ASSUME n \in ReworkRounds' PROVE Pending
    OBVIOUS
  <2>1. /\ n \in 1..(n + 1) /\ run'.execs[n].outcome = "ReworkRequired"
        /\ run'.execs[n].node # def.target /\ run'.execs[n + 1].node = def.target
    BY <1>4 DEF ReworkRounds
  <2>2. n \in 1..n
    BY <1>4, <2>1
  <2>3. run.execs # <<>>
    BY <2>2
  <2> QED
    BY <1>2, <1>3, <2>1, <2>2, <2>3 DEF Pending, LastOutcome
<1>9. CASE n \in ReworkRounds'
  <2>1. ReworkRounds' = ReworkRounds \cup {n} /\ n \notin ReworkRounds
    BY <1>7, <1>9
  <2>2. IsFiniteSet(ReworkRounds') /\ Cardinality(ReworkRounds') = Cardinality(ReworkRounds) + 1
    BY <2>1, FS_AddElement DEF Budgeted
  <2>3. Cardinality(ReworkRounds) \in Nat /\ Cardinality(ReworkRounds) < run.reworks
    BY <1>8, <1>9, FS_CardinalityType DEF Budgeted
  <2>4. run.reworks \in Nat
    BY DEF Budgeted
  <2> QED
    BY <1>5, <1>6, <2>2, <2>3, <2>4
<1>10. CASE n \notin ReworkRounds'
  <2>1. ReworkRounds' = ReworkRounds
    BY <1>7, <1>10
  <2> QED
    BY <1>5, <1>6, <2>1 DEF Budgeted
<1> QED
  BY <1>9, <1>10

LEMMA BudgetStep == ASSUME Kept, Clear, Budgeted, [Next]_vars PROVE Budgeted'
<1> USE DEF Goto, At, Live
<1>0. Cardinality(ReworkRounds) \in Nat /\ def.budget \in Nat /\ run.reworks \in Nat
  BY FS_CardinalityType, FlowsAreValid DEF Budgeted, Valid
<1>1. ASSUME run'.execs = run.execs, def' = def, run'.reworks = run.reworks,
             run'.node = run.node \/ LastOutcome(run) # "ReworkRequired",
             call'.pc \in {"settled", "route"} => call.pc \in {"settled", "route"} /\ run'.node = run.node
      PROVE  Budgeted'
  BY <1>1, RoundsStay DEF Budgeted, Pending
<1>2. CASE UNCHANGED vars \/ Terminated \/ HostStops
  BY <1>1, <1>2 DEF vars, Terminated, HostStops, Kept
<1>3. ASSUME NEW pause \in BOOLEAN, RequestStop(pause) PROVE Budgeted'
  BY <1>1, <1>3 DEF RequestStop, Kept
<1>4. CASE Start
  <2>1. run.execs = <<>> /\ run'.execs = run.execs /\ run'.reworks = run.reworks /\ def' = def
        /\ call'.pc = "created"
    BY <1>4 DEF Start, NoRun, Kept
  <2>2. LastOutcome(run) = ""
    BY <2>1 DEF LastOutcome
  <2> QED
    BY <1>1, <2>1, <2>2
<1>5. CASE Started \/ Resume \/ Launch \/ Execute \/ Settle \/ SettleRefused \/ Wait \/ Retry
           \/ NodeFails \/ ReworkNotAllowed \/ ReworkBudgetExhausted
  <2>1. /\ run'.execs = run.execs /\ run'.reworks = run.reworks /\ run'.node = run.node /\ def' = def
    BY <1>5 DEF Started, Resume, Launch, Execute, Settle, SettleRefused, Wait, Retry, NodeFails,
             ReworkNotAllowed, ReworkBudgetExhausted, Kept
  <2>2. call'.pc \in {"settled", "route"} => call.pc \in {"settled", "route"}
    BY <1>5 DEF Started, Resume, Launch, Execute, Settle, SettleRefused, Wait, Retry, NodeFails,
             ReworkNotAllowed, ReworkBudgetExhausted, Kept
  <2> QED
    BY <1>1, <2>1, <2>2
<1>6. CASE AdvanceNode \/ CompleteRun
  <2>1. LastOutcome(run) = "Succeeded"
    BY <1>6 DEF AdvanceNode, CompleteRun, Advancing, Routing, Clear
  <2>2. /\ run'.execs = run.execs /\ run'.reworks = run.reworks /\ def' = def
        /\ call'.pc \in {"dispatch", "between", "ending"}
    BY <1>6 DEF AdvanceNode, CompleteRun, Kept
  <2> QED
    BY <1>1, <2>1, <2>2
<1>7. CASE AdvanceRefused \/ NextDispatch \/ StoppedEarly \/ CatchError \/ EngineStops \/ Fault
           \/ Cancelled \/ Escape
  <2>1. /\ run'.execs = run.execs /\ run'.reworks = run.reworks /\ run'.node = run.node /\ def' = def
    BY <1>7 DEF AdvanceRefused, NextDispatch, StoppedEarly, CatchError, EngineStops, Fault,
             Cancelled, Escape, Kept
  <2>2. call'.pc \notin {"settled", "route"}
    BY <1>7 DEF AdvanceRefused, AdvanceThrows, NextDispatch, StoppedEarly, CatchError, EngineStops,
             Fault, Cancelled, Escape, Kept
  <2> QED
    BY <1>1, <2>1, <2>2
<1>8. CASE Return \/ CaughtReturn
  <2>1. run' = run /\ def' = def /\ call'.pc = "idle"
    BY <1>8, IdleIsIdle DEF Return, CaughtReturn
  <2> QED
    BY <1>1, <2>1
<1>9. CASE HandlerReturns \/ NodeTimeout \/ NodeStopped
  <2>1. PICK outcome : Record(outcome)
    BY <1>9 DEF HandlerReturns, NodeTimeout, NodeStopped
  <2>2. run' = Append1(run, run.node, outcome) /\ def' = def
    BY <2>1 DEF Record
  <2>3. run'.node = run.node /\ run'.reworks = run.reworks
    BY <2>2 DEF Append1, Kept
  <2> QED
    BY <1>0, <2>2, <2>3, RoundRecorded DEF Budgeted
<1>10. CASE CatchStop
  <2> DEFINE o == IF call.pause THEN "Interrupted" ELSE "Cancelled"
  <2>1. CASE Settled(run)
    <3>1. run' = run /\ def' = def /\ call'.pc = "idle"
      BY <1>10, <2>1, IdleIsIdle DEF CatchStop
    <3> QED
      BY <1>1, <3>1
  <2>2. CASE ~Settled(run) /\ run.node = ""
    <3>1. /\ run'.execs = run.execs /\ run'.reworks = run.reworks /\ run'.node = run.node
          /\ def' = def /\ call'.pc = "caught"
      BY <1>10, <2>2 DEF CatchStop, Kept
    <3> QED
      BY <1>1, <3>1
  <2>3. CASE ~Settled(run) /\ run.node # ""
    <3>1. /\ run' = [Append1(run, run.node, o) EXCEPT
                       !.state = IF call.pause THEN "Paused" ELSE "Cancelled",
                       !.failure = IF call.pause THEN "STOPPED" ELSE "CANCELLED",
                       !.request = 0]
          /\ def' = def /\ call'.pc = "caught"
      BY <1>10, <2>3 DEF CatchStop, Kept
    <3> HIDE DEF o
    <3>2. /\ run'.execs = Append1(run, run.node, o).execs /\ run'.node = run.node
          /\ run'.reworks = run.reworks
      BY <3>1 DEF Append1, Kept
    <3> QED
      BY <1>0, <3>1, <3>2, RoundRecorded DEF Budgeted
  <2> QED
    BY <2>1, <2>2, <2>3
<1>11. CASE Rework
  <2>1. /\ run'.execs = run.execs /\ run'.reworks = run.reworks + 1 /\ run.reworks < def.budget
        /\ run'.node = def.target /\ def' = def /\ call'.pc = "between"
    BY <1>0, <1>11 DEF Rework, BudgetSpent, Kept
  <2> QED
    BY <1>0, <2>1, RoundsStay DEF Budgeted
<1>12. ASSUME NEW request \in DOMAIN run.execs, NEW approved \in BOOLEAN,
              SubmitHuman(request, approved)
       PROVE  Budgeted'
  <2> DEFINE n == Len(run.execs)
             o == IF approved THEN "Succeeded" ELSE "Failed"
  <2>1. n \in Nat /\ n \in 1..n /\ DOMAIN run.execs = 1..n
    BY <1>12 DEF Kept, Numbered
  <2>2. run'.execs = [run.execs EXCEPT ![n] = [run.execs[n] EXCEPT !.outcome = o]]
    BY <1>12 DEF SubmitHuman, Kept
  <2>3. /\ run'.reworks = run.reworks /\ run'.node = run.node /\ def' = def
        /\ call'.pc \notin {"settled", "route"}
    BY <1>12 DEF SubmitHuman, Kept
  <2>4. DOMAIN run'.execs = 1..n /\ \A i \in 1..n : i # n => run'.execs[i] = run.execs[i]
    BY <2>1, <2>2
  <2>5. Len(run'.execs) = n
    <3>1. run'.execs \in Seq(Elements(run'.execs))
      BY <1>12, KeptStep DEF Next, Kept, Numbered
    <3> QED
      BY <2>1, <2>4, <3>1
  <2>6. run'.execs[n].node = run.execs[n].node /\ run'.execs[n].outcome = o
    <3>1. run.execs[n] = [node |-> run.execs[n].node, outcome |-> run.execs[n].outcome,
                          drive |-> run.execs[n].drive]
      BY <2>1 DEF Kept, Numbered, Execution
    <3> HIDE DEF o
    <3>2. run'.execs[n] = [run.execs[n] EXCEPT !.outcome = o]
      BY <2>1, <2>2
    <3> QED
      BY <3>1, <3>2
  <2>7. ReworkRounds' = ReworkRounds
    <3>1. ASSUME NEW i \in 1..n, i < n
          PROVE  i \in ReworkRounds' <=> i \in ReworkRounds
      <4>1. run'.execs[i] = run.execs[i] /\ i + 1 \in 1..n
            /\ run'.execs[i + 1].node = run.execs[i + 1].node
        BY <2>1, <2>4, <2>6, <3>1
      <4> QED
        BY <2>1, <2>3, <2>4, <2>5, <3>1, <4>1 DEF ReworkRounds
    <3> QED
      BY <2>1, <2>4, <2>5, <3>1 DEF ReworkRounds
  <2>8. ~Pending'
    BY <2>1, <2>5, <2>6 DEF Pending, LastOutcome
  <2> QED
    BY <1>0, <2>3, <2>7, <2>8 DEF Budgeted
<1> QED
  BY <1>2, <1>3, <1>4, <1>5, <1>6, <1>7, <1>8, <1>9, <1>10, <1>11, <1>12 DEF Next, Engine

\* However often a run is stopped and resumed, findings send it back to the rework node at
\* most MaxReworks times, for every definition and number of calls (Dispatch).
THEOREM BudgetHolds == Spec => []ReworksBounded
<1>1. Budgeted => ReworksBounded
  <2> SUFFICES ASSUME Budgeted PROVE ReworksBounded
    OBVIOUS
  <2>1. Cardinality(ReworkRounds) \in Nat /\ def.budget \in Nat /\ run.reworks \in Nat
    BY FS_CardinalityType, FlowsAreValid DEF Budgeted, Valid
  <2> QED
    BY <2>1 DEF Budgeted, ReworksBounded
<1>2. IInv /\ Budgeted /\ [Next]_vars => (IInv /\ Budgeted)'
  BY RunStep, BudgetStep DEF IInv
<1> QED
  BY <1>1, <1>2, RunInit, BudgetInit, PTL DEF Spec

(***************************************************************************)
(* The order of the evidence, under definitions like those of the          *)
(* catalogs: a run that is at a required step has succeeded at all before  *)
(* it, each after the one before, and nothing was executed of them since.  *)
(***************************************************************************)
IsLast(r, node, m) ==
    /\ m \in DOMAIN r.execs /\ r.execs[m].node = node
    /\ \A j \in DOMAIN r.execs : r.execs[j].node = node => j <= m

Evident(r, k) ==
    \A i \in 1..k :
        \E m \in DOMAIN r.execs :
            /\ IsLast(r, def.required[i], m) /\ r.execs[m].outcome = "Succeeded"
            /\ i > 1 => \E l \in DOMAIN r.execs : IsLast(r, def.required[i - 1], l) /\ l < m

OfNode(r) == r.execs # <<>> /\ r.execs[Len(r.execs)].node = r.node

Evidenced ==
    /\ def \in Flows
    /\ \A k \in DOMAIN def.required : run.node = def.required[k] => Evident(run, k - 1)
    /\ run.state = "Completed" => Evident(run, Len(def.required))
    /\ call.pc \in {"settled", "route", "approved"} \/ run.state = "Waiting" => OfNode(run)
    /\ run.state \in {"Waiting", "Completed"} => call.pc \in Ends

LEMMA LastIsLast ==
    ASSUME NEW r, NEW node, NEW m, IsLast(r, node, m), DOMAIN r.execs \subseteq Nat \ {0}
    PROVE  LastOf(r, node) = m
<1> DEFINE at == {i \in DOMAIN r.execs : r.execs[i].node = node}
<1>1. m \in at /\ \A j \in at : j <= m
  BY DEF IsLast
<1>2. \A i \in at : (\A j \in at : j <= i) => i = m
  BY <1>1
<1>3. (CHOOSE i \in at : \A j \in at : j <= i) = m
  BY <1>1, <1>2
<1> QED
  BY <1>1, <1>3 DEF LastOf

\* Evidence for the first steps stays when executions of other steps come or change.
LEMMA EvidentStays ==
    ASSUME NEW r, NEW q, NEW k \in Nat, Evident(r, k),
           DOMAIN r.execs \subseteq DOMAIN q.execs,
           \A i \in DOMAIN q.execs :
               \/ i \in DOMAIN r.execs /\ q.execs[i] = r.execs[i]
               \/ /\ \A j \in 1..k : q.execs[i].node # def.required[j]
                  /\ i \in DOMAIN r.execs => q.execs[i].node = r.execs[i].node
    PROVE  Evident(q, k)
<1>1. ASSUME NEW i \in 1..k, NEW m, IsLast(r, def.required[i], m)
      PROVE  IsLast(q, def.required[i], m) /\ q.execs[m] = r.execs[m]
  BY <1>1 DEF IsLast
<1>2. ASSUME NEW i \in 1..k
      PROVE  \E m \in DOMAIN q.execs :
                 /\ IsLast(q, def.required[i], m) /\ q.execs[m].outcome = "Succeeded"
                 /\ i > 1 => \E l \in DOMAIN q.execs : IsLast(q, def.required[i - 1], l) /\ l < m
  <2>1. PICK m \in DOMAIN r.execs :
            /\ IsLast(r, def.required[i], m) /\ r.execs[m].outcome = "Succeeded"
            /\ i > 1 => \E l \in DOMAIN r.execs : IsLast(r, def.required[i - 1], l) /\ l < m
    BY DEF Evident
  <2>2. i > 1 => \E l \in DOMAIN q.execs : IsLast(q, def.required[i - 1], l) /\ l < m
    <3> SUFFICES ASSUME i > 1
                 PROVE  \E l \in DOMAIN q.execs : IsLast(q, def.required[i - 1], l) /\ l < m
      OBVIOUS
    <3>1. PICK l \in DOMAIN r.execs : IsLast(r, def.required[i - 1], l) /\ l < m
      BY <2>1
    <3>2. i - 1 \in 1..k
      OBVIOUS
    <3> QED
      BY <1>1, <3>1, <3>2
  <2> QED
    BY <1>1, <2>1, <2>2
<1> QED
  BY <1>2 DEF Evident

LEMMA EvidentBefore == \A r, k, j : k \in Nat /\ j \in Int /\ j <= k /\ Evident(r, k) => Evident(r, j)
  BY DEF Evident

\* The last execution succeeded, and was of the step the evidence leads to.
LEMMA EvidentNext ==
    ASSUME NEW r, NEW k \in Nat \ {0}, Evident(r, k - 1), OfNode(r),
           r.execs \in Seq(Elements(r.execs)), LastOutcome(r) = "Succeeded",
           r.node = def.required[k], k > 1 => def.required[k - 1] # def.required[k]
    PROVE  Evident(r, k)
<1> DEFINE n == Len(r.execs)
<1>1. n \in Nat /\ DOMAIN r.execs = 1..n /\ n \in DOMAIN r.execs
  BY DEF OfNode
<1>2. IsLast(r, def.required[k], n) /\ r.execs[n].outcome = "Succeeded"
  BY <1>1 DEF IsLast, OfNode, LastOutcome
<1>3. k > 1 => \E l \in DOMAIN r.execs : IsLast(r, def.required[k - 1], l) /\ l < n
  <2> SUFFICES ASSUME k > 1
               PROVE  \E l \in DOMAIN r.execs : IsLast(r, def.required[k - 1], l) /\ l < n
    OBVIOUS
  <2>1. PICK l \in DOMAIN r.execs : IsLast(r, def.required[k - 1], l)
    BY k - 1 \in 1..(k - 1) DEF Evident
  <2>2. r.execs[l].node # r.execs[n].node
    BY <1>1, <2>1 DEF IsLast, OfNode
  <2>3. l # n
    BY <2>2
  <2> HIDE DEF n
  <2> QED
    BY <1>1, <2>1, <2>3
<1> HIDE DEF n
<1>4. ASSUME NEW i \in 1..k
      PROVE  \E m \in DOMAIN r.execs :
                 /\ IsLast(r, def.required[i], m) /\ r.execs[m].outcome = "Succeeded"
                 /\ i > 1 => \E l \in DOMAIN r.execs : IsLast(r, def.required[i - 1], l) /\ l < m
  <2>1. CASE i = k
    BY <1>1, <1>2, <1>3, <2>1
  <2>2. CASE i # k
    <3>1. i \in 1..(k - 1)
      BY <2>2
    <3> QED
      BY <3>1 DEF Evident
  <2> QED
    BY <2>1, <2>2
<1> QED
  BY <1>4 DEF Evident

\* What an in-order definition says of the routes.
LEMMA SuccessLeadsOn ==
    ASSUME NEW d, Valid(d), InOrder(d), NEW node, HasNext(d, node)
    PROVE  \E i \in 1..Len(d.required) :
               /\ node = d.required[i]
               /\ NextNode(d, node) # Complete =>
                      i < Len(d.required) /\ NextNode(d, node) = d.required[i + 1]
               /\ NextNode(d, node) = Complete => i = Len(d.required)
<1>1. d.required \in Seq(d.nodes)
  BY DEF Valid
<1>2. DOMAIN d.required = 1..Len(d.required) /\ Len(d.required) \in Nat
  BY <1>1
<1> DEFINE r == CHOOSE r \in d.routes : r.from = node /\ r.outcome = "Succeeded"
<1>3. r \in d.routes /\ r.from = node /\ r.outcome = "Succeeded"
  BY DEF HasNext
<1>4. NextNode(d, node) = r.target
  BY DEF NextNode
<1> HIDE DEF r
<1>5. PICK i \in 1..Len(d.required) :
          /\ r.from = d.required[i]
          /\ r.target = IF i < Len(d.required) THEN d.required[i + 1] ELSE Complete
  <2>1. r \in Successors(d.required)
    BY <1>3 DEF InOrder
  <2> QED
    BY <1>2, <2>1 DEF Successors
<1>6. \A j \in 1..Len(d.required) : d.required[j] # Complete
  BY <1>2 DEF InOrder
<1>7. i < Len(d.required) => NextNode(d, node) = d.required[i + 1] /\ d.required[i + 1] # Complete
  BY <1>2, <1>4, <1>5, <1>6
<1>8. ~(i < Len(d.required)) => NextNode(d, node) = Complete /\ i = Len(d.required)
  BY <1>2, <1>4, <1>5
<1> QED
  BY <1>3, <1>5, <1>7, <1>8

LEMMA FindingsLeadBack ==
    ASSUME NEW d, Valid(d), InOrder(d), NEW node, MayRework(d, node)
    PROVE  \E i \in 1..Len(d.required) :
               /\ node = d.required[i]
               /\ \A j \in DOMAIN d.required : d.required[j] = d.target => j <= i
<1>1. d.required \in Seq(d.nodes)
  BY DEF Valid
<1>2. DOMAIN d.required = 1..Len(d.required)
  BY <1>1
<1>3. PICK r \in d.routes : r.from = node /\ r.outcome = "ReworkRequired"
  BY DEF MayRework
<1> QED
  BY <1>2, <1>3 DEF InOrder

\* What the step of a call leaves of the evidence.
Undisturbed ==
    /\ def' = def /\ run'.execs = run.execs /\ run'.node = run.node
    /\ run'.state \in {"Waiting", "Completed"} => run'.state = run.state /\ call'.pc \in Ends
    /\ call'.pc \in {"settled", "route", "approved"} =>
           call.pc \in {"settled", "route", "approved"}

LEMMA EvidenceUndisturbed == ASSUME Evidenced, Undisturbed PROVE Evidenced'
<1>1. \A k : Evident(run, k) => Evident(run, k)'
  BY DEF Evident, IsLast, Undisturbed
<1>2. OfNode(run) => OfNode(run')
  BY DEF OfNode, Undisturbed
<1> QED
  BY <1>1, <1>2 DEF Evidenced, Undisturbed

LEMMA RequiredStands ==
    ASSUME Evidenced, \A f \in Flows : InOrder(f)
    PROVE  /\ Valid(def) /\ InOrder(def)
           /\ Len(def.required) \in Nat \ {0} /\ DOMAIN def.required = 1..Len(def.required)
           /\ \A i, j \in 1..Len(def.required) :
                  def.required[i] = def.required[j] => i = j
<1>1. Valid(def) /\ InOrder(def)
  BY FlowsAreValid DEF Evidenced
<1>2. def.required \in Seq(def.nodes) /\ def.required # <<>>
  BY <1>1 DEF Valid
<1>3. Len(def.required) \in Nat \ {0} /\ DOMAIN def.required = 1..Len(def.required)
  BY <1>2
<1> QED
  BY <1>1, <1>3 DEF InOrder

\* Executions of the current step, and changes of its last one, disturb no evidence.
LEMMA EvidenceExtended ==
    ASSUME Evidenced, \A f \in Flows : InOrder(f), def' = def, run'.node = run.node,
           run'.state \notin {"Waiting", "Completed"}, OfNode(run'),
           DOMAIN run.execs \subseteq DOMAIN run'.execs,
           \A i \in DOMAIN run'.execs :
               \/ i \in DOMAIN run.execs /\ run'.execs[i] = run.execs[i]
               \/ /\ run'.execs[i].node = run.node
                  /\ i \in DOMAIN run.execs => run'.execs[i].node = run.execs[i].node
    PROVE  Evidenced'
<1>1. ASSUME NEW k \in DOMAIN def.required, run.node = def.required[k]
      PROVE  Evident(run, k - 1)'
  <2>1. k \in 1..Len(def.required) /\ k \in Nat /\ k - 1 \in Nat
    BY RequiredStands
  <2>2. Evident(run, k - 1)
    BY <1>1 DEF Evidenced
  <2>3. \A j \in 1..(k - 1) : def.required[j] # run.node
    BY <1>1, <2>1, RequiredStands
  <2>4. Evident(run', k - 1)
    BY <2>1, <2>2, <2>3, EvidentStays
  <2> QED
    BY <2>4 DEF Evident, IsLast
<1> QED
  BY <1>1 DEF Evidenced

LEMMA EvidenceRecorded ==
    ASSUME Kept, Evidenced, \A f \in Flows : InOrder(f), NEW outcome, def' = def,
           run'.node = run.node, run'.state \notin {"Waiting", "Completed"},
           run'.execs = Append1(run, run.node, outcome).execs
    PROVE  Evidenced'
<1> DEFINE n == Len(run.execs)
           e == Execution(run.node, outcome, run.drive)
<1>1. run'.execs = Append(run.execs, e)
  BY DEF Append1, Kept
<1>2. e.node = run.node
  BY DEF Execution
<1> HIDE DEF e
<1>3. run.execs \in Seq(Elements(run.execs))
  BY DEF Kept, Numbered
<1>4. /\ run'.execs \in Seq(Elements(run'.execs)) /\ Len(run'.execs) = n + 1
      /\ run'.execs[n + 1] = e /\ \A i \in 1..n : run'.execs[i] = run.execs[i]
  BY <1>1, <1>3, Appended
<1>5. n \in Nat /\ DOMAIN run.execs = 1..n /\ DOMAIN run'.execs = 1..(n + 1)
  BY <1>3, <1>4
<1>6. OfNode(run')
  BY <1>2, <1>4, <1>5 DEF OfNode
<1> HIDE DEF n
<1>7. \A i \in DOMAIN run'.execs :
          \/ i \in DOMAIN run.execs /\ run'.execs[i] = run.execs[i]
          \/ /\ run'.execs[i].node = run.node
             /\ i \in DOMAIN run.execs => run'.execs[i].node = run.execs[i].node
  BY <1>2, <1>4, <1>5
<1> QED
  BY <1>5, <1>6, <1>7, EvidenceExtended

LEMMA EvidenceDecided ==
    ASSUME Kept, Evidenced, \A f \in Flows : InOrder(f),
           NEW request, NEW approved \in BOOLEAN, SubmitHuman(request, approved)
    PROVE  Evidenced'
<1> DEFINE n == Len(run.execs)
           o == IF approved THEN "Succeeded" ELSE "Failed"
<1>1. run.execs # <<>> /\ run.execs[n].node = run.node
  BY DEF SubmitHuman, Evidenced, OfNode
<1>2. run.execs \in Seq(Elements(run.execs))
  BY DEF Kept, Numbered
<1>3. n \in Nat /\ n \in 1..n /\ DOMAIN run.execs = 1..n
  BY <1>1, <1>2
<1>4. /\ run'.execs = [run.execs EXCEPT ![n] = [run.execs[n] EXCEPT !.outcome = o]]
      /\ run'.node = run.node /\ run'.state \in {"Running", "Failed"} /\ def' = def
  BY DEF SubmitHuman, Kept
<1>5. run.execs[n] = [node |-> run.execs[n].node, outcome |-> run.execs[n].outcome,
                      drive |-> run.execs[n].drive]
  BY <1>3 DEF Kept, Numbered, Execution
<1> HIDE DEF o
<1>6. DOMAIN run'.execs = 1..n /\ \A i \in 1..n : i # n => run'.execs[i] = run.execs[i]
  BY <1>3, <1>4
<1>7. run'.execs[n].node = run.execs[n].node
  BY <1>3, <1>4, <1>5
<1>8. Len(run'.execs) = n
  BY <1>3, <1>6
<1>9. OfNode(run')
  BY <1>1, <1>3, <1>4, <1>6, <1>7, <1>8 DEF OfNode
<1> HIDE DEF n
<1>10. \A i \in DOMAIN run'.execs :
           \/ i \in DOMAIN run.execs /\ run'.execs[i] = run.execs[i]
           \/ /\ run'.execs[i].node = run.node
              /\ i \in DOMAIN run.execs => run'.execs[i].node = run.execs[i].node
  BY <1>1, <1>3, <1>6, <1>7
<1> QED
  BY <1>3, <1>4, <1>6, <1>9, <1>10, EvidenceExtended

LEMMA EvidenceAdvances ==
    ASSUME Kept, Clear, Evidenced, \A f \in Flows : InOrder(f), AdvanceNode \/ CompleteRun
    PROVE  Evidenced'
<1> USE DEF At, Goto
<1>1. OfNode(run) /\ LastOutcome(run) = "Succeeded" /\ HasNext(def, run.node)
  BY DEF AdvanceNode, CompleteRun, Advancing, Routing, Evidenced, Clear
<1>2. PICK i \in 1..Len(def.required) :
          /\ run.node = def.required[i]
          /\ NextNode(def, run.node) # Complete =>
                 i < Len(def.required) /\ NextNode(def, run.node) = def.required[i + 1]
          /\ NextNode(def, run.node) = Complete => i = Len(def.required)
  BY <1>1, RequiredStands, SuccessLeadsOn
<1>3. i \in Nat \ {0} /\ i \in DOMAIN def.required /\ i - 1 \in 1..Len(def.required) \cup {0}
  BY RequiredStands
<1>4. i > 1 => def.required[i - 1] # def.required[i]
  BY <1>3, RequiredStands
<1>5. Evident(run, i)
  <2>1. Evident(run, i - 1)
    BY <1>2, <1>3 DEF Evidenced
  <2> QED
    BY <1>1, <1>2, <1>3, <1>4, <2>1, EvidentNext DEF Kept, Numbered
<1>6. run'.execs = run.execs /\ def' = def
  BY DEF AdvanceNode, CompleteRun, Kept
<1>7. \A k : Evident(run, k) => Evident(run, k)'
  BY <1>6 DEF Evident, IsLast
<1>8. CASE AdvanceNode
  <2>1. /\ run'.node = NextNode(def, run.node) /\ run'.state = run.state
        /\ NextNode(def, run.node) # Complete /\ call'.pc \in {"dispatch", "between"}
    BY <1>8 DEF AdvanceNode, Kept
  <2>2. call.pc \in {"route", "approved"}
    BY <1>8 DEF AdvanceNode, Advancing, Routing
  <2>3. run'.state \notin {"Waiting", "Completed"}
    BY <2>1, <2>2 DEF Evidenced, Ends
  <2>4. ASSUME NEW k \in DOMAIN def.required, run'.node = def.required[k]
        PROVE  Evident(run, k - 1)'
    <3>1. k = i + 1
      BY <1>2, <1>3, <2>1, <2>4, RequiredStands
    <3>2. k - 1 = i
      BY <1>3, <3>1
    <3> QED
      BY <1>5, <1>7, <3>2
  <2> QED
    BY <1>6, <2>1, <2>3, <2>4 DEF Evidenced
<1>9. CASE CompleteRun
  <2>1. /\ run'.node = "" /\ run'.state = "Completed"
        /\ NextNode(def, run.node) = Complete /\ call'.pc = "ending"
    BY <1>9 DEF CompleteRun, Kept
  <2>2. Evident(run, Len(def.required))'
    BY <1>2, <1>5, <1>6, <1>7, <2>1
  <2>3. ASSUME NEW k \in DOMAIN def.required PROVE Evident(run, k - 1)'
    <3>1. /\ k \in Int /\ k - 1 \in Int /\ k - 1 <= Len(def.required)
          /\ Len(def.required) \in Nat
      BY RequiredStands
    <3>2. Evident(run, Len(def.required))
      BY <1>2, <1>5, <2>1
    <3>3. Evident(run, k - 1)
      BY <3>1, <3>2, EvidentBefore
    <3> QED
      BY <1>7, <3>3
  <2> QED
    BY <1>6, <2>1, <2>2, <2>3 DEF Evidenced, Ends
<1> QED
  BY <1>8, <1>9

LEMMA EvidenceSentBack ==
    ASSUME Kept, Evidenced, \A f \in Flows : InOrder(f), Rework
    PROVE  Evidenced'
<1>1. /\ run'.execs = run.execs /\ def' = def /\ run'.node = def.target
      /\ run'.state = run.state /\ call'.pc = "between" /\ call.pc = "route"
      /\ MayRework(def, run.node)
  BY DEF Rework, Routing, At, Goto, Kept
<1>2. PICK i \in 1..Len(def.required) :
          /\ run.node = def.required[i]
          /\ \A j \in DOMAIN def.required : def.required[j] = def.target => j <= i
  BY <1>1, RequiredStands, FindingsLeadBack
<1>3. Evident(run, i - 1) /\ i \in Nat \ {0}
  BY <1>2, RequiredStands DEF Evidenced
<1>4. \A k : Evident(run, k) => Evident(run, k)'
  BY <1>1 DEF Evident, IsLast
<1>5. ASSUME NEW k \in DOMAIN def.required, run'.node = def.required[k]
      PROVE  Evident(run, k - 1)'
  <2>1. k - 1 \in Int /\ k - 1 <= i - 1 /\ i - 1 \in Nat
    BY <1>1, <1>2, <1>3, <1>5, RequiredStands
  <2>2. Evident(run, k - 1)
    BY <1>3, <2>1, EvidentBefore
  <2> QED
    BY <1>4, <2>2
<1>6. run.state \notin {"Waiting", "Completed"}
  BY <1>1 DEF Evidenced, Ends
<1> QED
  BY <1>1, <1>5, <1>6 DEF Evidenced

LEMMA EvidenceInit == ASSUME \A f \in Flows : InOrder(f), Init PROVE Evidenced
<1>1. /\ def \in Flows /\ run.node = "" /\ run.state = "None" /\ run.execs = <<>>
      /\ call.pc = "idle"
  BY IdleIsIdle DEF Init, NoRun
<1>2. \A k \in DOMAIN def.required : run.node # def.required[k]
  BY <1>1 DEF InOrder
<1> QED
  BY <1>1, <1>2 DEF Evidenced

LEMMA EvidenceStep ==
    ASSUME Kept, Clear, Evidenced, \A f \in Flows : InOrder(f), [Next]_vars
    PROVE  Evidenced'
<1> USE DEF Goto, At, Live
<1>1. CASE UNCHANGED vars \/ Terminated \/ HostStops
  <2>1. Undisturbed
    BY <1>1 DEF vars, Terminated, HostStops, Kept, Evidenced, Undisturbed
  <2> QED
    BY <2>1, EvidenceUndisturbed
<1>2. ASSUME NEW pause \in BOOLEAN, RequestStop(pause) PROVE Evidenced'
  <2>1. Undisturbed
    BY <1>2 DEF RequestStop, Kept, Evidenced, Undisturbed
  <2> QED
    BY <2>1, EvidenceUndisturbed
<1>3. CASE Start
  <2>1. /\ run'.execs = <<>> /\ def' = def /\ run'.node = def.entry /\ run'.state = "Created"
        /\ call'.pc = "created"
    BY <1>3 DEF Start, NoRun, Kept
  <2>2. ASSUME NEW k \in DOMAIN def.required, run'.node = def.required[k]
        PROVE  Evident(run, k - 1)'
    <3>1. def.entry = def.required[1]
      BY RequiredStands DEF InOrder
    <3>2. 1 \in 1..Len(def.required) /\ k \in 1..Len(def.required)
      BY RequiredStands
    <3>3. k = 1
      BY <2>1, <2>2, <3>1, <3>2, RequiredStands
    <3> QED
      BY <3>3 DEF Evident
  <2> QED
    BY <2>1, <2>2 DEF Evidenced
<1>4. CASE Started \/ Resume \/ Launch \/ Execute \/ Settle \/ SettleRefused \/ Retry \/ NodeFails
           \/ ReworkNotAllowed \/ ReworkBudgetExhausted
  <2>1. def' = def /\ run'.execs = run.execs /\ run'.node = run.node
    BY <1>4 DEF Started, Resume, Launch, Execute, Settle, SettleRefused, Retry, NodeFails,
                ReworkNotAllowed, ReworkBudgetExhausted, Kept
  <2>2. run.state \notin {"Waiting", "Completed"}
    <3>1. CASE Resume
      BY <3>1 DEF Resume
    <3>2. CASE ~Resume
      <4>1. call.pc \in {"created", "launch", "dispatch", "settled", "route"}
        <5>1. Started \/ Launch \/ Execute \/ Settle \/ SettleRefused =>
                  call.pc \in {"created", "launch", "dispatch", "settled"}
          BY DEF Started, Launch, Execute, Settle, SettleRefused
        <5>2. Retry \/ NodeFails \/ ReworkNotAllowed \/ ReworkBudgetExhausted => call.pc = "route"
          BY DEF Retry, NodeFails, ReworkNotAllowed, ReworkBudgetExhausted, Routing
        <5> QED
          BY <1>4, <3>2, <5>1, <5>2
      <4> QED
        BY <4>1 DEF Evidenced, Ends
    <3> QED
      BY <3>1, <3>2
  <2>3. run'.state \notin {"Waiting", "Completed"}
    <3>1. NodeFails => run'.state = EndState(LastOutcome(run))
      BY DEF NodeFails, Kept
    <3>2. CASE ~NodeFails
      BY <1>4, <2>2, <3>2 DEF Started, Resume, Launch, Execute, Settle, SettleRefused, Retry,
                              ReworkNotAllowed, ReworkBudgetExhausted, Kept
    <3> QED
      BY <3>1, <3>2, Ended
  <2>4. call'.pc \in {"settled", "route", "approved"} => call.pc \in {"settled", "route", "approved"}
    BY <1>4 DEF Started, Resume, Launch, Execute, Settle, SettleRefused, Retry, NodeFails,
                ReworkNotAllowed, ReworkBudgetExhausted, Kept
  <2>5. Undisturbed
    BY <2>1, <2>3, <2>4 DEF Undisturbed
  <2> QED
    BY <2>5, EvidenceUndisturbed
<1>5. CASE Wait
  <2>1. /\ def' = def /\ run'.execs = run.execs /\ run'.node = run.node
        /\ run'.state = "Waiting" /\ call'.pc = "ending" /\ call.pc = "route"
    BY <1>5 DEF Wait, Routing, Kept
  <2>2. \A k : Evident(run, k) => Evident(run, k)'
    BY <2>1 DEF Evident, IsLast
  <2>3. OfNode(run')
    BY <2>1 DEF Evidenced, OfNode
  <2> QED
    BY <2>1, <2>2, <2>3 DEF Evidenced, Ends
<1>6. CASE AdvanceRefused \/ NextDispatch \/ StoppedEarly \/ EngineStops \/ Fault \/ Cancelled
           \/ Escape
  <2>1. def' = def /\ run' = run
    BY <1>6 DEF AdvanceRefused, NextDispatch, StoppedEarly, EngineStops, Fault, Cancelled, Escape
  <2>2. call'.pc \in {"threw", "escaped", "dispatch", "ending"}
    BY <1>6 DEF AdvanceRefused, AdvanceThrows, NextDispatch, StoppedEarly, EngineStops, Fault,
                Cancelled, Escape, Kept
  <2>3. call'.pc = "dispatch" => run.state \notin {"Waiting", "Completed"}
    BY <1>6 DEF AdvanceRefused, AdvanceThrows, NextDispatch, StoppedEarly, EngineStops, Fault,
                Cancelled, Escape, Kept, Evidenced, Ends
  <2> QED
    BY <2>1, <2>2, <2>3, EvidenceUndisturbed DEF Undisturbed, Ends
<1>7. CASE Return \/ CaughtReturn \/ (CatchStop /\ Settled(run))
  <2>1. def' = def /\ run' = run /\ call'.pc = "idle"
    BY <1>7, IdleIsIdle DEF Return, CaughtReturn, CatchStop
  <2> QED
    BY <2>1, EvidenceUndisturbed DEF Undisturbed, Ends
<1>8. CASE CatchError \/ (CatchStop /\ ~Settled(run) /\ run.node = "")
  <2>1. /\ def' = def /\ run'.execs = run.execs /\ run'.node = run.node
        /\ run'.state \in {"Failed", "Paused", "Cancelled"} /\ call'.pc = "caught"
    BY <1>8 DEF CatchError, CatchStop, Kept
  <2> QED
    BY <2>1, EvidenceUndisturbed DEF Undisturbed
<1>9. CASE HandlerReturns \/ NodeTimeout \/ NodeStopped
  <2>1. PICK outcome : Record(outcome)
    BY <1>9 DEF HandlerReturns, NodeTimeout, NodeStopped
  <2>2. run' = Append1(run, run.node, outcome) /\ def' = def /\ call.pc = "executing"
    BY <2>1 DEF Record
  <2>3. run'.node = run.node /\ run'.state = run.state
    BY <2>2 DEF Append1, Kept
  <2>4. run.state \notin {"Waiting", "Completed"}
    BY <2>2 DEF Evidenced, Ends
  <2> QED
    BY <2>2, <2>3, <2>4, EvidenceRecorded
<1>10. CASE CatchStop /\ ~Settled(run) /\ run.node # ""
  <2> DEFINE o == IF call.pause THEN "Interrupted" ELSE "Cancelled"
  <2>1. /\ run' = [Append1(run, run.node, o) EXCEPT
                     !.state = IF call.pause THEN "Paused" ELSE "Cancelled",
                     !.failure = IF call.pause THEN "STOPPED" ELSE "CANCELLED",
                     !.request = 0]
        /\ def' = def
    BY <1>10 DEF CatchStop, Kept
  <2> HIDE DEF o
  <2>2. /\ run'.execs = Append1(run, run.node, o).execs /\ run'.node = run.node
        /\ run'.state \in {"Paused", "Cancelled"}
    BY <2>1 DEF Append1, Kept
  <2> QED
    BY <2>1, <2>2, EvidenceRecorded
<1>11. CASE Rework
  BY <1>11, EvidenceSentBack
<1>12. CASE AdvanceNode \/ CompleteRun
  BY <1>12, EvidenceAdvances
<1>13. ASSUME NEW request, NEW approved \in BOOLEAN, SubmitHuman(request, approved)
       PROVE  Evidenced'
  BY <1>13, EvidenceDecided
<1> QED
  BY <1>1, <1>2, <1>3, <1>4, <1>5, <1>6, <1>7, <1>8, <1>9, <1>10, <1>11, <1>12, <1>13
     DEF Next, Engine

\* Under definitions like those of the catalogs, whatever is stopped, resumed, sent back or
\* thrown: a completed run went through all its required steps, each successful the last time
\* and after the one before it (Advance, Rework, ResumeAsync).
THEOREM EvidenceKeepsItsOrder ==
    ASSUME \A f \in Flows : InOrder(f)
    PROVE  Spec => []EvidenceInOrder
<1>1. Evidenced /\ Kept => EvidenceInOrder
  <2> SUFFICES ASSUME Evidenced, Kept, run.state = "Completed", NEW i \in DOMAIN def.required
               PROVE  /\ LastOf(run, def.required[i]) > 0
                      /\ run.execs[LastOf(run, def.required[i])].outcome = "Succeeded"
                      /\ i > 1 => LastOf(run, def.required[i - 1]) < LastOf(run, def.required[i])
    BY DEF EvidenceInOrder
  <2>1. DOMAIN run.execs = 1..Len(run.execs) /\ Len(run.execs) \in Nat
    BY DEF Kept, Numbered
  <2>2. Evident(run, Len(def.required)) /\ i \in 1..Len(def.required)
    BY RequiredStands DEF Evidenced
  <2>3. PICK m \in DOMAIN run.execs :
            /\ IsLast(run, def.required[i], m) /\ run.execs[m].outcome = "Succeeded"
            /\ i > 1 => \E l \in DOMAIN run.execs : IsLast(run, def.required[i - 1], l) /\ l < m
    BY <2>2 DEF Evident
  <2>4. \A node, l : IsLast(run, node, l) => LastOf(run, node) = l
    BY <2>1, LastIsLast
  <2> QED
    BY <2>1, <2>3, <2>4
<1>2. Kept /\ Clear /\ Evidenced /\ [Next]_vars => (Kept /\ Clear /\ Evidenced)'
  BY KeptStep, ClearStep, EvidenceStep
<1>3. Init => Kept /\ Clear /\ Evidenced
  BY RunInit, EvidenceInit DEF IInv
<1> QED
  BY <1>1, <1>2, <1>3, PTL DEF Spec
=============================================================================
