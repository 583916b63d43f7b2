------------------------ MODULE DirectContractProofs ------------------------
(***************************************************************************)
(* The tasks and the rows of their runs, for every number of each: what    *)
(* awaits acceptance is what was verified, a run that was left active can  *)
(* be recovered, and DirectWorkflow implements DeliveryContract.           *)
(***************************************************************************)
EXTENDS DirectProofs

\* A run that was never asked for is nobody's; one that executes is the last
\* run of a task in Checking; one that completed did so under the agreement of
\* its task, or under an earlier one.  `k` is the record of the row's task.
RowSound(r, row, k) ==
    /\ row.ticket = "None" => row.state = "None" /\ row.task = None
    /\ row.state \in ActiveStates =>
           row.task # None /\ k.stage = "Checking" /\ k.run = r
    /\ row.state = "Completed" =>
           row.task # None /\ k.agr # None /\ row.agr <= k.agr.ver

\* AcceptedIsVerified, of one task and the row of its run.
TaskRowed(t, k, row) ==
    /\ k.run # None => row.task = t /\ row.ticket # "None"
    /\ k.stage = "Checking" => k.run # None
    /\ k.stage \in {"AwaitingAcceptance", "Done"} =>
           /\ k.run # None /\ k.submitted # None
           /\ row.state = "Completed" /\ row.stamp = k.submitted /\ row.agr = k.agr.ver
           /\ k.reqDocs => k.captured = k.run
    /\ k.stage = "Done" /\ k.reqDocs =>
           k.align = [run |-> k.run, stamp |-> k.submitted]

\* How far the row of a command's run is at each of the command's steps.
CommandRowed(m, row) ==
    /\ m.op = "verify" =>
           /\ IF m.step = "ticket" THEN row.ticket = "None"
              ELSE row.ticket # "None" /\ row.task = m.task
           /\ m.step \notin {"ticket", "checkpoint"} =>
                  row.stamp = m.snap /\ row.agr = m.read.agr.ver
           /\ m.step \in Early \cup {"start"} => row.state = "None"
           /\ m.step = "created" => row.state = "Created"
           /\ m.step = "running" => row.state = "Running"
           /\ m.step \notin {"created", "running"} => row.state \notin ActiveStates
    /\ m.op = "recover" =>
           m.step # "approve" /\ (m.step # "recover" => row.state \notin ActiveStates)

RowInv ==
    /\ \A r \in RunIds : RowSound(r, run[r], task[run[r].task])
    /\ \A t \in Tasks : TaskRowed(t, task[t], run[task[t].run])
    /\ \A c \in Clients : cmd[c] # Idle => CommandRowed(cmd[c], run[cmd[c].run])

\* Everything that is proved of the Direct workflow's states.
DirectInv == TypeInv /\ WriterInv /\ RecordInv /\ RowInv

-----------------------------------------------------------------------------
(* Rows and records, one changed at a time.                                *)

\* Two records of which a run's row says the same.
SameRowed(a, b) ==
    /\ a.stage = b.stage /\ a.run = b.run /\ a.agr = b.agr /\ a.submitted = b.submitted
    /\ a.reqDocs = b.reqDocs /\ a.captured = b.captured /\ a.align = b.align

LEMMA Typed ==
    ASSUME TypeInv
    PROVE  /\ \A r \in RunIds : run[r] \in RunRecord /\ run[r].task \in Tasks \cup {None}
                                /\ run[r].agr \in Nat
           /\ \A t \in Tasks : task[t] \in TaskRecord /\ task[t].run \in RunIds \cup {None}
           /\ None \notin Tasks \cup RunIds
BY DirectAssumption DEF TypeInv, TypeOK, RunRecord, TaskRecord

LEMMA RowChanges ==
    ASSUME TypeInv, RowInv, NEW r \in RunIds, NEW row,
           run' = [run EXCEPT ![r] = row],
           \A t \in Tasks : SameRowed(task'[t], task[t]),
           row.task \in Tasks, RowSound(r, row, task[row.task]),
           \A t \in Tasks : task[t].run = r => TaskRowed(t, task[t], row)
    PROVE  /\ \A q \in RunIds : RowSound(q, run'[q], task'[run'[q].task])
           /\ \A t \in Tasks : TaskRowed(t, task'[t], run'[task'[t].run])
<1>1. run'[r] = row /\ \A q \in RunIds \ {r} : run'[q] = run[q]
  BY DEF TypeInv, TypeOK
<1>2. ASSUME NEW q \in RunIds PROVE RowSound(q, run'[q], task'[run'[q].task])
  <2>1. CASE q = r
    BY <1>1, <2>1 DEF RowSound, SameRowed
  <2>2. CASE q # r
    <3>1. run'[q] = run[q] /\ RowSound(q, run[q], task[run[q].task])
          /\ run[q].task \in Tasks \cup {None}
      BY <1>1, <2>2, Typed DEF RowInv
    <3>2. CASE run[q].task \in Tasks
      BY <3>1, <3>2 DEF RowSound, SameRowed
    <3>3. CASE run[q].task = None
      BY <3>1, <3>3 DEF RowSound
    <3>4. QED
      BY <3>1, <3>2, <3>3
  <2>3. QED
    BY <2>1, <2>2
<1>3. ASSUME NEW t \in Tasks PROVE TaskRowed(t, task'[t], run'[task'[t].run])
  <2>1. task'[t].run = task[t].run /\ task[t].run \in RunIds \cup {None}
        /\ TaskRowed(t, task[t], run[task[t].run]) /\ SameRowed(task'[t], task[t])
    BY Typed DEF SameRowed, RowInv
  <2>2. CASE task[t].run = r
    BY <1>1, <2>1, <2>2 DEF TaskRowed, SameRowed
  <2>3. CASE task[t].run # r /\ task[t].run # None
    BY <1>1, <2>1, <2>3 DEF TaskRowed, SameRowed
  <2>4. CASE task[t].run = None
    BY <2>1, <2>4 DEF TaskRowed, SameRowed
  <2>5. QED
    BY <2>2, <2>3, <2>4
<1>4. QED
  BY <1>2, <1>3

\* A record may be rewritten when no run of the task is active, its agreement
\* stays or is followed by a new one, and its row fits what is written.
LEMMA TaskChanges ==
    ASSUME TypeInv, TypeInv', RowInv, NEW t \in Tasks, NEW k, SameRowed(task'[t], k),
           \A u \in Tasks \ {t} : task'[u] = task[u], run' = run,
           task[t].stage = "Checking" => run[task[t].run].state \notin ActiveStates,
           task[t].agr # None => k.agr # None /\ task[t].agr.ver <= k.agr.ver,
           TaskRowed(t, k, run[k.run])
    PROVE  /\ \A q \in RunIds : RowSound(q, run'[q], task'[run'[q].task])
           /\ \A u \in Tasks : TaskRowed(u, task'[u], run'[task'[u].run])
<1>1. TaskRowed(t, task'[t], run[task'[t].run])
  BY DEF TaskRowed, SameRowed
<1>2. ASSUME NEW q \in RunIds PROVE RowSound(q, run[q], task'[run[q].task])
  <2>1. RowSound(q, run[q], task[run[q].task]) /\ run[q].task \in Tasks \cup {None}
        /\ run[q].agr \in Nat
    BY Typed DEF RowInv
  <2>2. CASE run[q].task = t
    <3>1. run[q].state \notin ActiveStates
      BY <2>1, <2>2 DEF RowSound
    <3>2. task[t].agr # None => task[t].agr.ver \in Nat /\ task'[t].agr.ver \in Nat
      <4>1. task[t].agr \in Agreements \cup {None} /\ task'[t].agr \in Agreements \cup {None}
        BY DEF TypeInv, TypeOK, TaskRecord
      <4>2. QED
        BY <4>1 DEF Agreements, SameRowed
    <3>3. run[q].state = "Completed" => run[q].agr <= task'[t].agr.ver
      BY <2>1, <2>2, <3>2 DEF RowSound, SameRowed
    <3>4. QED
      BY <2>1, <2>2, <3>1, <3>3 DEF RowSound, SameRowed
  <2>3. CASE run[q].task \in Tasks \ {t}
    BY <2>1, <2>3
  <2>4. CASE run[q].task = None
    BY <2>1, <2>4 DEF RowSound
  <2>5. QED
    BY <2>1, <2>2, <2>3, <2>4
<1>3. QED
  BY <1>1, <1>2 DEF RowInv

\* A row whose ticket or approval changes tells the same of its run.
LEMMA RowTouched ==
    ASSUME TypeInv, RowInv, NEW r \in RunIds \cup {None}, NEW row,
           run' = [run EXCEPT ![r] = row], task' = task,
           r \in RunIds => /\ row.task = run[r].task /\ row.state = run[r].state
                           /\ row.stamp = run[r].stamp /\ row.agr = run[r].agr
                           /\ row.ticket # "None" \/ row.ticket = run[r].ticket
    PROVE  /\ \A q \in RunIds : RowSound(q, run'[q], task'[run'[q].task])
           /\ \A t \in Tasks : TaskRowed(t, task'[t], run'[task'[t].run])
<1>1. /\ \A q \in RunIds \ {r} : run'[q] = run[q]
      /\ r \in RunIds => run'[r] = row
  BY DEF TypeInv, TypeOK
<1>2. \A q \in RunIds : RowSound(q, run[q], task[run[q].task])
  BY DEF RowInv
<1>3. ASSUME NEW q \in RunIds PROVE RowSound(q, run'[q], task[run'[q].task])
  BY <1>1, <1>2 DEF RowSound
<1>4. ASSUME NEW t \in Tasks PROVE TaskRowed(t, task[t], run'[task[t].run])
  <2>1. task[t].run \in RunIds \cup {None} /\ TaskRowed(t, task[t], run[task[t].run])
    BY Typed DEF RowInv
  <2>2. CASE task[t].run = r /\ r \in RunIds
    BY <1>1, <2>1, <2>2 DEF TaskRowed
  <2>3. CASE task[t].run \in RunIds \ {r}
    BY <1>1, <2>1, <2>3 DEF TaskRowed
  <2>4. CASE task[t].run = None
    BY <2>1, <2>4 DEF TaskRowed
  <2>5. QED
    BY <2>1, <2>2, <2>3, <2>4
<1>5. QED
  BY <1>3, <1>4

-----------------------------------------------------------------------------
(* The steps that write a row.                                             *)

\* The command that is running, with all that is known of it.
LEMMA Running ==
    ASSUME DirectInv, NEW c \in Clients, cmd[c] # Idle
    PROVE  /\ cmd[c].task \in Tasks /\ CommandRowed(cmd[c], run[cmd[c].run])
           /\ cmd[c].run \in RunIds \cup {None}
           /\ cmd[c].op = "verify" => cmd[c].run \in RunIds /\ cmd[c].read.agr # None
           /\ cmd[c].op = "recover" =>
                  /\ task[cmd[c].task].stage = "Checking"
                  /\ cmd[c].run = task[cmd[c].task].run /\ cmd[c].run \in RunIds
                  /\ run[cmd[c].run].task = cmd[c].task
                  /\ run[cmd[c].run].ticket # "None"
<1>1. /\ cmd[c].task \in Tasks /\ cmd[c].run \in RunIds \cup {None}
      /\ Undertaken(cmd[c], profile)
      /\ Protected(cmd[c].op, cmd[c].step) => task[cmd[c].task] = cmd[c].read
  BY Loaded DEF DirectInv
<1>2. CommandRowed(cmd[c], run[cmd[c].run]) /\ cmd[c].op \in Ops
  BY CommandType DEF DirectInv, RowInv, TypeInv
<1>3. cmd[c].op = "verify" => cmd[c].run \in RunIds /\ cmd[c].read.agr # None
  BY <1>1 DEF Undertaken, DirectInv, TypeInv, AgreementRead
<1>4. CASE cmd[c].op = "recover"
  <2>1. task[cmd[c].task] = cmd[c].read
    BY <1>1, <1>2, <1>4 DEF Protected, CommandRowed
  <2>2. task[cmd[c].task].stage = "Checking" /\ cmd[c].run = task[cmd[c].task].run
    BY <1>1, <1>4, <2>1 DEF Undertaken
  <2>3. TaskRowed(cmd[c].task, task[cmd[c].task], run[task[cmd[c].task].run])
    BY <1>1 DEF DirectInv, RowInv
  <2>4. task[cmd[c].task].run # None
    BY <2>2, <2>3 DEF TaskRowed
  <2>5. run[cmd[c].run].task = cmd[c].task /\ run[cmd[c].run].ticket # "None"
    BY <2>2, <2>3, <2>4 DEF TaskRowed
  <2>6. QED
    BY <1>1, <1>2, <1>4, <2>2, <2>4, <2>5
<1>5. QED
  BY <1>1, <1>2, <1>3, <1>4

\* Who else could care about the row of a running command: nobody.
LEMMA OwnRow ==
    ASSUME DirectInv, NEW c \in Clients, cmd[c].op \in {"verify", "recover"},
           NEW t \in Tasks, task[t].run = cmd[c].run, cmd[c].run \in RunIds
    PROVE  t = cmd[c].task /\ ~At(c, "verify", "ticket")
<1>1. cmd[c] # Idle
  BY IdleOp DEF Ops
<1>2. run[cmd[c].run].task = t /\ run[cmd[c].run].ticket # "None"
  BY Typed DEF DirectInv, RowInv, TaskRowed
<1>3. QED
  BY <1>1, <1>2, Running DEF CommandRowed, At

\* One write of a row, and on to the next step of the command.
LEMMA RunStepRows ==
    ASSUME DirectInv, NEW c \in Clients, NEW op \in {"verify", "recover"}, NEW from,
           NEW to, NEW row, RunStep(c, op, from, to, row), row.task = cmd[c].task,
           RowSound(cmd[c].run, row, task[cmd[c].task]),
           task[cmd[c].task].run = cmd[c].run /\ ~At(c, "verify", "ticket") =>
               TaskRowed(cmd[c].task, task[cmd[c].task], row),
           CommandRowed(cmd'[c], row)
    PROVE  RowInv'
<1> DEFINE r == cmd[c].run
<1>1. cmd[c] # Idle /\ cmd[c].op = op
  BY IdleOp DEF RunStep, At, Ops
<1>2. run' = [run EXCEPT ![r] = row] /\ task' = task /\ Goto(c, to)
  BY DEF RunStep
<1>3. r \in RunIds /\ cmd[c].task \in Tasks
  BY <1>1, Running
<1>4. \A t \in Tasks : task[t].run = r => TaskRowed(t, task[t], row)
  BY <1>1, <1>3, OwnRow
<1>5. /\ \A q \in RunIds : RowSound(q, run'[q], task'[run'[q].task])
      /\ \A t \in Tasks : TaskRowed(t, task'[t], run'[task'[t].run])
  BY <1>2, <1>3, <1>4, RowChanges DEF DirectInv, SameRowed
<1>6. run'[r] = row /\ cmd'[c].run = r /\ \A d \in Clients \ {c} : cmd'[d] = Idle
  BY <1>1, <1>2, <1>3, GotoFields, GotoEffect DEF DirectInv, TypeInv, TypeOK
<1>7. QED
  BY <1>5, <1>6 DEF RowInv

\* A verification writes its row: at the new step the row is where it should be,
\* and a verdict that was given for the task stays.
LEMMA VerifyRows ==
    ASSUME DirectInv, RecordInv', NEW c \in Clients, NEW from, NEW to, NEW row,
           RunStep(c, "verify", from, to, row), row.task = cmd[c].task,
           row.ticket # "None", CommandRowed(cmd'[c], row), row.agr \in Nat,
           from \notin Early => row.stamp = Row(c).stamp /\ row.agr = Row(c).agr,
           Row(c).state = "Completed" /\ to \notin Driving => row.state = "Completed"
    PROVE  RowInv'
<1> DEFINE r == cmd[c].run
           k == task[cmd[c].task]
           m == cmd'[c]
<1>1. cmd[c] # Idle /\ cmd[c].op = "verify" /\ cmd[c].step = from
  BY IdleOp DEF RunStep, At, Ops
<1>2. r \in RunIds /\ cmd[c].task \in Tasks /\ CommandRowed(cmd[c], run[r])
      /\ cmd[c].read.agr # None
  BY <1>1, Running
<1>3. task' = task /\ Goto(c, to)
  BY DEF RunStep
<1>4. /\ m.step = to /\ m.op = "verify" /\ m.task = cmd[c].task /\ m.read = cmd[c].read
      /\ m.run = r /\ m.snap = cmd[c].snap /\ m # Idle
  BY <1>1, <1>3, GotoFields, IdleOp DEF DirectInv, Ops
<1>5. Carried(m, k)
  BY <1>3, <1>4 DEF RecordInv
<1>6. RowSound(r, row, k)
  <2>1. row.state \in ActiveStates => to \in {"created", "running"}
    BY <1>4 DEF CommandRowed
  <2>2. row.state \in ActiveStates => k.stage = "Checking" /\ k.run = r
    BY <1>4, <1>5, <2>1 DEF Carried, Verified, Early, Driving
  <2>3. row.state = "Completed" => to \notin Early \cup {"start"}
    BY <1>4 DEF CommandRowed
  <2>4. row.state = "Completed" => k.agr = m.read.agr /\ row.agr = m.read.agr.ver
    BY <1>4, <1>5, <2>3 DEF Carried, Verified, Early, CommandRowed
  <2>5. QED
    BY <1>2, <1>4, <2>2, <2>4, DirectAssumption DEF RowSound
<1>7. ASSUME k.run = r, ~At(c, "verify", "ticket")
      PROVE  TaskRowed(cmd[c].task, k, row)
  <2>1. TaskRowed(cmd[c].task, k, run[r]) /\ k.run # None
    BY <1>2, <1>7, Typed DEF DirectInv, RowInv
  <2>2. CASE k.stage \in {"AwaitingAcceptance", "Done"}
    <3>1. run[r].state = "Completed"
      BY <2>1, <2>2 DEF TaskRowed
    <3>2. from \notin Early
      BY <1>1, <1>2, <3>1 DEF CommandRowed
    <3>3. to \notin Driving
      BY <1>4, <1>5, <2>2 DEF Carried, Early, Driving
    <3>4. QED
      BY <2>1, <3>1, <3>2, <3>3 DEF TaskRowed, Row
  <2>3. QED
    BY <2>1, <2>2 DEF TaskRowed
<1>8. QED
  BY <1>6, <1>7, RunStepRows

LEMMA BlockedFields ==
    ASSUME NEW row \in RunRecord
    PROVE  LET b == BlockedRow(row) IN
           /\ b.task = row.task /\ b.ticket = row.ticket
           /\ b.stamp = row.stamp /\ b.agr = row.agr
           /\ b.state = (IF row.state \in {"None", "Completed"} THEN row.state ELSE "Blocked")
           /\ b.state \notin ActiveStates
BY DEF BlockedRow, RunRecord, ActiveStates

\* What is known of a command at the step it takes, and after it.
LEMMA RunStepFields ==
    ASSUME DirectInv, NEW c \in Clients, NEW op \in {"verify", "recover"}, NEW from,
           NEW to, NEW row, RunStep(c, op, from, to, row)
    PROVE  /\ cmd[c] # Idle /\ cmd[c].op = op /\ cmd[c].step = from
           /\ cmd'[c].op = op /\ cmd'[c].step = to /\ cmd'[c].task = cmd[c].task
           /\ cmd'[c].read = cmd[c].read /\ cmd'[c].snap = cmd[c].snap
           /\ Row(c) \in RunRecord /\ CommandRowed(cmd[c], Row(c))
<1>1. cmd[c] # Idle /\ cmd[c].op = op /\ cmd[c].step = from /\ Goto(c, to)
  BY IdleOp DEF RunStep, At, Ops
<1>2. cmd[c].run \in RunIds /\ CommandRowed(cmd[c], Row(c))
  BY <1>1, Running DEF Row
<1>3. Row(c) \in RunRecord
  BY <1>2, RowType DEF DirectInv, TypeInv
<1>4. QED
  BY <1>1, <1>2, <1>3, GotoFields DEF DirectInv

LEMMA VerifyRowsRows ==
    ASSUME DirectInv, RecordInv', NEW c \in Clients,
           \/ VerifyTicket(c) \/ VerifyCheckpoint(c) \/ RunCreated(c) \/ RunStarted(c)
           \/ \E outcome \in {"Failed", "ReworkRequired", "Cancelled"} : RunEnds(c, outcome)
           \/ VerifyFinish(c) \/ VerifyThrows(c)
    PROVE  RowInv'
<1> DEFINE old == Row(c)
<1>1. CASE VerifyTicket(c)
  <2> DEFINE row == [old EXCEPT !.ticket = "Running", !.task = cmd[c].task]
  <2>1. RunStep(c, "verify", "ticket", "checkpoint", row)
    BY <1>1 DEF VerifyTicket
  <2>2. old \in RunRecord /\ old.state = "None"
    BY <2>1, RunStepFields DEF CommandRowed, Early
  <2>3. /\ row.task = cmd[c].task /\ row.ticket = "Running" /\ row.state = "None"
        /\ row.stamp = old.stamp /\ row.agr = old.agr /\ row.agr \in Nat
    BY <2>2 DEF RunRecord
  <2> HIDE DEF row
  <2>4. CommandRowed(cmd'[c], row)
    BY <2>1, <2>3, RunStepFields DEF CommandRowed, ActiveStates
  <2>5. QED
    BY <2>1, <2>2, <2>3, <2>4, VerifyRows DEF Early
<1>2. CASE VerifyCheckpoint(c)
  <2> DEFINE row == [old EXCEPT !.stamp = cmd[c].snap, !.agr = cmd[c].read.agr.ver]
  <2>1. RunStep(c, "verify", "checkpoint", "checking", row)
    BY <1>2 DEF VerifyCheckpoint
  <2>2. /\ old \in RunRecord /\ old.state = "None" /\ old.ticket # "None"
        /\ old.task = cmd[c].task
    BY <2>1, RunStepFields DEF CommandRowed, Early
  <2>3. /\ row.task = cmd[c].task /\ row.ticket # "None" /\ row.state = "None"
        /\ row.stamp = cmd[c].snap /\ row.agr = cmd[c].read.agr.ver
    BY <2>2 DEF RunRecord
  <2>4. row.agr \in Nat
    BY <2>1, <2>3, RunStepFields, Running, CommandType
       DEF DirectInv, TypeInv, TaskRecord, Agreements
  <2> HIDE DEF row
  <2>5. CommandRowed(cmd'[c], row)
    BY <2>1, <2>3, RunStepFields DEF CommandRowed, ActiveStates
  <2>6. QED
    BY <2>1, <2>2, <2>3, <2>4, <2>5, VerifyRows DEF Early
<1>3. ASSUME NEW from \in {"start", "created", "running"},
             NEW to \in {"created", "running", "settle"},
             NEW state \in {"Created", "Running", "Failed", "ReworkRequired", "Cancelled"},
             RunStep(c, "verify", from, to, InState(c, state)),
             to = "created" <=> state = "Created", to = "running" <=> state = "Running"
      PROVE  RowInv'
  <2> DEFINE row == InState(c, state)
  <2>1. /\ old \in RunRecord /\ old.ticket # "None" /\ old.task = cmd[c].task
        /\ old.stamp = cmd[c].snap /\ old.agr = cmd[c].read.agr.ver
    BY <1>3, RunStepFields DEF CommandRowed
  <2>2. /\ row.task = cmd[c].task /\ row.ticket # "None" /\ row.state = state
        /\ row.stamp = old.stamp /\ row.agr = old.agr /\ row.agr \in Nat
    BY <2>1 DEF RunRecord, InState
  <2> HIDE DEF row
  <2>3. CommandRowed(cmd'[c], row)
    BY <1>3, <2>1, <2>2, RunStepFields DEF CommandRowed, ActiveStates, Early
  <2>4. QED
    BY <1>3, <2>2, <2>3, VerifyRows DEF Driving, row
<1>4. CASE VerifyFinish(c)
  <2> DEFINE row == [old EXCEPT !.ticket = "Finished"]
  <2>1. RunStep(c, "verify", "finish", "audit", row)
    BY <1>4 DEF VerifyFinish
  <2>2. /\ old \in RunRecord /\ old.ticket # "None" /\ old.task = cmd[c].task
        /\ old.stamp = cmd[c].snap /\ old.agr = cmd[c].read.agr.ver
        /\ old.state \notin ActiveStates
    BY <2>1, RunStepFields DEF CommandRowed
  <2>3. /\ row.task = cmd[c].task /\ row.ticket # "None" /\ row.state = old.state
        /\ row.stamp = old.stamp /\ row.agr = old.agr /\ row.agr \in Nat
    BY <2>2 DEF RunRecord
  <2> HIDE DEF row
  <2>4. CommandRowed(cmd'[c], row)
    BY <2>1, <2>2, <2>3, RunStepFields DEF CommandRowed, Early
  <2>5. QED
    BY <2>1, <2>2, <2>3, <2>4, VerifyRows
<1>5. CASE VerifyThrows(c)
  <2> DEFINE row == BlockedRow(old)
  <2>1. PICK step \in {"start", "created", "running", "settle", "finish", "audit"} :
            RunStep(c, "verify", step, "caught", row)
    BY <1>5 DEF VerifyThrows
  <2>2. /\ old \in RunRecord /\ old.ticket # "None" /\ old.task = cmd[c].task
        /\ old.stamp = cmd[c].snap /\ old.agr = cmd[c].read.agr.ver
    BY <2>1, RunStepFields DEF CommandRowed
  <2>3. /\ row.task = cmd[c].task /\ row.ticket # "None" /\ row.state \notin ActiveStates
        /\ (old.state = "Completed" => row.state = "Completed")
        /\ row.stamp = old.stamp /\ row.agr = old.agr /\ row.agr \in Nat
    BY <2>2, BlockedFields DEF RunRecord
  <2> HIDE DEF row
  <2>4. CommandRowed(cmd'[c], row)
    BY <2>1, <2>2, <2>3, RunStepFields DEF CommandRowed, Early
  <2>5. QED
    BY <2>1, <2>2, <2>3, <2>4, VerifyRows
<1>6. CASE RunCreated(c) \/ RunStarted(c)
  BY <1>3, <1>6 DEF RunCreated, RunStarted
<1>7. ASSUME NEW outcome \in {"Failed", "ReworkRequired", "Cancelled"}, RunEnds(c, outcome)
      PROVE  RowInv'
  BY <1>3, <1>7 DEF RunEnds
<1>8. QED
  BY <1>1, <1>2, <1>4, <1>5, <1>6, <1>7

LEMMA RecoverRowsRows ==
    ASSUME DirectInv, NEW c \in Clients, RecoverRun(c) \/ RecoverTicket(c)
    PROVE  RowInv'
<1> DEFINE old == Row(c)
           k == task[cmd[c].task]
<1>1. ASSUME NEW from, NEW to \in {"ticket", "save"}, NEW row,
             RunStep(c, "recover", from, to, row),
             row.task = old.task, row.ticket # "None", row.state \notin ActiveStates,
             row.state = "Completed" => row.state = old.state /\ row.agr = old.agr
      PROVE  RowInv'
  <2>1. /\ k.stage = "Checking" /\ cmd[c].run = k.run /\ cmd[c].run \in RunIds
        /\ cmd[c].task \in Tasks /\ old.task = cmd[c].task
    BY <1>1, RunStepFields, Running DEF Row
  <2>2. RowSound(cmd[c].run, old, k)
    BY <2>1 DEF DirectInv, RowInv, Row
  <2>3. RowSound(cmd[c].run, row, k)
    BY <1>1, <2>2 DEF RowSound
  <2>4. TaskRowed(cmd[c].task, k, row)
    BY <1>1, <2>1, Typed DEF TaskRowed, DirectInv
  <2>5. CommandRowed(cmd'[c], row)
    BY <1>1, RunStepFields DEF CommandRowed
  <2>6. QED
    BY <1>1, <2>1, <2>3, <2>4, <2>5, RunStepRows
<1>2. CASE RecoverRun(c)
  <2>1. RunStep(c, "recover", "recover", "ticket", BlockedRow(old))
    BY <1>2 DEF RecoverRun
  <2>2. old \in RunRecord /\ old.ticket # "None"
    BY <2>1, RunStepFields, Running DEF Row
  <2>3. QED
    BY <1>1, <2>1, <2>2, BlockedFields
<1>3. CASE RecoverTicket(c)
  <2> DEFINE row == [old EXCEPT !.ticket = "Interrupted"]
  <2>1. RunStep(c, "recover", "ticket", "save", row)
    BY <1>3 DEF RecoverTicket
  <2>2. old \in RunRecord /\ old.state \notin ActiveStates
    BY <2>1, RunStepFields DEF CommandRowed
  <2>3. /\ row.task = old.task /\ row.ticket # "None" /\ row.state = old.state
        /\ row.agr = old.agr
    BY <2>2 DEF RunRecord
  <2> HIDE DEF row
  <2>4. QED
    BY <1>1, <2>1, <2>2, <2>3
<1>4. QED
  BY <1>2, <1>3

-----------------------------------------------------------------------------
(* The steps that write a task record, and what they write.                *)

\* A record that another is made from by moving it to a stage.
Moved(a, b, stage) == a.stage = stage /\ a.agr = b.agr /\ a.run = b.run

OthersKept(t) == t \in Tasks /\ \A u \in Tasks \ {t} : task'[u] = task[u]

\* Nobody judged the record yet, in its new stage, and nothing executes for it.
LEMMA MovedRows ==
    ASSUME TypeInv, TypeInv', RowInv, NEW t, NEW stage, OthersKept(t), run' = run,
           Moved(task'[t], task[t], stage),
           stage \notin {"Checking", "AwaitingAcceptance", "Done"},
           task[t].stage = "Checking" => run[task[t].run].state \notin ActiveStates
    PROVE  /\ \A q \in RunIds : RowSound(q, run'[q], task'[run'[q].task])
           /\ \A u \in Tasks : TaskRowed(u, task'[u], run'[task'[u].run])
<1>1. TaskRowed(t, task'[t], run[task'[t].run])
  BY DEF Moved, TaskRowed, OthersKept, RowInv
<1>2. task[t].agr # None => task'[t].agr # None /\ task[t].agr.ver <= task'[t].agr.ver
  <2>1. task[t].agr \in Agreements \cup {None}
    BY DEF TypeInv, TypeOK, TaskRecord, OthersKept
  <2>2. QED
    BY <2>1 DEF Moved, Agreements
<1>3. QED
  BY <1>1, <1>2, TaskChanges DEF SameRowed, OthersKept

LEMMA WriteFields ==
    ASSUME TypeInv, NEW t \in Tasks, NEW k \in TaskRecord, Save(t, k)
    PROVE  OthersKept(t) /\ SameRowed(task'[t], k) /\ task'[t].stage = k.stage
BY SavedFields DEF TypeInv, OthersKept, SameButRev, SameRowed

\* Commands that look at nothing but the stored record.
LEMMA EditEffect ==
    ASSUME TypeInv, NEW c \in Clients, NEW t \in Tasks,
           \/ Create(c, t) \/ Document(c, t)
           \/ \E scopeChange \in BOOLEAN : Feedback(c, t, scopeChange)
    PROVE  /\ OthersKept(t) /\ run' = run /\ cmd' = cmd
           /\ \A d \in Clients : cmd[d] = Idle
           /\ \/ /\ Moved(task'[t], task[t], "Discussing")
                 /\ task[t].stage \notin {"Checking", "Done"}
              \/ /\ Moved(task'[t], task[t], "Rework")
                 /\ task[t].stage \in {"Ready", "Implementing", "Submitted", "Rework",
                                       "Blocked", "AwaitingAcceptance"}
<1>1. task[t] \in TaskRecord
  BY DEF TypeInv, TypeOK
<1>2. CASE Create(c, t)
  <2> DEFINE b == t \in DocTasks
             k == [task[t] EXCEPT !.stage = "Discussing", !.reqDocs = b]
  <2>1. /\ task' = [task EXCEPT ![t] = k] /\ task[t].stage = "Absent"
        /\ LeaseFree /\ cmd' = cmd /\ run' = run
    BY <1>2 DEF Create
  <2> HIDE DEF b
  <2>2. Moved(k, task[t], "Discussing")
    BY <1>1 DEF TaskRecord, Moved
  <2>3. task'[t] = k /\ OthersKept(t)
    BY <2>1 DEF OthersKept, TypeInv, TypeOK
  <2> HIDE DEF k
  <2>4. QED
    BY <2>1, <2>2, <2>3 DEF LeaseFree
<1>3. CASE Document(c, t)
  <2> DEFINE k == Staged(task[t], "Discussing")
             d == [k EXCEPT !.docs = @ + 1, !.reqDocs = TRUE, !.align = None,
                            !.lens = None]
  <2>1. /\ k \in TaskRecord /\ k.stage = "Discussing" /\ SameWork(k, task[t])
    BY <1>1, StagedFields DEF Stages
  <2>2. /\ Save(t, d) /\ LeaseFree /\ cmd' = cmd /\ run' = run
        /\ task[t].stage = "Discussing"
    BY <1>3 DEF Document, Editable
  <2> HIDE DEF k
  <2>3. k.docs + 1 \in Nat /\ TRUE \in BOOLEAN
    BY <2>1 DEF TaskRecord
  <2>4. d \in TaskRecord
    BY <2>1, <2>3, DocumentedType
  <2>5. Moved(d, task[t], "Discussing")
    BY <2>1 DEF TaskRecord, SameWork, Moved
  <2> HIDE DEF d
  <2>6. OthersKept(t) /\ SameRowed(task'[t], d)
    BY <2>2, <2>4, WriteFields
  <2>7. QED
    BY <2>2, <2>5, <2>6 DEF LeaseFree, Moved, SameRowed
<1>4. ASSUME NEW scopeChange \in BOOLEAN, Feedback(c, t, scopeChange)
      PROVE  /\ OthersKept(t) /\ run' = run /\ cmd' = cmd
             /\ \A d \in Clients : cmd[d] = Idle
             /\ Moved(task'[t], task[t], IF scopeChange THEN "Discussing" ELSE "Rework")
             /\ task[t].stage \in {"Ready", "Implementing", "Submitted", "Rework",
                                   "Blocked", "AwaitingAcceptance"}
  <2> DEFINE stage == IF scopeChange THEN "Discussing" ELSE "Rework"
             u == Unproven(task[t])
             k == Staged(u, stage)
  <2>1. u \in TaskRecord /\ stage \in Stages /\ u.agr = task[t].agr /\ u.run = task[t].run
    BY <1>1, UnprovenFields DEF Stages
  <2>2. /\ Save(t, k) /\ LeaseFree /\ cmd' = cmd /\ run' = run
        /\ task[t].stage \in {"Ready", "Implementing", "Submitted", "Rework",
                              "Blocked", "AwaitingAcceptance"}
    BY <1>4 DEF Feedback, Editable
  <2> HIDE DEF u, stage
  <2>3. k \in TaskRecord /\ k.stage = stage /\ SameWork(k, u)
    BY <2>1, StagedFields
  <2> HIDE DEF k
  <2>4. OthersKept(t) /\ SameRowed(task'[t], k)
    BY <2>2, <2>3, WriteFields
  <2>5. Moved(task'[t], task[t], stage)
    BY <2>1, <2>3, <2>4 DEF Moved, SameRowed, SameWork
  <2>6. QED
    BY <2>2, <2>4, <2>5 DEF LeaseFree, stage
<1>5. QED
  BY <1>2, <1>3, <1>4

\* The last write of a command finds the record that the command read.
LEMMA LastWriteEffect ==
    ASSUME DirectInv, NEW c \in Clients, NEW op \in Ops \ {"verify"},
           NEW k \in TaskRecord, LastWrite(c, op, k)
    PROVE  LET t == cmd[c].task IN
           /\ OthersKept(t) /\ run' = run /\ \A d \in Clients : cmd'[d] = Idle
           /\ SameRowed(task'[t], k) /\ task[t] = cmd[c].read /\ cmd[c] # Idle
           /\ Undertaken(cmd[c], profile) /\ cmd[c].op = op /\ cmd[c].step = "save"
<1> DEFINE t == cmd[c].task
<1>1. cmd[c] # Idle /\ cmd[c].op = op /\ cmd[c].step = "save"
  BY IdleOp DEF LastWrite, At
<1>2. t \in Tasks /\ Undertaken(cmd[c], profile) /\ task[t] = cmd[c].read
  BY <1>1, Loaded DEF DirectInv, Protected
<1>3. Save(t, k) /\ Exit(c) /\ run' = run
  BY DEF LastWrite
<1>4. OthersKept(t) /\ SameRowed(task'[t], k)
  BY <1>2, <1>3, WriteFields DEF DirectInv
<1>5. \A d \in Clients : cmd'[d] = Idle
  BY <1>1, <1>3, NobodyLeft DEF DirectInv
<1>6. QED
  BY <1>1, <1>2, <1>3, <1>4, <1>5

\* Commands that write their record back in a stage where it is worked on.
LEMMA WorkEffect ==
    ASSUME DirectInv, NEW c \in Clients,
           \/ Submit(c) \/ Recover(c) \/ \E approval \in BOOLEAN : Begin(c, approval)
    PROVE  LET t == cmd[c].task IN
           /\ OthersKept(t) /\ run' = run /\ \A d \in Clients : cmd'[d] = Idle
           /\ task[t].stage = "Checking" => run[task[t].run].state \notin ActiveStates
           /\ \/ /\ Moved(task'[t], task[t], "Submitted") /\ task[t].stage = "Implementing"
              \/ /\ Moved(task'[t], task[t], "Blocked") /\ task[t].stage = "Checking"
              \/ /\ Moved(task'[t], task[t], "Implementing")
                 /\ cmd[c] # Idle /\ cmd[c].op = "begin"
                 /\ task[t].stage \in {"Ready", "Rework", "Blocked"}
<1> DEFINE t == cmd[c].task
           old == cmd[c].read
<1>1. cmd[c] # Idle
  BY IdleOp DEF Submit, Begin, Recover, LastWrite, At, Ops
<1>2. old \in TaskRecord /\ cmd[c].snap \in Snapshots
  BY <1>1, Loaded DEF DirectInv
<1>3. /\ "submit" \in Ops \ {"verify"} /\ "begin" \in Ops \ {"verify"}
      /\ "recover" \in Ops \ {"verify"}
      /\ "Submitted" \in Stages /\ "Implementing" \in Stages /\ "Blocked" \in Stages
  BY DEF Ops, Stages
<1>4. CASE Submit(c)
  <2> DEFINE s == Staged(old, "Submitted")
             k == [s EXCEPT !.submitted = cmd[c].snap]
  <2>1. LastWrite(c, "submit", k)
    BY <1>4 DEF Submit
  <2>2. k \in TaskRecord
    BY <1>2, SubmittedRecord
  <2>3. s \in TaskRecord /\ s.stage = "Submitted" /\ SameWork(s, old)
    BY <1>2, <1>3, StagedFields
  <2> HIDE DEF s
  <2>4. Moved(k, old, "Submitted")
    BY <2>3 DEF TaskRecord, SameWork, Moved
  <2> HIDE DEF k
  <2>5. /\ OthersKept(t) /\ run' = run /\ \A d \in Clients : cmd'[d] = Idle
        /\ SameRowed(task'[t], k) /\ task[t] = old
        /\ Undertaken(cmd[c], profile) /\ cmd[c].op = "submit"
    BY <1>3, <2>1, <2>2, LastWriteEffect
  <2>6. task[t].stage = "Implementing"
    BY <2>5 DEF Undertaken
  <2>7. QED
    BY <2>4, <2>5, <2>6 DEF Moved, SameRowed
<1>5. ASSUME NEW approval \in BOOLEAN, Begin(c, approval)
      PROVE  /\ OthersKept(t) /\ run' = run /\ \A d \in Clients : cmd'[d] = Idle
             /\ Moved(task'[t], task[t], "Implementing") /\ cmd[c].op = "begin"
             /\ task[t].stage \in {"Ready", "Rework", "Blocked"}
  <2> DEFINE u == Unproven(old)
             s == Staged(u, "Implementing")
             n == IF approval THEN old.agr.ver ELSE s.risk
             k == [s EXCEPT !.risk = n]
  <2>1. LastWrite(c, "begin", k) /\ cmd[c].op = "begin"
    BY <1>5 DEF Begin, LastWrite, At
  <2>2. u \in TaskRecord /\ u.agr = old.agr /\ u.run = old.run
    BY <1>2, UnprovenFields
  <2>3. old.agr # None
    BY <2>1 DEF DirectInv, TypeInv, AgreementRead
  <2>4. k \in TaskRecord
    BY <1>2, <2>3, BegunRecord
  <2> HIDE DEF u
  <2>5. s \in TaskRecord /\ s.stage = "Implementing" /\ SameWork(s, u)
    BY <1>3, <2>2, StagedFields
  <2> HIDE DEF s, n
  <2>6. Moved(k, old, "Implementing")
    BY <2>2, <2>5 DEF TaskRecord, SameWork, Moved
  <2> HIDE DEF k
  <2>7. /\ OthersKept(t) /\ run' = run /\ \A d \in Clients : cmd'[d] = Idle
        /\ SameRowed(task'[t], k) /\ task[t] = old
        /\ Undertaken(cmd[c], profile) /\ cmd[c].op = "begin"
    BY <1>3, <2>1, <2>4, LastWriteEffect
  <2>8. task[t].stage \in {"Ready", "Rework", "Blocked"}
    BY <2>7 DEF Undertaken
  <2>9. QED
    BY <2>6, <2>7, <2>8 DEF Moved, SameRowed
<1>6. CASE Recover(c)
  <2> DEFINE k == Staged(old, "Blocked")
  <2>1. LastWrite(c, "recover", k)
    BY <1>6 DEF Recover
  <2>2. k \in TaskRecord /\ k.stage = "Blocked" /\ SameWork(k, old)
    BY <1>2, <1>3, StagedFields
  <2> HIDE DEF k
  <2>3. /\ OthersKept(t) /\ run' = run /\ \A d \in Clients : cmd'[d] = Idle
        /\ SameRowed(task'[t], k) /\ task[t] = old
        /\ Undertaken(cmd[c], profile) /\ cmd[c].op = "recover" /\ cmd[c].step = "save"
    BY <1>3, <2>1, <2>2, LastWriteEffect
  <2>4. task[t].stage = "Checking" /\ cmd[c].run = task[t].run
    BY <2>3 DEF Undertaken
  <2>5. run[task[t].run].state \notin ActiveStates
    BY <1>1, <2>3, <2>4, Running DEF CommandRowed
  <2>6. Moved(task'[t], task[t], "Blocked")
    BY <2>2, <2>3 DEF Moved, SameRowed, SameWork
  <2>7. QED
    BY <2>3, <2>4, <2>5, <2>6
<1>7. QED
  BY <1>1, <1>4, <1>5, <1>6

LEMMA AgreeEffect ==
    ASSUME DirectInv, NEW c \in Clients, Agree(c)
    PROVE  LET t == cmd[c].task IN
           /\ OthersKept(t) /\ run' = run /\ \A d \in Clients : cmd'[d] = Idle
           /\ task[t].stage = "Discussing" /\ task'[t].stage = "Ready"
           /\ task'[t].run = task[t].run /\ task'[t].agr # None
           /\ task[t].agr # None => task'[t].agr.ver = task[t].agr.ver + 1
<1> DEFINE t == cmd[c].task
           old == cmd[c].read
           k == Agreed(old, cmd[c].snap)
<1>1. cmd[c] # Idle /\ LastWrite(c, "agree", k) /\ "agree" \in Ops \ {"verify"}
  BY IdleOp DEF Agree, LastWrite, At, Ops
<1>2. /\ k \in TaskRecord /\ k.stage = "Ready" /\ k.run = old.run /\ k.agr # None
      /\ k.agr.ver = (IF old.agr = None THEN 0 ELSE old.agr.ver) + 1
  BY <1>1, Loaded, AgreedFields DEF DirectInv, TypeInv
<1> HIDE DEF k
<1>3. /\ OthersKept(t) /\ run' = run /\ \A d \in Clients : cmd'[d] = Idle
      /\ SameRowed(task'[t], k) /\ task[t] = old
      /\ Undertaken(cmd[c], profile) /\ cmd[c].op = "agree"
  BY <1>1, <1>2, LastWriteEffect
<1>4. task[t].stage = "Discussing"
  BY <1>3 DEF Undertaken
<1>5. QED
  BY <1>2, <1>3, <1>4 DEF SameRowed

\* Evidence is added to a record that awaits acceptance, and nothing else.
LEMMA EvidenceEffect ==
    ASSUME DirectInv, NEW c \in Clients, Align(c) \/ RecordLens(c)
    PROVE  LET t == cmd[c].task IN
           /\ OthersKept(t) /\ run' = run /\ \A d \in Clients : cmd'[d] = Idle
           /\ task[t].stage = "AwaitingAcceptance"
           /\ Moved(task'[t], task[t], "AwaitingAcceptance")
           /\ task'[t].submitted = task[t].submitted
           /\ task'[t].reqDocs = task[t].reqDocs /\ task'[t].captured = task[t].captured
<1> DEFINE t == cmd[c].task
           old == cmd[c].read
<1>1. cmd[c] # Idle
  BY IdleOp DEF Align, RecordLens, LastWrite, At, Ops
<1>2. /\ old \in TaskRecord
      /\ [run |-> old.run, stamp |-> cmd[c].snap] \in Evidence
      /\ [run |-> cmd[c].run, stamp |-> old.submitted] \in Evidence
  BY <1>1, Loaded DEF DirectInv, TaskRecord, Evidence
<1>3. "align" \in Ops \ {"verify"} /\ "lens" \in Ops \ {"verify"}
      /\ "AwaitingAcceptance" \in Stages
  BY DEF Ops, Stages
<1>4. CASE Align(c)
  <2> DEFINE s == Staged(old, "AwaitingAcceptance")
             e == [run |-> old.run, stamp |-> cmd[c].snap]
             k == [s EXCEPT !.align = e]
  <2>1. LastWrite(c, "align", k)
    BY <1>4 DEF Align
  <2>2. k \in TaskRecord
    BY <1>2, AlignedRecord
  <2>3. s \in TaskRecord /\ s.stage = "AwaitingAcceptance" /\ SameWork(s, old)
    BY <1>2, <1>3, StagedFields
  <2> HIDE DEF s, e
  <2>4. /\ Moved(k, old, "AwaitingAcceptance") /\ k.submitted = old.submitted
        /\ k.reqDocs = old.reqDocs /\ k.captured = old.captured
    BY <2>3 DEF TaskRecord, SameWork, Moved
  <2> HIDE DEF k
  <2>5. /\ OthersKept(t) /\ run' = run /\ \A d \in Clients : cmd'[d] = Idle
        /\ SameRowed(task'[t], k) /\ task[t] = old
        /\ Undertaken(cmd[c], profile) /\ cmd[c].op = "align"
    BY <1>3, <2>1, <2>2, LastWriteEffect
  <2>6. task[t].stage = "AwaitingAcceptance"
    BY <2>5 DEF Undertaken
  <2>7. QED
    BY <2>4, <2>5, <2>6 DEF Moved, SameRowed
<1>5. CASE RecordLens(c)
  <2> DEFINE e == [run |-> cmd[c].run, stamp |-> old.submitted]
             k == [old EXCEPT !.lens = e]
  <2>1. LastWrite(c, "lens", k)
    BY <1>5 DEF RecordLens
  <2>2. k \in TaskRecord
    BY <1>2, AlignedRecord
  <2> HIDE DEF e
  <2>3. /\ Moved(k, old, old.stage) /\ k.submitted = old.submitted
        /\ k.reqDocs = old.reqDocs /\ k.captured = old.captured
    BY <1>2 DEF TaskRecord, Moved
  <2> HIDE DEF k
  <2>4. /\ OthersKept(t) /\ run' = run /\ \A d \in Clients : cmd'[d] = Idle
        /\ SameRowed(task'[t], k) /\ task[t] = old
        /\ Undertaken(cmd[c], profile) /\ cmd[c].op = "lens"
    BY <1>3, <2>1, <2>2, LastWriteEffect
  <2>5. task[t].stage = "AwaitingAcceptance"
    BY <2>4 DEF Undertaken
  <2>6. QED
    BY <2>3, <2>4, <2>5 DEF Moved, SameRowed
<1>6. QED
  BY <1>4, <1>5

\* A write of a record on the way: the command goes on.
LEMMA TaskStepEffect ==
    ASSUME DirectInv, NEW c \in Clients, NEW op \in Ops, NEW from, NEW to,
           NEW k \in TaskRecord, TaskStep(c, op, from, to, k)
    PROVE  LET t == cmd[c].task IN
           /\ OthersKept(t) /\ run' = run /\ SameRowed(task'[t], k)
           /\ cmd[c] # Idle /\ cmd[c].op = op /\ cmd[c].step = from
           /\ \A d \in Clients \ {c} : cmd'[d] = Idle
           /\ cmd'[c].op = op /\ cmd'[c].step = to /\ cmd'[c].task = t
           /\ cmd'[c].read = cmd[c].read /\ cmd'[c].snap = cmd[c].snap
           /\ cmd'[c].run = cmd[c].run
<1>1. cmd[c] # Idle /\ cmd[c].op = op /\ cmd[c].step = from
  BY IdleOp DEF TaskStep, At
<1>2. Save(cmd[c].task, k) /\ Goto(c, to) /\ run' = run /\ cmd[c].task \in Tasks
  BY <1>1, Loaded DEF TaskStep, DirectInv
<1>3. OthersKept(cmd[c].task) /\ SameRowed(task'[cmd[c].task], k)
  BY <1>2, WriteFields DEF DirectInv
<1>4. QED
  BY <1>1, <1>2, <1>3, GotoFields, GotoEffect DEF DirectInv

LEMMA AcceptEffect ==
    ASSUME DirectInv, NEW c \in Clients, Accept(c)
    PROVE  LET t == cmd[c].task IN
           /\ OthersKept(t) /\ run' = run /\ \A d \in Clients \ {c} : cmd'[d] = Idle
           /\ cmd'[c].op = "accept"
           /\ task[t].stage = "AwaitingAcceptance" /\ Moved(task'[t], task[t], "Done")
           /\ task'[t].submitted = task[t].submitted
           /\ task'[t].reqDocs = task[t].reqDocs /\ task'[t].captured = task[t].captured
           /\ task[t].reqDocs =>
                  task'[t].align = [run |-> task[t].run, stamp |-> task[t].submitted]
<1> DEFINE t == cmd[c].task
           old == cmd[c].read
           k == Staged(old, "Done")
<1>1. TaskStep(c, "accept", "save", "approve", k) /\ "accept" \in Ops /\ cmd[c] # Idle
      /\ cmd[c].op = "accept" /\ cmd[c].step = "save"
  BY IdleOp DEF Accept, Ops, TaskStep, At
<1>2. old \in TaskRecord /\ task[t] = old /\ Undertaken(cmd[c], profile)
  BY <1>1, Loaded DEF DirectInv, Protected
<1>3. k \in TaskRecord /\ k.stage = "Done" /\ SameWork(k, old) /\ k.align = old.align
  BY <1>2, StagedFields DEF Stages
<1> HIDE DEF k
<1>4. /\ OthersKept(t) /\ run' = run /\ SameRowed(task'[t], k)
      /\ \A d \in Clients \ {c} : cmd'[d] = Idle
      /\ cmd'[c].op = "accept"
  BY <1>1, <1>3, TaskStepEffect
<1>5. /\ task[t].stage = "AwaitingAcceptance"
      /\ task[t].reqDocs =>
             task[t].align = [run |-> task[t].run, stamp |-> task[t].submitted]
  BY <1>1, <1>2 DEF Undertaken
<1>6. QED
  BY <1>2, <1>3, <1>4, <1>5 DEF Moved, SameRowed, SameWork

\* What the steps of a verification that write its record find and leave.
VerifyStepped(c, to) ==
    LET t == cmd[c].task IN
    /\ OthersKept(t) /\ \A d \in Clients \ {c} : cmd'[d] = Idle
    /\ cmd[c] # Idle /\ cmd[c].op = "verify" /\ CommandRowed(cmd[c], Row(c))
    /\ cmd'[c].op = "verify" /\ cmd'[c].step = to /\ cmd'[c].task = t
    /\ cmd'[c].read = cmd[c].read /\ cmd'[c].snap = cmd[c].snap
    /\ cmd'[c].run = cmd[c].run /\ cmd[c].run \in RunIds

LEMMA CheckingEffect ==
    ASSUME DirectInv, NEW c \in Clients, VerifyChecking(c)
    PROVE  LET t == cmd[c].task IN
           /\ VerifyStepped(c, "start") /\ run' = run /\ cmd[c].step = "checking"
           /\ task[t].stage \in {"Submitted", "Blocked"} /\ task'[t].stage = "Checking"
           /\ task'[t].run = cmd[c].run /\ task'[t].agr = task[t].agr
<1> DEFINE t == cmd[c].task
           old == cmd[c].read
           s == Staged(old, "Checking")
           k == [s EXCEPT !.run = cmd[c].run, !.align = None, !.lens = None,
                          !.captured = None]
<1>1. TaskStep(c, "verify", "checking", "start", k) /\ "verify" \in Ops /\ cmd[c] # Idle
      /\ cmd[c].op = "verify" /\ cmd[c].step = "checking"
  BY IdleOp DEF VerifyChecking, Ops, TaskStep, At
<1>2. old \in TaskRecord /\ task[t] = old /\ Undertaken(cmd[c], profile)
      /\ cmd[c].run \in RunIds \cup {None}
  BY <1>1, Loaded DEF DirectInv, Protected
<1>3. s \in TaskRecord /\ s.stage = "Checking" /\ SameWork(s, old)
  BY <1>2, StagedFields DEF Stages
<1>4. k \in TaskRecord
  BY <1>2, CheckingRecord
<1> HIDE DEF s
<1>5. k.stage = "Checking" /\ k.run = cmd[c].run /\ k.agr = old.agr
  BY <1>3 DEF TaskRecord, SameWork
<1> HIDE DEF k
<1>6. task[t].stage \in {"Submitted", "Blocked"}
  BY <1>1, <1>2 DEF Undertaken
<1>7. cmd[c].run \in RunIds /\ CommandRowed(cmd[c], Row(c))
  BY <1>1, Running DEF Row
<1>8. VerifyStepped(c, "start") /\ run' = run /\ SameRowed(task'[t], k)
  BY <1>1, <1>4, <1>7, TaskStepEffect DEF VerifyStepped
<1>9. QED
  BY <1>1, <1>2, <1>5, <1>6, <1>8 DEF SameRowed

\* The record of the verification that a command drives.
LEMMA Judging ==
    ASSUME DirectInv, NEW c \in Clients, cmd[c].op = "verify", cmd[c].step \notin Early
    PROVE  LET t == cmd[c].task IN
           /\ cmd[c] # Idle /\ t \in Tasks /\ task[t] \in TaskRecord
           /\ cmd[c].run \in RunIds /\ CommandRowed(cmd[c], Row(c))
           /\ task[t].run = cmd[c].run /\ task[t].submitted = cmd[c].snap
           /\ cmd[c].snap \in Snapshots /\ cmd[c].snap # None
           /\ task[t].agr = cmd[c].read.agr /\ task[t].agr # None
           /\ task[t].stage \in {"Checking", "AwaitingAcceptance", "Rework", "Blocked"}
           /\ cmd[c].step \in Driving => task[t].stage = "Checking"
<1>1. cmd[c] # Idle
  BY IdleOp DEF Ops
<1>2. cmd[c].run \in RunIds /\ CommandRowed(cmd[c], Row(c)) /\ cmd[c].read.agr # None
  BY <1>1, Running DEF Row
<1>3. /\ Carried(cmd[c], task[cmd[c].task]) /\ cmd[c].snap \in Snapshots
      /\ cmd[c].task \in Tasks /\ task[cmd[c].task] \in TaskRecord
  BY <1>1, Loaded DEF DirectInv
<1>4. QED
  BY <1>1, <1>2, <1>3, NoneIsNoSnapshot DEF Carried, Verified

LEMMA ResultEffect ==
    ASSUME DirectInv, NEW c \in Clients, VerifyResult(c)
    PROVE  LET t == cmd[c].task
               passed == Row(c).state = "Completed" IN
           /\ VerifyStepped(c, "finish") /\ run' = run /\ cmd[c].step = "settle"
           /\ task[t].stage = "Checking"
           /\ task'[t].agr = task[t].agr /\ task'[t].run = cmd[c].run
           /\ task'[t].submitted = cmd[c].snap /\ task'[t].reqDocs = task[t].reqDocs
           /\ IF passed THEN task'[t].stage = "AwaitingAcceptance"
                        ELSE task'[t].stage \in {"Rework", "Blocked"}
           /\ passed /\ task[t].reqDocs => task'[t].captured = cmd[c].run
<1> DEFINE t == cmd[c].task
           cur == task[t]
           verdict == Verdict(Row(c).state)
           r == IF Row(c).state = "Completed" /\ cur.reqDocs THEN cmd[c].run ELSE None
           s == Staged(cur, verdict)
           k == [s EXCEPT !.captured = r]
<1>1. TaskStep(c, "verify", "settle", "finish", k) /\ "verify" \in Ops
      /\ cmd[c].op = "verify" /\ cmd[c].step = "settle"
  BY DEF VerifyResult, Ops, TaskStep, At
<1>2. "settle" \notin Early /\ "settle" \in Driving
  BY DEF Early, Driving
<1>3. /\ cmd[c] # Idle /\ cur \in TaskRecord /\ cur.stage = "Checking"
      /\ cmd[c].run \in RunIds /\ CommandRowed(cmd[c], Row(c))
      /\ cur.run = cmd[c].run /\ cur.submitted = cmd[c].snap
  BY <1>1, <1>2, Judging
<1>4. /\ verdict \in Stages /\ r \in RunIds \cup {None}
      /\ IF Row(c).state = "Completed" THEN verdict = "AwaitingAcceptance"
                                       ELSE verdict \in {"Rework", "Blocked"}
      /\ Row(c).state = "Completed" /\ cur.reqDocs => r = cmd[c].run
  BY <1>3 DEF Verdict, Stages
<1> HIDE DEF r
<1>5. k \in TaskRecord
  BY <1>3, <1>4, JudgedRecord
<1> HIDE DEF verdict
<1>6. s \in TaskRecord /\ s.stage = verdict /\ SameWork(s, cur)
  BY <1>3, <1>4, StagedFields
<1> HIDE DEF s
<1>7. /\ k.stage = verdict /\ k.run = cur.run /\ k.agr = cur.agr /\ k.captured = r
      /\ k.submitted = cur.submitted /\ k.reqDocs = cur.reqDocs
  BY <1>6 DEF TaskRecord, SameWork
<1> HIDE DEF k
<1>8. VerifyStepped(c, "finish") /\ run' = run /\ SameRowed(task'[t], k)
  BY <1>1, <1>3, <1>5, TaskStepEffect DEF VerifyStepped
<1>9. /\ task'[t].stage = verdict /\ task'[t].run = cmd[c].run /\ task'[t].agr = cur.agr
      /\ task'[t].captured = r
      /\ task'[t].submitted = cmd[c].snap /\ task'[t].reqDocs = cur.reqDocs
  BY <1>3, <1>7, <1>8 DEF SameRowed
<1>10. QED
  BY <1>1, <1>3, <1>4, <1>8, <1>9

LEMMA CaughtEffect ==
    ASSUME DirectInv, NEW c \in Clients, VerifyCaught(c)
    PROVE  LET t == cmd[c].task IN
           /\ VerifyStepped(c, "abandon") /\ run' = run /\ cmd[c].step = "caught"
           /\ Moved(task'[t], task[t], "Blocked") /\ task[t].run = cmd[c].run
           /\ task[t].stage \in {"Checking", "AwaitingAcceptance", "Rework", "Blocked"}
<1> DEFINE t == cmd[c].task
           k == Staged(task[t], "Blocked")
<1>1. TaskStep(c, "verify", "caught", "abandon", k) /\ "verify" \in Ops
      /\ cmd[c].op = "verify" /\ cmd[c].step = "caught"
  BY DEF VerifyCaught, Ops, TaskStep, At
<1>2. "caught" \notin Early /\ "Blocked" \in Stages
  BY DEF Early, Stages
<1>3. /\ cmd[c] # Idle /\ task[t] \in TaskRecord
      /\ cmd[c].run \in RunIds /\ CommandRowed(cmd[c], Row(c)) /\ task[t].run = cmd[c].run
      /\ task[t].stage \in {"Checking", "AwaitingAcceptance", "Rework", "Blocked"}
  BY <1>1, <1>2, Judging
<1>4. k \in TaskRecord /\ k.stage = "Blocked" /\ SameWork(k, task[t])
  BY <1>2, <1>3, StagedFields
<1> HIDE DEF k
<1>5. VerifyStepped(c, "abandon") /\ run' = run /\ SameRowed(task'[t], k)
  BY <1>1, <1>3, <1>4, TaskStepEffect DEF VerifyStepped
<1>6. QED
  BY <1>1, <1>3, <1>4, <1>5 DEF SameRowed, SameWork, Moved

\* A run completes, or its completion is taken back.
LEMMA OutcomeEffect ==
    ASSUME DirectInv, NEW c \in Clients, RunCompletes(c) \/ CompletionEventFails(c)
    PROVE  LET t == cmd[c].task
               r == cmd[c].run
               row == run'[r] IN
           /\ cmd[c] # Idle /\ cmd[c].op = "verify" /\ t \in Tasks /\ r \in RunIds
           /\ task[t].stage = "Checking" /\ task[t].run = r
           /\ task[t].agr = cmd[c].read.agr /\ task[t].agr # None
           /\ cmd[c].snap \in Snapshots
           /\ \A u \in Tasks : SameRowed(task'[u], task[u])
           /\ run' = [run EXCEPT ![r] = row] /\ run[r].task = t
           /\ run[r].stamp = cmd[c].snap /\ run[r].agr = task[t].agr.ver
           /\ row.ticket # "None" /\ row.task = t
           /\ row.stamp = cmd[c].snap /\ row.agr = task[t].agr.ver /\ row.agr \in Nat
           /\ \/ run[r].state = "Running" /\ row.state = "Completed"
              \/ run[r].state = "Completed" /\ row.state = "Failed"
           /\ cmd'[c].op = "verify" /\ cmd'[c].step = "settle" /\ cmd'[c].task = t
           /\ cmd'[c].read = cmd[c].read /\ cmd'[c].snap = cmd[c].snap /\ cmd'[c].run = r
           /\ \A d \in Clients \ {c} : cmd'[d] = Idle
<1> DEFINE t == cmd[c].task
           r == cmd[c].run
           state == IF RunCompletes(c) THEN "Completed" ELSE "Failed"
           row == [Row(c) EXCEPT !.state = state]
<1>1. /\ run' = [run EXCEPT ![r].state = state] /\ cmd[c].op = "verify"
      /\ RunCompletes(c) => cmd[c].step = "running" /\ Goto(c, "settle")
      /\ ~RunCompletes(c) => /\ cmd[c].step = "settle" /\ cmd' = cmd
                             /\ Row(c).state = "Completed"
  BY DEF RunCompletes, CompletionEventFails, At
<1>2. cmd[c].step \in Driving \ Early
  BY <1>1 DEF Early, Driving
<1>3. /\ cmd[c] # Idle /\ t \in Tasks /\ r \in RunIds /\ CommandRowed(cmd[c], Row(c))
      /\ task[t].agr = cmd[c].read.agr /\ task[t].agr # None
      /\ task[t].stage = "Checking" /\ task[t].run = r
      /\ task[t] \in TaskRecord /\ cmd[c].snap \in Snapshots
  BY <1>1, <1>2, Judging
<1>4. \A u \in Tasks : SameRowed(task'[u], task[u])
  <2>1. ASSUME RunCompletes(c)
        PROVE  \A u \in Tasks : SameRowed(task'[u], task[u])
    <3> DEFINE k == [task[t] EXCEPT !.life = "AwaitingAcceptance"]
    <3>1. task' = [task EXCEPT ![t] = k]
      BY <2>1 DEF RunCompletes, CompletedLife
    <3>2. SameRowed(k, task[t])
      BY <1>3 DEF TaskRecord, SameRowed
    <3> HIDE DEF k
    <3>3. task'[t] = k /\ \A u \in Tasks \ {t} : task'[u] = task[u]
      BY <1>3, <3>1 DEF DirectInv, TypeInv, TypeOK
    <3>4. QED
      BY <3>2, <3>3 DEF SameRowed
  <2>2. ASSUME CompletionEventFails(c)
        PROVE  \A u \in Tasks : SameRowed(task'[u], task[u])
    BY <2>2 DEF CompletionEventFails, SameRowed
  <2>3. QED
    BY <2>1, <2>2
<1>5. /\ Row(c) \in RunRecord /\ Row(c).ticket # "None" /\ Row(c).task = t
      /\ Row(c).stamp = cmd[c].snap /\ Row(c).agr = cmd[c].read.agr.ver
      /\ Row(c).state = IF RunCompletes(c) THEN "Running" ELSE "Completed"
  BY <1>1, <1>2, <1>3, RowType DEF CommandRowed, DirectInv, TypeInv, Early, Driving
<1>6. run' = [run EXCEPT ![r] = row]
  BY DEF Row, RunCompletes, CompletionEventFails
<1>7. /\ row.ticket # "None" /\ row.task = t /\ row.state = state
      /\ row.stamp = cmd[c].snap /\ row.agr = cmd[c].read.agr.ver /\ row.agr \in Nat
  BY <1>5 DEF RunRecord
<1>8. \/ Row(c).state = "Running" /\ state = "Completed"
      \/ Row(c).state = "Completed" /\ state = "Failed"
  BY <1>5
<1> HIDE DEF row, state
<1>9. run'[r] = row /\ Row(c) = run[r]
  BY <1>3, <1>6 DEF DirectInv, TypeInv, TypeOK, Row
<1>10. /\ cmd'[c].op = "verify" /\ cmd'[c].step = "settle" /\ cmd'[c].task = t
       /\ cmd'[c].read = cmd[c].read /\ cmd'[c].snap = cmd[c].snap /\ cmd'[c].run = r
       /\ \A d \in Clients \ {c} : cmd'[d] = Idle
  BY <1>1, <1>3, GotoFields, GotoEffect, OthersIdle DEF DirectInv
<1>11. QED
  BY <1>1, <1>3, <1>4, <1>5, <1>6, <1>7, <1>8, <1>9, <1>10

-----------------------------------------------------------------------------
(* The rows and the records keep together, one lemma for each kind of step. *)

LEMMA InitRows == Init => RowInv
<1> SUFFICES ASSUME Init PROVE RowInv
  OBVIOUS
<1>1. \A r \in RunIds : RowSound(r, NoRun, task[None])
  BY DEF NoRun, RowSound, ActiveStates
<1>2. \A t \in Tasks : TaskRowed(t, NoTask, run[None])
  BY DEF NoTask, TaskRowed
<1>3. NoRun.task = None /\ NoTask.run = None
  BY DEF NoRun, NoTask
<1>4. QED
  BY <1>1, <1>2, <1>3 DEF Init, RowInv

LEMMA EditRows ==
    ASSUME DirectInv, TypeInv', NEW c \in Clients, NEW t \in Tasks,
           \/ Create(c, t) \/ Document(c, t) \/ Status(c, t)
           \/ \E scopeChange \in BOOLEAN : Feedback(c, t, scopeChange)
    PROVE  RowInv'
<1>1. CASE Status(c, t)
  BY <1>1 DEF Status, world, DirectInv, RowInv
<1>2. CASE \/ Create(c, t) \/ Document(c, t)
           \/ \E scopeChange \in BOOLEAN : Feedback(c, t, scopeChange)
  <2>1. \A d \in Clients : cmd'[d] = Idle
    BY <1>2, EditEffect DEF DirectInv
  <2>2. /\ \A q \in RunIds : RowSound(q, run'[q], task'[run'[q].task])
        /\ \A u \in Tasks : TaskRowed(u, task'[u], run'[task'[u].run])
    <3>1. PICK stage \in {"Discussing", "Rework"} :
              /\ OthersKept(t) /\ run' = run /\ Moved(task'[t], task[t], stage)
              /\ task[t].stage # "Checking"
      BY <1>2, EditEffect DEF DirectInv
    <3>2. QED
      BY <3>1, MovedRows DEF DirectInv
  <2>3. QED
    BY <2>1, <2>2 DEF RowInv
<1>3. QED
  BY <1>1, <1>2

LEMMA ReadsRows ==
    ASSUME DirectInv, NEW c \in Clients, NEW t \in Tasks,
           \/ ReadAgree(c, t) \/ ReadBegin(c, t) \/ ReadSubmit(c, t)
           \/ \E r \in RunIds : ReadVerify(c, t, r)
           \/ ReadAlign(c, t) \/ ReadLens(c, t) \/ ReadAccept(c, t)
           \/ ReadRecover(c, t)
    PROVE  RowInv'
<1>1. ASSUME NEW op, NEW allowed, NEW guard, NEW step, NEW r,
             Read(c, t, op, allowed, guard, step, r),
             op = "verify" => /\ step = "ticket" /\ run[r].ticket = "None"
                              /\ run[r].state = "None",
             op = "recover" => step = "recover"
      PROVE  RowInv'
  <2> DEFINE m == [op |-> op, task |-> t, read |-> task[t], snap |-> source,
                   run |-> r, step |-> step]
  <2>1. /\ cmd' = [cmd EXCEPT ![c] = m] /\ UNCHANGED <<task, run>>
        /\ \A d \in Clients : cmd[d] = Idle
    BY <1>1 DEF Read, Editable, LeaseFree
  <2>2. CommandRowed(m, run[r])
    BY <1>1 DEF CommandRowed, ActiveStates
  <2>3. cmd'[c] = m /\ m.run = r /\ \A d \in Clients \ {c} : cmd'[d] = Idle
    BY <2>1 DEF DirectInv, TypeInv, TypeOK
  <2> HIDE DEF m
  <2>4. QED
    BY <2>1, <2>2, <2>3 DEF DirectInv, RowInv
<1>2. ASSUME NEW r \in RunIds, ReadVerify(c, t, r)
      PROVE  RowInv'
  <2>1. run[r].ticket = "None" /\ run[r].state = "None"
    BY <1>2 DEF ReadVerify, DirectInv, RowInv, RowSound
  <2>2. QED
    BY <1>1, <1>2, <2>1 DEF ReadVerify
<1>3. CASE \/ ReadAgree(c, t) \/ ReadBegin(c, t) \/ ReadSubmit(c, t)
  BY <1>1, <1>3 DEF ReadAgree, ReadBegin, ReadSubmit
<1>4. CASE ReadAlign(c, t) \/ ReadLens(c, t) \/ ReadAccept(c, t)
  BY <1>1, <1>4 DEF ReadAlign, ReadLens, ReadAccept
<1>5. CASE ReadRecover(c, t)
  BY <1>1, <1>5 DEF ReadRecover
<1>6. QED
  BY <1>2, <1>3, <1>4, <1>5

LEMMA SavesRows ==
    ASSUME DirectInv, TypeInv', NEW c \in Clients,
           \/ Agree(c) \/ Submit(c) \/ Align(c) \/ RecordLens(c)
           \/ \E approval \in BOOLEAN : Begin(c, approval)
           \/ Accept(c) \/ Recover(c)
    PROVE  RowInv'
<1> DEFINE t == cmd[c].task
           Rows == /\ \A q \in RunIds : RowSound(q, run'[q], task'[run'[q].task])
                   /\ \A u \in Tasks : TaskRowed(u, task'[u], run'[task'[u].run])
<1>1. ASSUME Rows, \A d \in Clients : cmd'[d] = Idle
      PROVE  RowInv'
  BY <1>1 DEF RowInv
<1>2. CASE Submit(c) \/ Recover(c) \/ \E approval \in BOOLEAN : Begin(c, approval)
  BY <1>1, <1>2, WorkEffect, MovedRows DEF DirectInv
<1>3. CASE Agree(c)
  <2>1. /\ OthersKept(t) /\ run' = run /\ \A d \in Clients : cmd'[d] = Idle
        /\ task[t].stage = "Discussing" /\ task'[t].stage = "Ready"
        /\ task'[t].run = task[t].run /\ task'[t].agr # None
        /\ task[t].agr # None => task'[t].agr.ver = task[t].agr.ver + 1
    BY <1>3, AgreeEffect
  <2>2. TaskRowed(t, task'[t], run[task'[t].run])
    BY <2>1 DEF TaskRowed, OthersKept, DirectInv, RowInv
  <2>3. task[t].agr # None => task[t].agr.ver <= task'[t].agr.ver
    <3>1. task[t].agr \in Agreements \cup {None}
      BY <2>1 DEF DirectInv, TypeInv, TypeOK, TaskRecord, OthersKept
    <3>2. QED
      BY <2>1, <3>1 DEF Agreements
  <2>4. Rows
    BY <2>1, <2>2, <2>3, TaskChanges DEF SameRowed, OthersKept, DirectInv
  <2>5. QED
    BY <1>1, <2>1, <2>4
\* The record keeps its agreement and its run, and its verdict if it had one.
<1>4. ASSUME OthersKept(t), run' = run, NEW stage \in {"AwaitingAcceptance", "Done"},
             task[t].stage = "AwaitingAcceptance", Moved(task'[t], task[t], stage),
             task'[t].submitted = task[t].submitted,
             task'[t].reqDocs = task[t].reqDocs, task'[t].captured = task[t].captured,
             stage = "Done" /\ task[t].reqDocs =>
                 task'[t].align = [run |-> task[t].run, stamp |-> task[t].submitted]
      PROVE  Rows
  <2>1. TaskRowed(t, task[t], run[task[t].run])
    BY <1>4 DEF OthersKept, DirectInv, RowInv
  <2>2. TaskRowed(t, task'[t], run[task'[t].run])
    BY <1>4, <2>1 DEF TaskRowed, Moved
  <2>3. task[t].agr # None => task[t].agr.ver <= task'[t].agr.ver
    <3>1. task[t].agr \in Agreements \cup {None}
      BY <1>4 DEF DirectInv, TypeInv, TypeOK, TaskRecord, OthersKept
    <3>2. QED
      BY <1>4, <3>1 DEF Agreements, Moved
  <2>4. QED
    BY <1>4, <2>2, <2>3, TaskChanges DEF SameRowed, OthersKept, DirectInv, Moved
<1>5. CASE Align(c) \/ RecordLens(c)
  BY <1>1, <1>4, <1>5, EvidenceEffect
<1>6. CASE Accept(c)
  <2>1. Rows
    BY <1>4, <1>6, AcceptEffect
  <2>2. (\A d \in Clients \ {c} : cmd'[d] = Idle) /\ cmd'[c].op = "accept"
    BY <1>6, AcceptEffect
  <2>3. QED
    BY <2>1, <2>2 DEF RowInv, CommandRowed
<1>7. QED
  BY <1>2, <1>3, <1>5, <1>6

LEMMA VerdictsRows ==
    ASSUME DirectInv, TypeInv', RecordInv', NEW c \in Clients,
           \/ VerifyChecking(c) \/ RunCompletes(c) \/ CompletionEventFails(c)
           \/ VerifyResult(c) \/ VerifyCaught(c)
           \/ SaveApproval(c) \/ VerifyAudit(c) \/ VerifyAbandon(c)
    PROVE  RowInv'
<1> DEFINE t == cmd[c].task
           r == cmd[c].run
           Rows == /\ \A q \in RunIds : RowSound(q, run'[q], task'[run'[q].task])
                   /\ \A u \in Tasks : TaskRowed(u, task'[u], run'[task'[u].run])
<1>1. ASSUME Rows, NEW to, VerifyStepped(c, to), run' = run, CommandRowed(cmd'[c], Row(c))
      PROVE  RowInv'
  BY <1>1 DEF RowInv, VerifyStepped, Row
<1>2. CASE VerifyChecking(c)
  <2>1. /\ VerifyStepped(c, "start") /\ run' = run /\ cmd[c].step = "checking"
        /\ task[t].stage \in {"Submitted", "Blocked"} /\ task'[t].stage = "Checking"
        /\ task'[t].run = r /\ task'[t].agr = task[t].agr
    BY <1>2, CheckingEffect
  <2>2. OthersKept(t) /\ r \in RunIds /\ CommandRowed(cmd[c], Row(c))
    BY <2>1 DEF VerifyStepped
  <2>3. TaskRowed(t, task'[t], run[r])
    BY <2>1, <2>2, Typed DEF TaskRowed, VerifyStepped, CommandRowed, Row, DirectInv
  <2>4. CommandRowed(cmd'[c], Row(c))
    BY <2>1 DEF VerifyStepped, CommandRowed, Early
  <2>5. task[t].agr # None => task[t].agr.ver <= task'[t].agr.ver
    <3>1. task[t].agr \in Agreements \cup {None}
      BY <2>2 DEF DirectInv, TypeInv, TypeOK, TaskRecord, OthersKept
    <3>2. QED
      BY <2>1, <3>1 DEF Agreements
  <2>6. Rows
    BY <2>1, <2>2, <2>3, <2>5, TaskChanges DEF SameRowed, OthersKept, DirectInv
  <2>7. QED
    BY <1>1, <2>1, <2>4, <2>6
<1>3. CASE VerifyResult(c)
  <2>1. /\ VerifyStepped(c, "finish") /\ run' = run /\ cmd[c].step = "settle"
        /\ task[t].stage = "Checking"
        /\ task'[t].agr = task[t].agr /\ task'[t].run = r
        /\ task'[t].submitted = cmd[c].snap /\ task'[t].reqDocs = task[t].reqDocs
        /\ (IF Row(c).state = "Completed"
            THEN task'[t].stage = "AwaitingAcceptance"
            ELSE task'[t].stage \in {"Rework", "Blocked"})
        /\ Row(c).state = "Completed" /\ task[t].reqDocs => task'[t].captured = r
    BY <1>3, ResultEffect
  <2>2. /\ OthersKept(t) /\ r \in RunIds /\ CommandRowed(cmd[c], Row(c))
        /\ cmd[c].op = "verify"
    BY <2>1 DEF VerifyStepped
  <2>3. /\ task[t].run = r /\ cmd[c].snap # None /\ task[t].agr = cmd[c].read.agr
        /\ task[t].agr # None
    BY <2>1, <2>2, Judging DEF Early
  <2>4. /\ Row(c).ticket # "None" /\ Row(c).task = t /\ Row(c).state \notin ActiveStates
        /\ Row(c).stamp = cmd[c].snap /\ Row(c).agr = cmd[c].read.agr.ver
    BY <2>1, <2>2 DEF CommandRowed
  <2>5. TaskRowed(t, task'[t], Row(c))
    BY <2>1, <2>2, <2>3, <2>4, Typed DEF TaskRowed, DirectInv
  <2>6. CommandRowed(cmd'[c], Row(c))
    BY <2>1, <2>2, <2>4 DEF VerifyStepped, CommandRowed, Early
  <2>7. task[t].agr.ver <= task'[t].agr.ver
    <3>1. task[t].agr \in Agreements
      BY <2>2, <2>3 DEF DirectInv, TypeInv, TypeOK, TaskRecord, OthersKept
    <3>2. QED
      BY <2>1, <3>1 DEF Agreements
  <2>8. Rows
    BY <2>1, <2>2, <2>3, <2>4, <2>5, <2>7, TaskChanges
       DEF SameRowed, OthersKept, DirectInv, Row
  <2>9. QED
    BY <1>1, <2>1, <2>6, <2>8
<1>4. CASE VerifyCaught(c)
  <2>1. /\ VerifyStepped(c, "abandon") /\ run' = run /\ cmd[c].step = "caught"
        /\ Moved(task'[t], task[t], "Blocked") /\ task[t].run = r
    BY <1>4, CaughtEffect
  <2>2. Row(c).state \notin ActiveStates
    BY <2>1 DEF VerifyStepped, CommandRowed
  <2>3. Rows
    <3>1. OthersKept(t) /\ run[task[t].run].state \notin ActiveStates
      BY <2>1, <2>2 DEF VerifyStepped, Row
    <3>2. run' = run /\ Moved(task'[t], task[t], "Blocked") /\ TypeInv /\ RowInv
      BY <2>1 DEF DirectInv
    <3>3. "Blocked" \notin {"Checking", "AwaitingAcceptance", "Done"}
      OBVIOUS
    <3>4. QED
      BY <3>1, <3>2, <3>3, MovedRows
  <2>4. CommandRowed(cmd'[c], Row(c))
    BY <2>1, <2>2 DEF VerifyStepped, CommandRowed, Early
  <2>5. QED
    BY <1>1, <2>1, <2>3, <2>4
<1>5. CASE RunCompletes(c) \/ CompletionEventFails(c)
  <2> DEFINE row == run'[r]
  <2>1. /\ cmd[c] # Idle /\ cmd[c].op = "verify" /\ t \in Tasks /\ r \in RunIds
        /\ task[t].stage = "Checking" /\ task[t].run = r
        /\ task[t].agr = cmd[c].read.agr /\ task[t].agr # None
        /\ \A u \in Tasks : SameRowed(task'[u], task[u])
        /\ run' = [run EXCEPT ![r] = row]
        /\ row.ticket # "None" /\ row.task = t
        /\ row.stamp = cmd[c].snap /\ row.agr = task[t].agr.ver /\ row.agr \in Nat
        /\ row.state \in {"Completed", "Failed"}
        /\ cmd'[c].op = "verify" /\ cmd'[c].step = "settle" /\ cmd'[c].task = t
        /\ cmd'[c].read = cmd[c].read /\ cmd'[c].snap = cmd[c].snap /\ cmd'[c].run = r
        /\ \A d \in Clients \ {c} : cmd'[d] = Idle
    BY <1>5, OutcomeEffect
  <2> HIDE DEF row
  <2>2. RowSound(r, row, task[t])
    BY <2>1, DirectAssumption DEF RowSound, ActiveStates
  <2>3. \A u \in Tasks : task[u].run = r => TaskRowed(u, task[u], row)
    BY <2>1, OwnRow, Typed DEF TaskRowed, DirectInv
  <2>4. Rows
    BY <2>1, <2>2, <2>3, RowChanges DEF DirectInv
  <2>5. CommandRowed(cmd'[c], row)
    BY <2>1 DEF CommandRowed, ActiveStates, Early
  <2>6. QED
    BY <2>1, <2>4, <2>5 DEF RowInv, row
<1>6. CASE SaveApproval(c) \/ VerifyAudit(c) \/ VerifyAbandon(c)
  <2>1. cmd[c] # Idle /\ Exit(c) /\ task' = task
    BY <1>6, IdleOp DEF SaveApproval, VerifyAudit, VerifyAbandon, At, Ops
  <2>2. r \in RunIds \cup {None} /\ \A d \in Clients : cmd'[d] = Idle
    BY <2>1, Running, NobodyLeft DEF DirectInv
  <2>3. r \in RunIds => run[r] \in RunRecord
    BY DEF DirectInv, TypeInv, TypeOK
  <2>4. CASE SaveApproval(c)
    <3> DEFINE row == [run[r] EXCEPT !.approved = TRUE]
    <3>1. run' = [run EXCEPT ![r] = row]
      BY <2>4 DEF SaveApproval
    <3>2. r \in RunIds =>
              /\ row.task = run[r].task /\ row.state = run[r].state
              /\ row.stamp = run[r].stamp /\ row.agr = run[r].agr
              /\ row.ticket = run[r].ticket
      BY <2>3 DEF RunRecord
    <3> HIDE DEF row
    <3>3. Rows
      BY <2>1, <2>2, <3>1, <3>2, RowTouched DEF DirectInv
    <3>4. QED
      BY <2>2, <3>3 DEF RowInv
  <2>5. CASE VerifyAbandon(c)
    <3> DEFINE row == [run[r] EXCEPT !.ticket = "Finished"]
    <3>1. run' = [run EXCEPT ![r] = row]
      BY <2>5 DEF VerifyAbandon
    <3>2. r \in RunIds =>
              /\ row.task = run[r].task /\ row.state = run[r].state
              /\ row.stamp = run[r].stamp /\ row.agr = run[r].agr
              /\ row.ticket # "None"
      BY <2>3 DEF RunRecord
    <3> HIDE DEF row
    <3>3. Rows
      BY <2>1, <2>2, <3>1, <3>2, RowTouched DEF DirectInv
    <3>4. QED
      BY <2>2, <3>3 DEF RowInv
  <2>6. CASE VerifyAudit(c)
    BY <2>2, <2>6 DEF VerifyAudit, DirectInv, RowInv
  <2>7. QED
    BY <1>6, <2>4, <2>5, <2>6
<1>7. QED
  BY <1>2, <1>3, <1>4, <1>5, <1>6

LEMMA OutsideRows ==
    ASSUME DirectInv,
           \/ \E c \in Clients : Crash(c)
           \/ \E p \in Profiles : SaveProject(p)
           \/ HostStep \/ Environment
    PROVE  RowInv' /\ UNCHANGED <<task, run>>
<1>1. ASSUME NEW c \in Clients, Crash(c)
      PROVE  RowInv' /\ UNCHANGED <<task, run>>
  <2>1. cmd[c] # Idle /\ Exit(c) /\ UNCHANGED <<task, run>>
    BY <1>1 DEF Crash
  <2>2. \A d \in Clients : cmd'[d] = Idle
    BY <2>1, NobodyLeft DEF DirectInv
  <2>3. QED
    BY <2>1, <2>2 DEF DirectInv, RowInv
<1>2. ASSUME NEW p \in Profiles, SaveProject(p)
      PROVE  UNCHANGED <<task, run, cmd>>
  BY <1>2 DEF SaveProject
<1>3. ASSUME HostStep \/ Environment
      PROVE  UNCHANGED <<task, run, cmd>>
  BY <1>3 DEF HostStep, HostStart, HostStop, LegacyRunStarts, LegacyRunEnds,
              HostSaveProject, Environment, EditSource, EditDocument
<1>4. ASSUME UNCHANGED <<task, run, cmd>>
      PROVE  RowInv'
  BY <1>4 DEF DirectInv, RowInv
<1>5. QED
  BY <1>1, <1>2, <1>3, <1>4

LEMMA RowStep == DirectInv /\ TypeInv' /\ RecordInv' /\ [Next]_vars => RowInv'
<1> SUFFICES ASSUME DirectInv, TypeInv', RecordInv', [Next]_vars PROVE RowInv'
  OBVIOUS
<1>1. ASSUME NEW c \in Clients, ClientStep(c)
      PROVE  RowInv'
  BY <1>1, EditRows, ReadsRows DEF ClientStep
<1>2. ASSUME NEW c \in Clients, CommandStep(c)
      PROVE  RowInv'
  BY <1>2, SavesRows, VerifyRowsRows, RecoverRowsRows, VerdictsRows DEF CommandStep
<1>3. CASE UNCHANGED vars
  BY <1>3 DEF vars, DirectInv, RowInv
<1>4. QED
  BY <1>1, <1>2, <1>3, OutsideRows DEF Next

LEMMA DirectInvariant == Spec => []DirectInv
<1>1. Init => TypeInv /\ WriterInv /\ RecordInv /\ RowInv
  BY InitType, InitWriter, InitRecords, InitRows
<1>2. DirectInv /\ [Next]_vars => DirectInv'
  <2> SUFFICES ASSUME DirectInv, [Next]_vars PROVE DirectInv'
    OBVIOUS
  <2>1. TypeInv' /\ WriterInv' /\ RecordInv'
    BY TypeStep, WriterStep, RecordStep DEF DirectInv
  <2>2. QED
    BY <2>1, RowStep DEF DirectInv
<1>3. QED
  BY <1>1, <1>2, PTL DEF Spec, DirectInv

\* Only a source that was submitted, and passed its checks in a run of its own
\* task under the agreement in force, comes to acceptance, and its evidence
\* files were captured from that run; whatever fails or dies on the way.
THEOREM AcceptedWorkIsVerified == Spec => []AcceptedIsVerified
<1>1. DirectInv => AcceptedIsVerified
  <2> SUFFICES ASSUME DirectInv, NEW t \in Tasks,
                      task[t].stage \in {"AwaitingAcceptance", "Done"}
               PROVE  LET k == task[t] IN
                      /\ k.run # None /\ k.submitted # None
                      /\ run[k.run] = [run[k.run] EXCEPT
                             !.task = t, !.state = "Completed",
                             !.stamp = k.submitted, !.agr = k.agr.ver]
                      /\ k.reqDocs => k.captured = k.run
                      /\ k.stage = "Done" /\ k.reqDocs =>
                             k.align = [run |-> k.run, stamp |-> k.submitted]
    BY DEF AcceptedIsVerified
  <2>1. TaskRowed(t, task[t], run[task[t].run])
    BY DEF DirectInv, RowInv
  <2>2. task[t].run # None
    BY <2>1 DEF TaskRowed
  <2>3. run[task[t].run] \in RunRecord
    BY <2>2, Typed DEF DirectInv
  <2>4. run[task[t].run] = [run[task[t].run] EXCEPT
            !.task = t, !.state = "Completed",
            !.stamp = task[t].submitted, !.agr = task[t].agr.ver]
    BY <2>1, <2>2, <2>3 DEF TaskRowed, RunRecord
  <2>5. QED
    BY <2>1, <2>4 DEF TaskRowed
<1>2. QED
  BY <1>1, DirectInvariant, PTL

\* A run that a crash left active can be found: it is the last run of a task
\* in Checking, which the Recover command takes back.
THEOREM ActiveRunsAreRecoverable == Spec => []ActiveRunRecoverable
<1>1. DirectInv => ActiveRunRecoverable
  BY DEF DirectInv, RowInv, RowSound, ActiveRunRecoverable
<1>2. QED
  BY <1>1, DirectInvariant, PTL

-----------------------------------------------------------------------------
(* DeliveryContract, step by step.                                         *)

AcceptedOf(k) == IF k.stage = "Done" THEN k.submitted ELSE None

LEMMA PhaseFacts ==
    ASSUME NEW k, k.stage \in Stages
    PROVE  /\ PhaseOf(k) = "open" <=> k.stage \in {"Absent", "Discussing"}
           /\ PhaseOf(k) = "agreed" <=> k.stage \in {"Ready", "Rework"}
           /\ PhaseOf(k) = "writing" <=> k.stage \in Writing
           /\ PhaseOf(k) = "accepted" <=> k.stage = "Done"
BY DEF PhaseOf, Stages, Writing, Claiming

\* Two rows that give the same verdict.
SameVerdict(a, b) ==
    /\ a.state = "Completed" <=> b.state = "Completed"
    /\ a.state = "Completed" => a.task = b.task /\ a.stamp = b.stamp /\ a.agr = b.agr

LEMMA PassedKept ==
    ASSUME \A q \in RunIds : SameVerdict(run'[q], run[q]),
           NEW t \in Tasks, task'[t].agr = task[t].agr
    PROVE  PassedUnder(t)' = PassedUnder(t)
BY DEF SameVerdict, PassedUnder

\* A step of which the contract sees nothing.
LEMMA ContractStutters ==
    ASSUME \A q \in RunIds : SameVerdict(run'[q], run[q]),
           \A t \in Tasks : /\ task'[t].stage = task[t].stage /\ task'[t].agr = task[t].agr
                            /\ task'[t].submitted = task[t].submitted
    PROVE  UNCHANGED Contract!vars
<1>1. \A t \in Tasks : PhaseOf(task'[t]) = PhaseOf(task[t])
  BY DEF PhaseOf
<1>2. \A t \in Tasks : PassedUnder(t)' = PassedUnder(t)
  BY PassedKept
<1>3. QED
  BY <1>1, <1>2 DEF Contract!vars

\* A record moves and keeps its agreement: the task stays where it is for the
\* contract, or opens, is yielded, or is claimed by the only writer.
LEMMA MoveMeetsContract ==
    ASSUME TypeInv, TypeInv', NEW t, NEW stage, OthersKept(t), run' = run,
           task'[t].stage = stage, task'[t].agr = task[t].agr,
           task[t].stage # "Done", stage # "Done",
           task[t].stage \in {"Absent", "Discussing"} => stage = "Discussing",
           task[t].stage \in {"Ready", "Rework"} =>
               \/ stage \in {"Discussing", "Ready", "Rework"}
               \/ \A u \in Tasks \ {t} : task[u].stage \notin Writing
    PROVE  [Contract!Next]_Contract!vars
<1>1. t \in Tasks /\ \A u \in Tasks : task[u].stage \in Stages /\ task'[u].stage \in Stages
  BY DEF OthersKept, TypeInv, TypeOK, TaskRecord
<1>2. \A u \in Tasks : PassedUnder(u)' = PassedUnder(u)
  BY PassedKept DEF SameVerdict, OthersKept
<1> DEFINE new == PhaseOf(task'[t])
           old == PhaseOf(task[t])
<1>3. /\ [u \in Tasks |-> PhaseOf(task'[u])]
             = [[u \in Tasks |-> PhaseOf(task[u])] EXCEPT ![t] = new]
      /\ [u \in Tasks |-> PassedUnder(u)]' = [u \in Tasks |-> PassedUnder(u)]
      /\ [u \in Tasks |-> AcceptedOf(task'[u])] = [u \in Tasks |-> AcceptedOf(task[u])]
  BY <1>1, <1>2 DEF OthersKept, AcceptedOf
<1>4. CASE new = old
  BY <1>1, <1>3, <1>4 DEF Contract!vars, AcceptedOf
<1>5. CASE new = "open" /\ old \in {"agreed", "writing"}
  BY <1>1, <1>3, <1>5 DEF Contract!Next, Contract!Reopen, AcceptedOf
<1>6. CASE new = "agreed" /\ old = "writing"
  BY <1>1, <1>3, <1>6 DEF Contract!Next, Contract!Yield, AcceptedOf
<1>7. CASE new = "writing" /\ old = "agreed"
  <2>1. \A u \in Tasks : PhaseOf(task[u]) # "writing"
    BY <1>1, <1>7, PhaseFacts DEF Writing
  <2>2. QED
    BY <1>1, <1>3, <1>7, <2>1 DEF Contract!Next, Contract!Claim, AcceptedOf
<1>8. QED
  <2>1. old \in {"open", "agreed", "writing"} /\ new \in {"open", "agreed", "writing"}
    BY <1>1 DEF PhaseOf, Stages, Writing, Claiming
  <2>2. old = "open" => new = "open"
    BY <1>1, PhaseFacts
  <2>3. QED
    BY <1>4, <1>5, <1>6, <1>7, <2>1, <2>2

\* A command that has the project to itself.
LEMMA Alone ==
    ASSUME DirectInv, NEW c \in Clients, cmd[c] # Idle, cmd[c].op \in {"begin", "verify"}
    PROVE  \A u \in Tasks \ {cmd[c].task} : task[u].stage \notin Writing
BY DEF DirectInv, WriterInv, CommandUndisturbed, Writing

LEMMA RecordsMeetContract ==
    ASSUME DirectInv, TypeInv', NEW c \in Clients,
           \/ Submit(c) \/ Recover(c) \/ \E approval \in BOOLEAN : Begin(c, approval)
           \/ Align(c) \/ RecordLens(c)
           \/ VerifyChecking(c) \/ VerifyResult(c) \/ VerifyCaught(c)
    PROVE  [Contract!Next]_Contract!vars
<1> DEFINE t == cmd[c].task
<1>1. CASE Submit(c) \/ Recover(c) \/ \E approval \in BOOLEAN : Begin(c, approval)
  <2>1. /\ OthersKept(t) /\ run' = run
        /\ \/ Moved(task'[t], task[t], "Submitted") /\ task[t].stage = "Implementing"
           \/ Moved(task'[t], task[t], "Blocked") /\ task[t].stage = "Checking"
           \/ /\ Moved(task'[t], task[t], "Implementing")
              /\ cmd[c] # Idle /\ cmd[c].op = "begin"
              /\ task[t].stage \in {"Ready", "Rework", "Blocked"}
    BY <1>1, WorkEffect
  <2>2. CASE Moved(task'[t], task[t], "Submitted") /\ task[t].stage = "Implementing"
    BY <2>1, <2>2, MoveMeetsContract DEF DirectInv, Moved
  <2>3. CASE Moved(task'[t], task[t], "Blocked") /\ task[t].stage = "Checking"
    BY <2>1, <2>3, MoveMeetsContract DEF DirectInv, Moved
  <2>4. CASE /\ Moved(task'[t], task[t], "Implementing")
             /\ cmd[c] # Idle /\ cmd[c].op = "begin"
             /\ task[t].stage \in {"Ready", "Rework", "Blocked"}
    <3>1. \A u \in Tasks \ {t} : task[u].stage \notin Writing
      BY <2>4, Alone
    <3>2. QED
      BY <2>1, <2>4, <3>1, MoveMeetsContract DEF DirectInv, Moved
  <2>5. QED
    BY <2>1, <2>2, <2>3, <2>4
<1>2. CASE Align(c) \/ RecordLens(c)
  <2>1. /\ OthersKept(t) /\ run' = run /\ task[t].stage = "AwaitingAcceptance"
        /\ Moved(task'[t], task[t], "AwaitingAcceptance")
    BY <1>2, EvidenceEffect
  <2>2. QED
    BY <2>1, MoveMeetsContract DEF DirectInv, Moved
<1>3. CASE VerifyChecking(c)
  <2>1. /\ VerifyStepped(c, "start") /\ run' = run /\ task'[t].stage = "Checking"
        /\ task[t].stage \in {"Submitted", "Blocked"} /\ task'[t].agr = task[t].agr
    BY <1>3, CheckingEffect
  <2>2. OthersKept(t)
    BY <2>1 DEF VerifyStepped
  <2>3. QED
    BY <2>1, <2>2, MoveMeetsContract DEF DirectInv, Moved
<1>4. CASE VerifyResult(c)
  <2>1. /\ VerifyStepped(c, "finish") /\ run' = run /\ task[t].stage = "Checking"
        /\ task'[t].agr = task[t].agr
        /\ task'[t].stage \in {"AwaitingAcceptance", "Rework", "Blocked"}
    BY <1>4, ResultEffect
  <2>2. OthersKept(t)
    BY <2>1 DEF VerifyStepped
  <2>3. QED
    BY <2>1, <2>2, MoveMeetsContract DEF DirectInv, Moved
<1>5. CASE VerifyCaught(c)
  <2>1. /\ VerifyStepped(c, "abandon") /\ run' = run
        /\ Moved(task'[t], task[t], "Blocked")
        /\ task[t].stage \in {"Checking", "AwaitingAcceptance", "Rework", "Blocked"}
    BY <1>5, CaughtEffect
  <2>2. OthersKept(t) /\ cmd[c] # Idle /\ cmd[c].op = "verify"
    BY <2>1 DEF VerifyStepped
  <2>3. \A u \in Tasks \ {t} : task[u].stage \notin Writing
    BY <2>2, Alone
  <2>4. QED
    BY <2>1, <2>2, <2>3, MoveMeetsContract DEF DirectInv, Moved
<1>6. QED
  BY <1>1, <1>2, <1>3, <1>4, <1>5

LEMMA EditMeetsContract ==
    ASSUME DirectInv, TypeInv', NEW c \in Clients, NEW t \in Tasks,
           \/ Create(c, t) \/ Document(c, t) \/ Status(c, t)
           \/ \E scopeChange \in BOOLEAN : Feedback(c, t, scopeChange)
    PROVE  [Contract!Next]_Contract!vars
<1>1. CASE Status(c, t)
  BY <1>1, ContractStutters DEF Status, SameVerdict
<1>2. CASE \/ Create(c, t) \/ Document(c, t)
           \/ \E scopeChange \in BOOLEAN : Feedback(c, t, scopeChange)
  <2>1. PICK stage \in {"Discussing", "Rework"} :
            /\ OthersKept(t) /\ run' = run /\ Moved(task'[t], task[t], stage)
            /\ task[t].stage # "Done"
            /\ stage = "Rework" => task[t].stage \notin {"Absent", "Discussing"}
    BY <1>2, EditEffect DEF DirectInv
  <2>2. QED
    BY <2>1, MoveMeetsContract DEF DirectInv, Moved
<1>3. QED
  BY <1>1, <1>2

\* No run passed under an agreement that is only now made.
LEMMA AgreeMeetsContract ==
    ASSUME DirectInv, TypeInv', NEW c \in Clients, Agree(c)
    PROVE  [Contract!Next]_Contract!vars
<1>1. PICK t :
        /\ OthersKept(t) /\ run' = run
        /\ task[t].stage = "Discussing" /\ task'[t].stage = "Ready"
        /\ task'[t].agr # None
        /\ task[t].agr # None => task'[t].agr.ver = task[t].agr.ver + 1
  BY AgreeEffect
<1>2. t \in Tasks /\ \A u \in Tasks \ {t} : task'[u] = task[u]
  BY <1>1 DEF OthersKept
<1>3. PassedUnder(t)' = {}
  <2>1. ASSUME NEW q \in RunIds, run[q].task = t, run[q].state = "Completed",
               run[q].agr = task'[t].agr.ver
        PROVE  FALSE
    <3>1. task[t].agr # None /\ run[q].agr <= task[t].agr.ver
      BY <2>1 DEF DirectInv, RowInv, RowSound
    <3>2. task[t].agr \in Agreements
      BY <1>2, <3>1 DEF DirectInv, TypeInv, TypeOK, TaskRecord
    <3>3. run[q].agr \in Nat /\ task[t].agr.ver \in Nat
      BY <3>2, Typed DEF DirectInv, Agreements
    <3>4. QED
      BY <1>1, <2>1, <3>1, <3>3
  <2>2. \A x : x \notin PassedUnder(t)'
    BY <1>1, <2>1 DEF PassedUnder
  <2>3. QED
    BY <2>2
<1>4. \A u \in Tasks \ {t} : PassedUnder(u)' = PassedUnder(u)
  <2>1. \A q \in RunIds : SameVerdict(run'[q], run[q])
    BY <1>1 DEF SameVerdict
  <2>2. QED
    BY <1>2, <2>1, PassedKept
<1>5. PhaseOf(task[t]) = "open" /\ PhaseOf(task'[t]) = "agreed"
  BY <1>1, PhaseFacts DEF Stages
<1>6. /\ [u \in Tasks |-> PhaseOf(task'[u])]
             = [[u \in Tasks |-> PhaseOf(task[u])] EXCEPT ![t] = "agreed"]
      /\ [u \in Tasks |-> PassedUnder(u)]'
             = [[u \in Tasks |-> PassedUnder(u)] EXCEPT ![t] = {}]
      /\ [u \in Tasks |-> AcceptedOf(task'[u])] = [u \in Tasks |-> AcceptedOf(task[u])]
  <2>1. \A u \in Tasks : AcceptedOf(task'[u]) = AcceptedOf(task[u])
    BY <1>1, <1>2 DEF AcceptedOf
  <2>2. \A u \in Tasks \ {t} : PhaseOf(task'[u]) = PhaseOf(task[u])
    BY <1>2
  <2>3. [u \in Tasks |-> PhaseOf(task'[u])]
            = [[u \in Tasks |-> PhaseOf(task[u])] EXCEPT ![t] = "agreed"]
    BY <1>2, <1>5, <2>2
  <2>4. [u \in Tasks |-> PassedUnder(u)]'
            = [[u \in Tasks |-> PassedUnder(u)] EXCEPT ![t] = {}]
    BY <1>2, <1>3, <1>4
  <2>5. QED
    BY <2>1, <2>3, <2>4
<1>7. QED
  BY <1>2, <1>5, <1>6 DEF Contract!Next, Contract!Agree, AcceptedOf

\* The Owner accepts a source that passed under the agreement in force.
LEMMA AcceptMeetsContract ==
    ASSUME DirectInv, TypeInv', NEW c \in Clients, Accept(c)
    PROVE  [Contract!Next]_Contract!vars
<1> DEFINE t == cmd[c].task
           s == task[t].submitted
<1>1. /\ OthersKept(t) /\ run' = run
      /\ task[t].stage = "AwaitingAcceptance" /\ task'[t].stage = "Done"
      /\ task'[t].agr = task[t].agr /\ task'[t].submitted = s
  BY AcceptEffect DEF Moved
<1>2. t \in Tasks /\ \A u \in Tasks \ {t} : task'[u] = task[u]
  BY <1>1 DEF OthersKept
<1>3. s \in PassedUnder(t) /\ s \in Snapshots
  <2>1. /\ task[t].run # None /\ s # None
        /\ run[task[t].run].task = t /\ run[task[t].run].state = "Completed"
        /\ run[task[t].run].stamp = s /\ run[task[t].run].agr = task[t].agr.ver
    BY <1>1, <1>2 DEF DirectInv, RowInv, TaskRowed
  <2>2. task[t].run \in RunIds /\ s \in Snapshots
    BY <1>2, <2>1 DEF DirectInv, TypeInv, TypeOK, TaskRecord
  <2>3. task[t].agr # None
    BY <1>1, <1>2 DEF DirectInv, RecordInv, RecordSound
  <2>4. QED
    BY <2>1, <2>2, <2>3 DEF PassedUnder
<1>4. \A u \in Tasks : PassedUnder(u)' = PassedUnder(u)
  BY <1>1, <1>2, PassedKept DEF SameVerdict
<1>5. PhaseOf(task[t]) = "writing" /\ PhaseOf(task'[t]) = "accepted"
  BY <1>1 DEF PhaseOf, Writing, Claiming
<1>6. /\ [u \in Tasks |-> PhaseOf(task'[u])]
             = [[u \in Tasks |-> PhaseOf(task[u])] EXCEPT ![t] = "accepted"]
      /\ [u \in Tasks |-> PassedUnder(u)]' = [u \in Tasks |-> PassedUnder(u)]
      /\ [u \in Tasks |-> AcceptedOf(task'[u])]
             = [[u \in Tasks |-> AcceptedOf(task[u])] EXCEPT ![t] = s]
  BY <1>1, <1>2, <1>4, <1>5 DEF AcceptedOf
<1>7. QED
  BY <1>2, <1>3, <1>5, <1>6 DEF Contract!Next, Contract!Accept, AcceptedOf

\* A run passes a source, or takes its verdict back unless another run of the
\* task passed the same source.
LEMMA OutcomeMeetsContract ==
    ASSUME DirectInv, NEW c \in Clients, RunCompletes(c) \/ CompletionEventFails(c)
    PROVE  [Contract!Next]_Contract!vars
<1>1. PICK t \in Tasks, r \in RunIds, s \in Snapshots :
        /\ task[t].stage = "Checking" /\ task[t].agr # None
        /\ \A u \in Tasks : SameRowed(task'[u], task[u])
        /\ run' = [run EXCEPT ![r] = run'[r]] /\ run[r].task = t
        /\ run[r].stamp = s /\ run[r].agr = task[t].agr.ver
        /\ run'[r].task = t /\ run'[r].stamp = s /\ run'[r].agr = task[t].agr.ver
        /\ \/ run[r].state = "Running" /\ run'[r].state = "Completed"
           \/ run[r].state = "Completed" /\ run'[r].state = "Failed"
  BY OutcomeEffect
<1>2. \A q \in RunIds \ {r} : run'[q] = run[q]
  BY <1>1 DEF DirectInv, TypeInv, TypeOK
<1>3. \A u \in Tasks : /\ PhaseOf(task'[u]) = PhaseOf(task[u])
                       /\ AcceptedOf(task'[u]) = AcceptedOf(task[u])
                       /\ task'[u].agr = task[u].agr
  BY <1>1 DEF SameRowed, PhaseOf, AcceptedOf
<1>4. PhaseOf(task[t]) = "writing"
  BY <1>1, PhaseFacts DEF Stages, Writing, Claiming
<1>5. ASSUME NEW u \in Tasks \ {t}
      PROVE  PassedUnder(u)' = PassedUnder(u)
  BY <1>1, <1>2, <1>3 DEF PassedUnder
<1> DEFINE others == {run[q].stamp : q \in {x \in RunIds \ {r} :
                          /\ run[x].task = t /\ run[x].state = "Completed"
                          /\ run[x].agr = task[t].agr.ver}}
<1>6. PassedUnder(t) = others \cup (IF run[r].state = "Completed" THEN {s} ELSE {})
  BY <1>1 DEF PassedUnder
<1>7. PassedUnder(t)' = others \cup (IF run'[r].state = "Completed" THEN {s} ELSE {})
  BY <1>1, <1>2, <1>3 DEF PassedUnder
<1> HIDE DEF others
<1>8. ASSUME NEW new, PassedUnder(t)' = new
      PROVE  /\ [u \in Tasks |-> PhaseOf(task'[u])] = [u \in Tasks |-> PhaseOf(task[u])]
             /\ [u \in Tasks |-> PassedUnder(u)]'
                    = [[u \in Tasks |-> PassedUnder(u)] EXCEPT ![t] = new]
             /\ [u \in Tasks |-> AcceptedOf(task'[u])]
                    = [u \in Tasks |-> AcceptedOf(task[u])]
  BY <1>3, <1>5, <1>8
<1>9. CASE run'[r].state = "Completed"
  <2>1. PassedUnder(t)' = PassedUnder(t) \cup {s}
    BY <1>1, <1>6, <1>7, <1>9
  <2>2. QED
    BY <1>4, <1>8, <2>1 DEF Contract!Next, Contract!Pass, AcceptedOf
<1>10. CASE run'[r].state = "Failed" /\ s \notin others
  <2>1. PassedUnder(t)' = PassedUnder(t) \ {s}
    BY <1>1, <1>6, <1>7, <1>10
  <2>2. QED
    BY <1>4, <1>8, <2>1 DEF Contract!Next, Contract!Retract, AcceptedOf
<1>11. CASE run'[r].state = "Failed" /\ s \in others
  <2>1. PassedUnder(t)' = PassedUnder(t)
    BY <1>1, <1>6, <1>7, <1>11
  <2>2. QED
    BY <1>8, <2>1 DEF Contract!vars, AcceptedOf
<1>12. QED
  BY <1>1, <1>9, <1>10, <1>11

\* Writes of a row that give or take no verdict.
LEMMA RowsMeetContract ==
    ASSUME DirectInv, NEW c \in Clients,
           \/ VerifyTicket(c) \/ VerifyCheckpoint(c) \/ RunCreated(c) \/ RunStarted(c)
           \/ \E outcome \in {"Failed", "ReworkRequired", "Cancelled"} : RunEnds(c, outcome)
           \/ VerifyFinish(c) \/ VerifyThrows(c) \/ VerifyAbandon(c) \/ SaveApproval(c)
           \/ RecoverRun(c) \/ RecoverTicket(c)
    PROVE  UNCHANGED Contract!vars
<1> DEFINE old == Row(c)
<1>1. ASSUME NEW row, run' = [run EXCEPT ![cmd[c].run] = row], task' = task,
             cmd[c].run \in RunIds => SameVerdict(row, old)
      PROVE  UNCHANGED Contract!vars
  <2>1. \A q \in RunIds : SameVerdict(run'[q], run[q])
    BY <1>1 DEF DirectInv, TypeInv, TypeOK, SameVerdict, Row
  <2>2. QED
    BY <1>1, <2>1, ContractStutters
<1>2. ASSUME NEW op \in {"verify", "recover"}, NEW from, NEW to, NEW row,
             RunStep(c, op, from, to, row), SameVerdict(row, old)
      PROVE  UNCHANGED Contract!vars
  BY <1>1, <1>2 DEF RunStep
<1>3. cmd[c].run \in RunIds => old \in RunRecord
  BY RowType DEF DirectInv, TypeInv
<1>4. CASE VerifyTicket(c) \/ VerifyCheckpoint(c)
  <2>1. old \in RunRecord /\ old.state = "None"
    BY <1>4, RunStepFields DEF VerifyTicket, VerifyCheckpoint, CommandRowed, Early
  <2>2. /\ SameVerdict([old EXCEPT !.ticket = "Running", !.task = cmd[c].task], old)
        /\ SameVerdict([old EXCEPT !.stamp = cmd[c].snap, !.agr = cmd[c].read.agr.ver], old)
    BY <2>1 DEF RunRecord, SameVerdict
  <2>3. QED
    BY <1>2, <1>4, <2>2 DEF VerifyTicket, VerifyCheckpoint
<1>5. ASSUME NEW from \in {"start", "created", "running"}, NEW to, NEW state,
             state # "Completed", RunStep(c, "verify", from, to, InState(c, state))
      PROVE  UNCHANGED Contract!vars
  <2>1. old \in RunRecord /\ old.state \in {"None", "Created", "Running"}
    BY <1>5, RunStepFields DEF CommandRowed, Early
  <2>2. SameVerdict(InState(c, state), old)
    BY <1>5, <2>1 DEF RunRecord, SameVerdict, InState
  <2>3. QED
    BY <1>2, <1>5, <2>2
<1>6. CASE RunCreated(c) \/ RunStarted(c)
  BY <1>5, <1>6 DEF RunCreated, RunStarted
<1>7. ASSUME NEW outcome \in {"Failed", "ReworkRequired", "Cancelled"}, RunEnds(c, outcome)
      PROVE  UNCHANGED Contract!vars
  BY <1>5, <1>7 DEF RunEnds
<1>8. CASE VerifyThrows(c) \/ RecoverRun(c)
  <2>1. PICK op, from, to :
            /\ op \in {"verify", "recover"}
            /\ RunStep(c, op, from, to, BlockedRow(old))
    BY <1>8 DEF VerifyThrows, RecoverRun
  <2>2. old \in RunRecord
    BY <2>1, RunStepFields
  <2>3. SameVerdict(BlockedRow(old), old)
    BY <2>2, BlockedFields DEF SameVerdict
  <2>4. QED
    BY <1>2, <2>1, <2>3
<1>9. ASSUME NEW ticket, old \in RunRecord
      PROVE  /\ SameVerdict([old EXCEPT !.ticket = ticket], old)
             /\ SameVerdict([old EXCEPT !.approved = TRUE], old)
  BY <1>9 DEF RunRecord, SameVerdict
<1>10. ASSUME NEW op \in {"verify", "recover"}, NEW from, NEW to, NEW ticket,
              RunStep(c, op, from, to, [old EXCEPT !.ticket = ticket])
       PROVE  UNCHANGED Contract!vars
  <2>1. old \in RunRecord
    BY <1>10, RunStepFields
  <2>2. QED
    BY <1>2, <1>9, <1>10, <2>1
<1>11. CASE VerifyFinish(c) \/ RecoverTicket(c)
  BY <1>10, <1>11 DEF VerifyFinish, RecoverTicket
<1>12. CASE VerifyAbandon(c)
  <2>1. run' = [run EXCEPT ![cmd[c].run] = [old EXCEPT !.ticket = "Finished"]]
        /\ task' = task
    BY <1>12 DEF VerifyAbandon, Row
  <2>2. QED
    BY <1>1, <1>3, <1>9, <2>1
<1>13. CASE SaveApproval(c)
  <2>1. run' = [run EXCEPT ![cmd[c].run] = [old EXCEPT !.approved = TRUE]]
        /\ task' = task
    BY <1>13 DEF SaveApproval, Row
  <2>2. QED
    BY <1>1, <1>3, <1>9, <2>1
<1>14. QED
  BY <1>4, <1>6, <1>7, <1>8, <1>11, <1>12, <1>13

LEMMA NothingMeetsContract ==
    ASSUME UNCHANGED <<task, run>>
    PROVE  UNCHANGED Contract!vars
BY ContractStutters DEF SameVerdict

LEMMA InitMeetsContract == Init => Contract!Init
<1> SUFFICES ASSUME Init PROVE Contract!Init
  OBVIOUS
<1>1. \A t \in Tasks : task[t] = NoTask
  BY DEF Init
<1>2. PhaseOf(NoTask) = "open" /\ NoTask.agr = None /\ NoTask.stage = "Absent"
  <2>1. NoTask.agr = None /\ NoTask.stage = "Absent"
    BY DEF NoTask
  <2>2. QED
    BY <2>1, PhaseFacts DEF Stages
<1>3. \A t \in Tasks : PassedUnder(t) = {}
  BY <1>1, <1>2 DEF PassedUnder
<1>4. QED
  BY <1>1, <1>2, <1>3 DEF Contract!Init

LEMMA StepMeetsContract ==
    DirectInv /\ TypeInv' /\ [Next]_vars => [Contract!Next]_Contract!vars
<1> SUFFICES ASSUME DirectInv, TypeInv', [Next]_vars PROVE [Contract!Next]_Contract!vars
  OBVIOUS
<1>1. ASSUME NEW c \in Clients, ClientStep(c)
      PROVE  [Contract!Next]_Contract!vars
  <2>1. PICK t \in Tasks :
          \/ Create(c, t) \/ Document(c, t) \/ Status(c, t)
          \/ \E scopeChange \in BOOLEAN : Feedback(c, t, scopeChange)
          \/ ReadAgree(c, t) \/ ReadBegin(c, t) \/ ReadSubmit(c, t)
          \/ \E r \in RunIds : ReadVerify(c, t, r)
          \/ ReadAlign(c, t) \/ ReadLens(c, t) \/ ReadAccept(c, t)
          \/ ReadRecover(c, t)
    BY <1>1 DEF ClientStep
  <2>2. CASE \/ ReadAgree(c, t) \/ ReadBegin(c, t) \/ ReadSubmit(c, t)
             \/ \E r \in RunIds : ReadVerify(c, t, r)
             \/ ReadAlign(c, t) \/ ReadLens(c, t) \/ ReadAccept(c, t)
             \/ ReadRecover(c, t)
    <3>1. UNCHANGED <<task, run>>
      BY <2>2 DEF ReadAgree, ReadBegin, ReadSubmit, ReadVerify, ReadAlign, ReadLens,
                  ReadAccept, ReadRecover, Read
    <3>2. QED
      BY <3>1, NothingMeetsContract
  <2>3. QED
    BY <2>1, <2>2, EditMeetsContract
<1>2. ASSUME NEW c \in Clients, CommandStep(c)
      PROVE  [Contract!Next]_Contract!vars
  <2>1. CASE VerifyAudit(c)
    BY <2>1, NothingMeetsContract DEF VerifyAudit
  <2>2. QED
    BY <1>2, <2>1, RecordsMeetContract, AgreeMeetsContract, AcceptMeetsContract,
       OutcomeMeetsContract, RowsMeetContract DEF CommandStep
<1>3. CASE UNCHANGED vars
  BY <1>3, NothingMeetsContract DEF vars
<1>4. CASE \/ \E c \in Clients : Crash(c)
           \/ \E p \in Profiles : SaveProject(p)
           \/ HostStep \/ Environment
  BY <1>4, OutsideRows, NothingMeetsContract
<1>5. QED
  BY <1>1, <1>2, <1>3, <1>4 DEF Next

\* Commands, crashes, recoveries, edits and the legacy host included, every
\* behaviour of the service is one the contract with the Owner allows.
THEOREM ServiceKeepsContract == Spec => ImplementsContract
<1>1. DirectInv /\ DirectInv' /\ [Next]_vars => [Contract!Next]_Contract!vars
  BY StepMeetsContract DEF DirectInv
<1>2. QED
  BY <1>1, InitMeetsContract, DirectInvariant, PTL
     DEF Spec, Contract!Spec, ImplementsContract
=============================================================================
