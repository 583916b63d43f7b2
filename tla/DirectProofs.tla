---------------------------- MODULE DirectProofs ----------------------------
(***************************************************************************)
(* Theorems about DirectWorkflow for every number of tasks, clients, run   *)
(* ids, source states and profiles.                                        *)
(***************************************************************************)
EXTENDS DirectProperties, TLAPS

\* A command that begins or verifies read a record with an agreement.
AgreementRead ==
    \A c \in Clients :
        cmd[c].op \in {"begin", "verify"} => cmd[c].read.agr # None

TypeInv == TypeOK /\ AgreementRead

-----------------------------------------------------------------------------
(* Records.                                                                *)

LEMMA RecordUpdateType ==
    ASSUME NEW k \in TaskRecord, NEW stage \in Stages, NEW life \in Lives
    PROVE  [k EXCEPT !.stage = stage, !.life = life] \in TaskRecord
BY DEF TaskRecord

LEMMA StagedType ==
    ASSUME NEW k \in TaskRecord, NEW stage \in Stages
    PROVE  Staged(k, stage) \in TaskRecord
<1>1. (IF stage \in Lives THEN stage ELSE "Active") \in Lives
  BY DEF Lives
<1>2. QED
  BY <1>1, RecordUpdateType DEF Staged

LEMMA UnprovenType ==
    ASSUME NEW k \in TaskRecord
    PROVE  Unproven(k) \in TaskRecord
BY DEF Unproven, TaskRecord

LEMMA DocumentedType ==
    ASSUME NEW k \in TaskRecord, NEW n \in Nat, NEW b \in BOOLEAN
    PROVE  /\ [k EXCEPT !.stage = "Discussing", !.reqDocs = b] \in TaskRecord
           /\ [k EXCEPT !.docs = n, !.reqDocs = b, !.align = None, !.lens = None]
                  \in TaskRecord
<1>1. "Discussing" \in Stages
  BY DEF Stages
<1>2. QED
  BY <1>1 DEF TaskRecord

LEMMA StagedStage ==
    ASSUME NEW k \in TaskRecord, NEW stage
    PROVE  Staged(k, stage).stage = stage
BY DEF Staged, TaskRecord

\* The records the commands write, one lemma for each command.
LEMMA AgreedRecord ==
    ASSUME TypeOK, NEW old \in TaskRecord, NEW s \in Snapshots
    PROVE  Agreed(old, s) \in TaskRecord /\ Agreed(old, s).stage = "Ready"
<1> DEFINE a == [ver |-> (IF old.agr = None THEN 0 ELSE old.agr.ver) + 1,
                 base |-> s, profile |-> profile, docs |-> old.docs]
           k == Staged(Unproven(old), "Ready")
<1>1. a \in Agreements
  <2>1. (IF old.agr = None THEN 0 ELSE old.agr.ver) + 1 \in Nat /\ old.docs \in Nat
    BY DEF TaskRecord, Agreements
  <2>2. QED
    BY <2>1 DEF Agreements, TypeOK
<1>2. k \in TaskRecord /\ k.stage = "Ready"
  BY UnprovenType, StagedType, StagedStage DEF Stages
<1>3. Agreed(old, s) = [k EXCEPT !.agr = a, !.risk = 0]
  BY DEF Agreed
<1> HIDE DEF a, k
<1>4. /\ [k EXCEPT !.agr = a, !.risk = 0] \in TaskRecord
      /\ [k EXCEPT !.agr = a, !.risk = 0].stage = "Ready"
  BY <1>1, <1>2 DEF TaskRecord
<1>5. QED
  BY <1>3, <1>4, Zenon

LEMMA SubmittedRecord ==
    ASSUME NEW old \in TaskRecord, NEW s \in Snapshots
    PROVE  [Staged(old, "Submitted") EXCEPT !.submitted = s] \in TaskRecord
<1>1. Staged(old, "Submitted") \in TaskRecord
  BY StagedType DEF Stages
<1>2. QED
  BY <1>1 DEF TaskRecord

LEMMA AlignedRecord ==
    ASSUME NEW old \in TaskRecord, NEW e \in Evidence
    PROVE  /\ [Staged(old, "AwaitingAcceptance") EXCEPT !.align = e] \in TaskRecord
           /\ [old EXCEPT !.lens = e] \in TaskRecord
<1>1. Staged(old, "AwaitingAcceptance") \in TaskRecord
  BY StagedType DEF Stages
<1>2. QED
  BY <1>1 DEF TaskRecord

LEMMA BegunRecord ==
    ASSUME NEW old \in TaskRecord, NEW approval \in BOOLEAN, old.agr # None
    PROVE  [Staged(Unproven(old), "Implementing") EXCEPT
               !.risk = IF approval THEN old.agr.ver ELSE @] \in TaskRecord
<1> DEFINE k == Staged(Unproven(old), "Implementing")
           n == IF approval THEN old.agr.ver ELSE k.risk
<1>1. k \in TaskRecord
  BY UnprovenType, StagedType DEF Stages
<1>2. n \in Nat
  BY <1>1 DEF TaskRecord, Agreements
<1> HIDE DEF k, n
<1>3. [k EXCEPT !.risk = n] \in TaskRecord
  BY <1>1, <1>2 DEF TaskRecord
<1>4. QED
  BY <1>3 DEF k, n

LEMMA CheckingRecord ==
    ASSUME NEW old \in TaskRecord, NEW r \in RunIds \cup {None}
    PROVE  [Staged(old, "Checking") EXCEPT !.run = r, !.align = None, !.lens = None,
                                           !.captured = None] \in TaskRecord
<1>1. Staged(old, "Checking") \in TaskRecord
  BY StagedType DEF Stages
<1>2. QED
  BY <1>1 DEF TaskRecord

LEMMA JudgedRecord ==
    ASSUME NEW old \in TaskRecord, NEW state, NEW r \in RunIds \cup {None}
    PROVE  [Staged(old, Verdict(state)) EXCEPT !.captured = r] \in TaskRecord
<1>1. Verdict(state) \in Stages
  BY DEF Verdict, Stages
<1>2. Staged(old, Verdict(state)) \in TaskRecord
  BY <1>1, StagedType
<1>3. QED
  BY <1>2 DEF TaskRecord

LEMMA SaveType ==
    ASSUME TypeOK, NEW t \in Tasks, NEW k \in TaskRecord, Save(t, k)
    PROVE  task' \in [Tasks -> TaskRecord]
<1>1. [k EXCEPT !.rev = @ + 1] \in TaskRecord
  BY DEF TaskRecord
<1>2. QED
  BY <1>1 DEF Save, TypeOK

LEMMA CommandType ==
    ASSUME TypeOK, NEW c \in Clients, cmd[c] # Idle
    PROVE  /\ cmd[c] \in Command
           /\ cmd[c].op \in Ops /\ cmd[c].task \in Tasks
           /\ cmd[c].read \in TaskRecord /\ cmd[c].snap \in Snapshots
           /\ cmd[c].run \in RunIds \cup {None} /\ cmd[c].step \in Steps
<1>1. cmd[c] \in Command
  BY DEF TypeOK
<1>2. QED
  BY <1>1 DEF Command

LEMMA IdleOp == Idle.op \notin Ops /\ Idle.op = "idle"
BY DEF Idle, Ops

LEMMA RowType ==
    ASSUME TypeOK, NEW c \in Clients, cmd[c].run \in RunIds
    PROVE  Row(c) \in RunRecord
BY DEF TypeOK, Row

-----------------------------------------------------------------------------
(* The shapes of a command's steps.                                        *)

LEMMA GotoType ==
    ASSUME TypeInv, NEW c \in Clients, cmd[c] # Idle, NEW to \in Steps, Goto(c, to)
    PROVE  cmd' \in [Clients -> Command \cup {Idle}] /\ AgreementRead'
<1>1. cmd[c] \in Command /\ cmd \in [Clients -> Command \cup {Idle}]
  BY CommandType DEF TypeInv, TypeOK
<1>2. [cmd[c] EXCEPT !.step = to] \in Command
  BY <1>1 DEF Command
<1>3. cmd' = [cmd EXCEPT ![c] = [cmd[c] EXCEPT !.step = to]]
  BY DEF Goto
<1>4. cmd' \in [Clients -> Command \cup {Idle}]
  BY <1>1, <1>2, <1>3
<1>5. ASSUME NEW d \in Clients, cmd'[d].op \in {"begin", "verify"}
      PROVE  cmd'[d].read.agr # None
  <2>1. cmd'[d].op = cmd[d].op /\ cmd'[d].read = cmd[d].read
    BY <1>1, <1>3 DEF Command
  <2>2. QED
    BY <1>5, <2>1 DEF TypeInv, AgreementRead
<1>6. QED
  BY <1>4, <1>5 DEF AgreementRead

LEMMA ExitType ==
    ASSUME TypeInv, NEW c \in Clients, Exit(c)
    PROVE  cmd' \in [Clients -> Command \cup {Idle}] /\ AgreementRead'
<1>1. cmd' = [cmd EXCEPT ![c] = Idle] /\ cmd \in [Clients -> Command \cup {Idle}]
  BY DEF Exit, TypeInv, TypeOK
<1>2. ASSUME NEW d \in Clients, cmd'[d].op \in {"begin", "verify"}
      PROVE  cmd'[d].read.agr # None
  BY <1>1, <1>2, IdleOp DEF TypeInv, AgreementRead
<1>3. QED
  BY <1>1, <1>2 DEF AgreementRead

LEMMA RunStepType ==
    ASSUME TypeInv, NEW c \in Clients, NEW op \in Ops, NEW from,
           NEW to \in Steps, NEW row, RunStep(c, op, from, to, row),
           cmd[c].run \in RunIds => row \in RunRecord
    PROVE  TypeInv'
<1>1. cmd[c] # Idle
  BY IdleOp DEF RunStep, At
<1>2. cmd' \in [Clients -> Command \cup {Idle}] /\ AgreementRead'
  BY <1>1, GotoType DEF RunStep
<1>3. run' \in [RunIds -> RunRecord]
  BY DEF RunStep, TypeInv, TypeOK
<1>4. QED
  BY <1>2, <1>3 DEF RunStep, TypeInv, TypeOK, world

LEMMA TaskStepType ==
    ASSUME TypeInv, NEW c \in Clients, NEW op \in Ops, NEW from,
           NEW to \in Steps, NEW k \in TaskRecord, TaskStep(c, op, from, to, k)
    PROVE  TypeInv'
<1>1. cmd[c] # Idle
  BY IdleOp DEF TaskStep, At
<1>2. cmd' \in [Clients -> Command \cup {Idle}] /\ AgreementRead'
  BY <1>1, GotoType DEF TaskStep
<1>3. task' \in [Tasks -> TaskRecord]
  BY <1>1, CommandType, SaveType DEF TaskStep, TypeInv
<1>4. QED
  BY <1>2, <1>3 DEF TaskStep, TypeInv, TypeOK, world

LEMMA LastWriteType ==
    ASSUME TypeInv, NEW c \in Clients, NEW op \in Ops, NEW k \in TaskRecord,
           LastWrite(c, op, k)
    PROVE  TypeInv'
<1>1. cmd[c] # Idle
  BY IdleOp DEF LastWrite, At
<1>2. cmd' \in [Clients -> Command \cup {Idle}] /\ AgreementRead'
  BY ExitType DEF LastWrite
<1>3. task' \in [Tasks -> TaskRecord]
  BY <1>1, CommandType, SaveType DEF LastWrite, TypeInv
<1>4. QED
  BY <1>2, <1>3 DEF LastWrite, TypeInv, TypeOK, world

LEMMA ReadType ==
    ASSUME TypeInv, NEW c \in Clients, NEW t \in Tasks, NEW op \in Ops,
           NEW allowed, NEW guard, NEW step \in Steps, NEW r \in RunIds \cup {None},
           Read(c, t, op, allowed, guard, step, r),
           op \in {"begin", "verify"} => task[t].agr # None
    PROVE  TypeInv'
<1> DEFINE new == [op |-> op, task |-> t, read |-> task[t], snap |-> source,
                   run |-> r, step |-> step]
<1>1. task[t] \in TaskRecord /\ source \in Snapshots
  BY DEF TypeInv, TypeOK
<1>2. new \in Command
  BY <1>1 DEF Command
<1>3. cmd' = [cmd EXCEPT ![c] = new] /\ cmd \in [Clients -> Command \cup {Idle}]
  BY DEF Read, TypeInv, TypeOK
<1>4. new.op = op /\ new.read = task[t]
  OBVIOUS
<1> HIDE DEF new
<1>5. cmd' \in [Clients -> Command \cup {Idle}]
  BY <1>2, <1>3
<1>6. ASSUME NEW d \in Clients, cmd'[d].op \in {"begin", "verify"}
      PROVE  cmd'[d].read.agr # None
  BY <1>3, <1>4, <1>6 DEF TypeInv, AgreementRead
<1>7. QED
  BY <1>5, <1>6 DEF Read, TypeInv, TypeOK, AgreementRead, world

-----------------------------------------------------------------------------
(* Type correctness: one lemma for each group of actions.                  *)

LEMMA InitType == Init => TypeInv
<1>1. NoTask \in TaskRecord /\ NoRun \in RunRecord
  BY DEF NoTask, TaskRecord, NoRun, RunRecord, Stages, Lives, Tickets,
         RunStates, ActiveStates
<1>2. ASSUME Init PROVE TypeOK
  <2>1. task \in [Tasks -> TaskRecord] /\ run \in [RunIds -> RunRecord]
    BY <1>1, <1>2 DEF Init
  <2>2. intact \in [Tasks -> BOOLEAN] /\ legacy \in BOOLEAN /\ host \in BOOLEAN
    BY <1>2 DEF Init
  <2>3. known \in [Clients -> [Tasks -> Nat]]
    BY <1>2 DEF Init
  <2>4. cmd \in [Clients -> Command \cup {Idle}]
    BY <1>2 DEF Init
  <2>5. QED
    BY <1>2, <2>1, <2>2, <2>3, <2>4 DEF Init, TypeOK
<1>3. Init => AgreementRead
  BY IdleOp DEF Init, AgreementRead, Ops
<1>4. QED
  BY <1>2, <1>3 DEF TypeInv

LEMMA EditType ==
    ASSUME TypeInv, NEW c \in Clients, NEW t \in Tasks,
           \/ Create(c, t) \/ Document(c, t) \/ Status(c, t)
           \/ \E scopeChange \in BOOLEAN : Feedback(c, t, scopeChange)
    PROVE  TypeInv'
<1>1. task[t] \in TaskRecord /\ task[t].rev \in Nat
  BY DEF TypeInv, TypeOK, TaskRecord
<1>2. CASE Create(c, t)
  <2> DEFINE b == t \in DocTasks
  <2>1. b \in BOOLEAN
    OBVIOUS
  <2>2. task' = [task EXCEPT ![t] = [task[t] EXCEPT !.stage = "Discussing",
                                                  !.reqDocs = b]]
    BY <1>2 DEF Create
  <2> HIDE DEF b
  <2>3. [task[t] EXCEPT !.stage = "Discussing", !.reqDocs = b] \in TaskRecord
    BY <1>1, <2>1, DocumentedType
  <2>4. task' \in [Tasks -> TaskRecord]
    BY <2>2, <2>3 DEF TypeInv, TypeOK
  <2>5. QED
    BY <1>2, <2>4 DEF Create, TypeInv, TypeOK, AgreementRead, world
<1>3. CASE Document(c, t)
  <2> DEFINE k == Staged(task[t], "Discussing")
  <2>1. k \in TaskRecord
    BY <1>1, StagedType DEF Stages
  <2>2. k.docs \in Nat
    BY <2>1 DEF TaskRecord
  <2> HIDE DEF k
  <2>3. [k EXCEPT !.docs = @ + 1, !.reqDocs = TRUE, !.align = None, !.lens = None]
            \in TaskRecord
    <3>1. k.docs + 1 \in Nat /\ TRUE \in BOOLEAN
      BY <2>2
    <3>2. QED
      BY <2>1, <3>1, DocumentedType
  <2>4. task' \in [Tasks -> TaskRecord]
    BY <1>3, <2>3, SaveType DEF Document, TypeInv, k
  <2>5. QED
    BY <1>3, <2>4 DEF Document, TypeInv, TypeOK, AgreementRead
<1>4. CASE Status(c, t)
  BY <1>1, <1>4 DEF Status, TypeInv, TypeOK, AgreementRead, world
<1>5. ASSUME NEW scopeChange \in BOOLEAN, Feedback(c, t, scopeChange)
      PROVE  TypeInv'
  <2>1. Staged(Unproven(task[t]), IF scopeChange THEN "Discussing" ELSE "Rework")
            \in TaskRecord
    BY <1>1, UnprovenType, StagedType DEF Stages
  <2>2. task' \in [Tasks -> TaskRecord]
    BY <1>5, <2>1, SaveType DEF Feedback, TypeInv
  <2>3. QED
    BY <1>5, <2>2 DEF Feedback, TypeInv, TypeOK, AgreementRead, world
<1>6. QED
  BY <1>2, <1>3, <1>4, <1>5

LEMMA ReadsType ==
    ASSUME TypeInv, NEW c \in Clients, NEW t \in Tasks,
           \/ ReadAgree(c, t) \/ ReadBegin(c, t) \/ ReadSubmit(c, t)
           \/ \E r \in RunIds : ReadVerify(c, t, r)
           \/ ReadAlign(c, t) \/ ReadLens(c, t) \/ ReadAccept(c, t)
           \/ ReadRecover(c, t)
    PROVE  TypeInv'
<1>1. task[t].run \in RunIds \cup {None}
  BY DEF TypeInv, TypeOK, TaskRecord
<1>2. {"agree", "begin", "submit", "verify", "align", "lens", "accept", "recover"}
          \subseteq Ops
      /\ {"save", "ticket", "recover"} \subseteq Steps
  BY DEF Ops, Steps
<1>3. CASE ReadAgree(c, t)
  BY <1>2, <1>3, ReadType DEF ReadAgree
<1>4. CASE ReadBegin(c, t)
  <2>1. task[t].agr # None
    BY <1>4 DEF ReadBegin, Read, CanBegin, FrozenProject
  <2>2. QED
    BY <1>2, <1>4, <2>1, ReadType DEF ReadBegin
<1>5. CASE ReadSubmit(c, t)
  BY <1>2, <1>5, ReadType DEF ReadSubmit
<1>6. ASSUME NEW r \in RunIds, ReadVerify(c, t, r)
      PROVE  TypeInv'
  <2>1. task[t].agr # None
    BY <1>6 DEF ReadVerify, Read, CanVerify, FrozenProject
  <2>2. QED
    BY <1>2, <1>6, <2>1, ReadType DEF ReadVerify
<1>7. CASE ReadAlign(c, t)
  BY <1>2, <1>7, ReadType DEF ReadAlign
<1>8. CASE ReadLens(c, t)
  BY <1>1, <1>2, <1>8, ReadType DEF ReadLens
<1>9. CASE ReadAccept(c, t)
  BY <1>1, <1>2, <1>9, ReadType DEF ReadAccept
<1>10. CASE ReadRecover(c, t)
  BY <1>1, <1>2, <1>10, ReadType DEF ReadRecover
<1>11. QED
  BY <1>3, <1>4, <1>5, <1>6, <1>7, <1>8, <1>9, <1>10

LEMMA SavesType ==
    ASSUME TypeInv, NEW c \in Clients,
           \/ Agree(c) \/ Submit(c) \/ Align(c) \/ RecordLens(c)
           \/ \E approval \in BOOLEAN : Begin(c, approval)
           \/ Accept(c) \/ Recover(c)
    PROVE  TypeInv'
<1> DEFINE old == cmd[c].read
<1>1. cmd[c] # Idle
  BY IdleOp DEF Agree, Submit, Align, RecordLens, Begin, Accept, Recover,
                LastWrite, TaskStep, At, Ops
<1>2. /\ old \in TaskRecord /\ cmd[c].snap \in Snapshots
      /\ [run |-> old.run, stamp |-> cmd[c].snap] \in Evidence
      /\ [run |-> cmd[c].run, stamp |-> old.submitted] \in Evidence
  BY <1>1, CommandType DEF TypeInv, TaskRecord, Evidence
<1>3. /\ {"agree", "begin", "submit", "align", "lens", "accept", "recover"} \subseteq Ops
      /\ "approve" \in Steps /\ {"Done", "Blocked"} \subseteq Stages
  BY DEF Ops, Steps, Stages
<1>4. CASE Agree(c)
  BY <1>2, <1>3, <1>4, AgreedRecord, LastWriteType DEF Agree, TypeInv
<1>5. CASE Submit(c)
  BY <1>2, <1>3, <1>5, SubmittedRecord, LastWriteType DEF Submit
<1>6. CASE Align(c)
  BY <1>2, <1>3, <1>6, AlignedRecord, LastWriteType DEF Align
<1>7. CASE RecordLens(c)
  BY <1>2, <1>3, <1>7, AlignedRecord, LastWriteType DEF RecordLens
<1>8. ASSUME NEW approval \in BOOLEAN, Begin(c, approval)
      PROVE  TypeInv'
  <2>1. old.agr # None
    BY <1>8 DEF Begin, LastWrite, At, TypeInv, AgreementRead
  <2>2. QED
    BY <1>2, <1>3, <1>8, <2>1, BegunRecord, LastWriteType DEF Begin
<1>9. CASE Accept(c)
  BY <1>2, <1>3, <1>9, StagedType, TaskStepType DEF Accept
<1>10. CASE Recover(c)
  BY <1>2, <1>3, <1>10, StagedType, LastWriteType DEF Recover
<1>11. QED
  BY <1>4, <1>5, <1>6, <1>7, <1>8, <1>9, <1>10

LEMMA ApprovedType ==
    ASSUME NEW row \in RunRecord
    PROVE  [row EXCEPT !.approved = TRUE] \in RunRecord
BY DEF RunRecord

LEMMA BlockedRowType ==
    ASSUME NEW row \in RunRecord
    PROVE  BlockedRow(row) \in RunRecord
<1>1. "Blocked" \in RunStates
  BY DEF RunStates
<1>2. [row EXCEPT !.state = "Blocked"] \in RunRecord
  BY <1>1 DEF RunRecord
<1>3. QED
  BY <1>2 DEF BlockedRow

LEMMA RunRowsType ==
    ASSUME TypeInv, NEW c \in Clients,
           \/ VerifyTicket(c) \/ VerifyCheckpoint(c) \/ RunCreated(c) \/ RunStarted(c)
           \/ \E outcome \in {"Failed", "ReworkRequired", "Cancelled"} : RunEnds(c, outcome)
           \/ VerifyFinish(c) \/ VerifyThrows(c)
           \/ RecoverRun(c) \/ RecoverTicket(c)
    PROVE  TypeInv'
<1>1. cmd[c] # Idle /\ cmd[c].op \in {"verify", "recover"}
  BY IdleOp DEF VerifyTicket, VerifyCheckpoint, RunCreated, RunStarted, RunEnds,
     VerifyFinish, VerifyThrows, RecoverRun, RecoverTicket, RunStep, At, Ops
<1>2. /\ cmd[c].task \in Tasks
      /\ cmd[c].snap \in Snapshots
      /\ cmd[c].run \in RunIds => Row(c) \in RunRecord
  BY <1>1, CommandType, RowType DEF TypeInv
<1>3. /\ {"verify", "recover"} \subseteq Ops
      /\ {"ticket", "checkpoint", "checking", "created", "running", "settle",
          "audit", "caught", "save"} \subseteq Steps
      /\ {"Running", "Finished", "Interrupted"} \subseteq Tickets
      /\ {"Created", "Running", "Failed", "ReworkRequired", "Cancelled"}
             \subseteq RunStates
  BY DEF Ops, Steps, Tickets, RunStates, ActiveStates
<1>4. CASE VerifyTicket(c)
  <2> DEFINE row == [Row(c) EXCEPT !.ticket = "Running", !.task = cmd[c].task]
  <2>1. cmd[c].run \in RunIds => row \in RunRecord
    BY <1>2, <1>3 DEF RunRecord
  <2>2. RunStep(c, "verify", "ticket", "checkpoint", row)
    BY <1>4 DEF VerifyTicket
  <2> HIDE DEF row
  <2>3. QED
    BY <1>3, <2>1, <2>2, RunStepType
<1>5. CASE VerifyCheckpoint(c)
  <2>1. cmd[c].read \in TaskRecord /\ cmd[c].read.agr # None
    BY <1>1, <1>5, CommandType
    DEF VerifyCheckpoint, RunStep, At, TypeInv, AgreementRead
  <2>2. cmd[c].read.agr.ver \in Nat
    BY <2>1 DEF TaskRecord, Agreements
  <2> DEFINE row == [Row(c) EXCEPT !.stamp = cmd[c].snap, !.agr = cmd[c].read.agr.ver]
  <2>3. cmd[c].run \in RunIds => row \in RunRecord
    BY <1>2, <2>2 DEF RunRecord
  <2>4. RunStep(c, "verify", "checkpoint", "checking", row)
    BY <1>5 DEF VerifyCheckpoint
  <2> HIDE DEF row
  <2>5. QED
    BY <1>3, <2>3, <2>4, RunStepType
<1>6. CASE RunCreated(c)
  <2>1. cmd[c].run \in RunIds => InState(c, "Created") \in RunRecord
    BY <1>2, <1>3 DEF InState, RunRecord
  <2>2. QED
    BY <1>3, <1>6, <2>1, RunStepType DEF RunCreated
<1>7. CASE RunStarted(c)
  <2>1. cmd[c].run \in RunIds => InState(c, "Running") \in RunRecord
    BY <1>2, <1>3 DEF InState, RunRecord
  <2>2. QED
    BY <1>3, <1>7, <2>1, RunStepType DEF RunStarted
<1>8. ASSUME NEW outcome \in {"Failed", "ReworkRequired", "Cancelled"},
             RunEnds(c, outcome)
      PROVE  TypeInv'
  <2>1. cmd[c].run \in RunIds => InState(c, outcome) \in RunRecord
    BY <1>2, <1>3 DEF InState, RunRecord
  <2>2. QED
    BY <1>3, <1>8, <2>1, RunStepType DEF RunEnds
<1>9. CASE VerifyFinish(c)
  <2>1. cmd[c].run \in RunIds => [Row(c) EXCEPT !.ticket = "Finished"] \in RunRecord
    BY <1>2, <1>3 DEF RunRecord
  <2>2. QED
    BY <1>3, <1>9, <2>1, RunStepType DEF VerifyFinish
<1>10. CASE VerifyThrows(c)
  <2>1. cmd[c].run \in RunIds => BlockedRow(Row(c)) \in RunRecord
    BY <1>2, BlockedRowType
  <2>2. QED
    BY <1>3, <1>10, <2>1, RunStepType DEF VerifyThrows
<1>11. CASE RecoverRun(c)
  <2>1. cmd[c].run \in RunIds => BlockedRow(Row(c)) \in RunRecord
    BY <1>2, BlockedRowType
  <2>2. QED
    BY <1>3, <1>11, <2>1, RunStepType DEF RecoverRun
<1>12. CASE RecoverTicket(c)
  <2>1. cmd[c].run \in RunIds => [Row(c) EXCEPT !.ticket = "Interrupted"] \in RunRecord
    BY <1>2, <1>3 DEF RunRecord
  <2>2. QED
    BY <1>3, <1>12, <2>1, RunStepType DEF RecoverTicket
<1>13. QED
  BY <1>4, <1>5, <1>6, <1>7, <1>8, <1>9, <1>10, <1>11, <1>12

LEMMA VerdictsType ==
    ASSUME TypeInv, NEW c \in Clients,
           \/ VerifyChecking(c) \/ RunCompletes(c) \/ CompletionEventFails(c)
           \/ VerifyResult(c) \/ VerifyCaught(c)
           \/ SaveApproval(c) \/ VerifyAudit(c) \/ VerifyAbandon(c)
    PROVE  TypeInv'
<1> DEFINE t == cmd[c].task
<1>1. cmd[c] # Idle
  BY IdleOp DEF VerifyChecking, RunCompletes, CompletionEventFails, VerifyResult,
     VerifyCaught, SaveApproval, VerifyAudit, VerifyAbandon, TaskStep, At, Ops
<1>2. /\ t \in Tasks /\ task[t] \in TaskRecord /\ cmd[c].read \in TaskRecord
      /\ cmd[c].run \in RunIds \cup {None}
      /\ cmd[c].run \in RunIds => Row(c) \in RunRecord
  BY <1>1, CommandType, RowType DEF TypeInv, TypeOK
<1>3. /\ "verify" \in Ops /\ {"start", "settle", "finish", "abandon"} \subseteq Steps
      /\ {"Checking", "AwaitingAcceptance", "Rework", "Blocked"} \subseteq Stages
      /\ "AwaitingAcceptance" \in Lives
      /\ {"Completed", "Failed"} \subseteq RunStates /\ "Finished" \in Tickets
  BY DEF Ops, Steps, Stages, Lives, RunStates, Tickets
<1>4. CASE VerifyChecking(c)
  BY <1>2, <1>3, <1>4, CheckingRecord, TaskStepType DEF VerifyChecking
<1>5. CASE RunCompletes(c)
  <2>1. [task[t] EXCEPT !.life = "AwaitingAcceptance"] \in TaskRecord
    BY <1>2, <1>3 DEF TaskRecord
  <2>2. task' \in [Tasks -> TaskRecord]
    BY <1>5, <2>1 DEF RunCompletes, CompletedLife, TypeInv, TypeOK
  <2>3. cmd[c].run \in RunIds => [Row(c) EXCEPT !.state = "Completed"] \in RunRecord
    BY <1>2, <1>3 DEF RunRecord
  <2>4. run' \in [RunIds -> RunRecord]
    BY <1>5, <2>3 DEF RunCompletes, Row, TypeInv, TypeOK
  <2>5. cmd' \in [Clients -> Command \cup {Idle}] /\ AgreementRead'
    BY <1>1, <1>3, <1>5, GotoType DEF RunCompletes
  <2>6. QED
    BY <1>5, <2>2, <2>4, <2>5 DEF RunCompletes, TypeInv, TypeOK, world
<1>6. CASE CompletionEventFails(c)
  <2>1. cmd[c].run \in RunIds => [Row(c) EXCEPT !.state = "Failed"] \in RunRecord
    BY <1>2, <1>3 DEF RunRecord
  <2>2. run' \in [RunIds -> RunRecord]
    BY <1>6, <2>1 DEF CompletionEventFails, Row, TypeInv, TypeOK
  <2>3. QED
    BY <1>6, <2>2 DEF CompletionEventFails, TypeInv, TypeOK, AgreementRead, world
<1>7. CASE VerifyResult(c)
  <2> DEFINE r == IF Row(c).state = "Completed" /\ task[t].reqDocs
                  THEN cmd[c].run ELSE None
  <2>1. r \in RunIds \cup {None}
    BY <1>2
  <2>2. TaskStep(c, "verify", "settle", "finish",
                 [Staged(task[t], Verdict(Row(c).state)) EXCEPT !.captured = r])
    BY <1>7 DEF VerifyResult
  <2> HIDE DEF r
  <2>3. QED
    BY <1>2, <1>3, <2>1, <2>2, JudgedRecord, TaskStepType
<1>8. CASE VerifyCaught(c)
  BY <1>2, <1>3, <1>8, StagedType, TaskStepType DEF VerifyCaught
<1>9. CASE SaveApproval(c)
  <2>1. cmd[c].run \in RunIds => [Row(c) EXCEPT !.approved = TRUE] \in RunRecord
    BY <1>2, ApprovedType
  <2>2. run' \in [RunIds -> RunRecord]
    BY <1>9, <2>1 DEF SaveApproval, Row, TypeInv, TypeOK
  <2>3. QED
    BY <1>9, <2>2, ExitType DEF SaveApproval, TypeInv, TypeOK, world
<1>10. CASE VerifyAudit(c)
  BY <1>10, ExitType DEF VerifyAudit, TypeInv, TypeOK, world
<1>11. CASE VerifyAbandon(c)
  <2>1. cmd[c].run \in RunIds => [Row(c) EXCEPT !.ticket = "Finished"] \in RunRecord
    BY <1>2, <1>3 DEF RunRecord
  <2>2. run' \in [RunIds -> RunRecord]
    BY <1>11, <2>1 DEF VerifyAbandon, Row, TypeInv, TypeOK
  <2>3. QED
    BY <1>11, <2>2, ExitType DEF VerifyAbandon, TypeInv, TypeOK, world
<1>12. QED
  BY <1>4, <1>5, <1>6, <1>7, <1>8, <1>9, <1>10, <1>11

LEMMA OutsideType ==
    ASSUME TypeInv,
           \/ \E c \in Clients : Crash(c)
           \/ \E p \in Profiles : SaveProject(p)
           \/ HostStep \/ Environment
    PROVE  TypeInv'
<1>1. ASSUME NEW c \in Clients, Crash(c)
      PROVE  TypeInv'
  BY <1>1, ExitType DEF Crash, TypeInv, TypeOK, world
<1>2. ASSUME NEW p \in Profiles, SaveProject(p)
      PROVE  TypeInv'
  BY <1>2 DEF SaveProject, TypeInv, TypeOK, AgreementRead
<1>3. CASE HostStep
  BY <1>3 DEF HostStep, HostStart, HostStop, LegacyRunStarts, LegacyRunEnds,
              HostSaveProject, TypeInv, TypeOK, AgreementRead
<1>4. CASE Environment
  BY <1>4 DEF Environment, EditSource, EditDocument, TypeInv, TypeOK, AgreementRead
<1>5. QED
  BY <1>1, <1>2, <1>3, <1>4

LEMMA TypeStep == TypeInv /\ [Next]_vars => TypeInv'
<1> SUFFICES ASSUME TypeInv, [Next]_vars PROVE TypeInv'
  OBVIOUS
<1>1. ASSUME NEW c \in Clients, ClientStep(c)
      PROVE  TypeInv'
  BY <1>1, EditType, ReadsType DEF ClientStep
<1>2. ASSUME NEW c \in Clients, CommandStep(c)
      PROVE  TypeInv'
  BY <1>2, SavesType, RunRowsType, VerdictsType DEF CommandStep
<1>3. CASE UNCHANGED vars
  BY <1>3 DEF vars, TypeInv, TypeOK, AgreementRead
<1>4. QED
  BY <1>1, <1>2, <1>3, OutsideType DEF Next

\* Every table always holds records of its type: no command, crash or outside
\* change writes a record the store would not load.
THEOREM TypeCorrect == Spec => []TypeOK
<1>1. Spec => []TypeInv
  BY InitType, TypeStep, PTL DEF Spec
<1>2. TypeInv => TypeOK
  BY DEF TypeInv
<1>3. QED
  BY <1>1, <1>2, PTL

(***************************************************************************)
(* Project-wide exclusion.  SingleWriter is not inductive: a command       *)
(* decides on one state and writes in a later one.  CommandUndisturbed     *)
(* carries what it decided.                                                *)
(***************************************************************************)
WriterInv == SingleWriter /\ CommandUndisturbed

-----------------------------------------------------------------------------
(* Who may change the stage of a task without breaking exclusion.          *)

LEMMA OneTaskChanges ==
    ASSUME SingleWriter, NEW t \in Tasks,
           \A u \in Tasks \ {t} : task'[u] = task[u],
           legacy' = legacy,
           task'[t].stage \in Writing =>
               \/ task[t].stage \in Writing
               \/ ~legacy /\ \A u \in Tasks \ {t} : task[u].stage \notin Claiming
    PROVE  SingleWriter'
BY DEF SingleWriter, Writing

LEMMA SaveEffect ==
    ASSUME TypeOK, NEW t \in Tasks, NEW k \in TaskRecord, Save(t, k)
    PROVE  task'[t].stage = k.stage /\ \A u \in Tasks \ {t} : task'[u] = task[u]
<1>1. [k EXCEPT !.rev = @ + 1].stage = k.stage
  BY DEF TaskRecord
<1>2. QED
  BY <1>1 DEF Save, TypeOK

-----------------------------------------------------------------------------
(* The shapes of a command's steps.                                        *)

LEMMA OthersIdle ==
    ASSUME WriterInv, NEW c \in Clients, cmd[c] # Idle
    PROVE  ~host /\ \A d \in Clients \ {c} : cmd[d] = Idle
BY DEF WriterInv, CommandUndisturbed

LEMMA ExitUndisturbed ==
    ASSUME TypeInv, WriterInv, NEW c \in Clients, cmd[c] # Idle, Exit(c)
    PROVE  CommandUndisturbed'
<1>1. \A d \in Clients : cmd'[d] = Idle
  BY OthersIdle DEF Exit, TypeInv, TypeOK
<1>2. QED
  BY <1>1 DEF CommandUndisturbed

LEMMA GotoEffect ==
    ASSUME TypeInv, WriterInv, NEW c \in Clients, cmd[c] # Idle, NEW to, Goto(c, to)
    PROVE  /\ cmd'[c].step = to /\ cmd'[c].op = cmd[c].op
           /\ cmd'[c].task = cmd[c].task /\ cmd'[c].read = cmd[c].read
           /\ \A d \in Clients \ {c} : cmd'[d] = Idle
<1>1. cmd[c] \in Command /\ cmd \in [Clients -> Command \cup {Idle}]
  BY CommandType DEF TypeInv, TypeOK
<1>2. cmd' = [cmd EXCEPT ![c] = [cmd[c] EXCEPT !.step = to]]
  BY DEF Goto
<1>3. cmd'[c] = [cmd[c] EXCEPT !.step = to]
  BY <1>1, <1>2
<1>4. \A d \in Clients \ {c} : cmd'[d] = Idle
  BY <1>1, <1>2, OthersIdle
<1>5. QED
  BY <1>1, <1>3, <1>4 DEF Command

LEMMA RunStepWriter ==
    ASSUME TypeInv, WriterInv, NEW c \in Clients, NEW op \in Ops, NEW from, NEW to,
           NEW row, RunStep(c, op, from, to, row),
           Protected(op, to) => Protected(op, from)
    PROVE  WriterInv'
<1>1. cmd[c] # Idle /\ cmd[c].op = op /\ cmd[c].step = from
  BY IdleOp DEF RunStep, At
<1>2. UNCHANGED <<task, legacy, host>>
  BY DEF RunStep, world
<1>3. SingleWriter'
  BY <1>2 DEF WriterInv, SingleWriter
<1>4. CommandUndisturbed'
  BY <1>1, <1>2, GotoEffect DEF RunStep, WriterInv, CommandUndisturbed
<1>5. QED
  BY <1>3, <1>4 DEF WriterInv

LEMMA TaskStepWriter ==
    ASSUME TypeInv, WriterInv, NEW c \in Clients, NEW op \in Ops, NEW from, NEW to,
           NEW k \in TaskRecord, TaskStep(c, op, from, to, k), ~Protected(op, to),
           k.stage \in Writing => op = "verify" \/ task[cmd[c].task].stage \in Writing
    PROVE  WriterInv'
<1> DEFINE t == cmd[c].task
<1>1. cmd[c] # Idle /\ cmd[c].op = op
  BY IdleOp DEF TaskStep, At
<1>2. t \in Tasks
  BY <1>1, CommandType DEF TypeInv
<1>3. task'[t].stage = k.stage /\ \A u \in Tasks \ {t} : task'[u] = task[u]
  BY <1>2, SaveEffect DEF TaskStep, TypeInv
<1>4. UNCHANGED <<legacy, host>>
  BY DEF TaskStep, world
<1>5. op \in {"begin", "verify"} =>
          ~legacy /\ \A u \in Tasks \ {t} : task[u].stage \notin Claiming
  BY <1>1 DEF WriterInv, CommandUndisturbed
<1>6. SingleWriter'
  BY <1>2, <1>3, <1>4, <1>5, OneTaskChanges DEF WriterInv
<1>7. CommandUndisturbed'
  <2>1. /\ cmd'[c].step = to /\ cmd'[c].op = op /\ cmd'[c].task = t
        /\ cmd'[c].read = cmd[c].read
        /\ \A d \in Clients \ {c} : cmd'[d] = Idle
    BY <1>1, GotoEffect DEF TaskStep
  <2>2. QED
    BY <1>1, <1>3, <1>4, <1>5, <2>1 DEF WriterInv, CommandUndisturbed
<1>8. QED
  BY <1>6, <1>7 DEF WriterInv

LEMMA LastWriteWriter ==
    ASSUME TypeInv, WriterInv, NEW c \in Clients, NEW op \in Ops,
           NEW k \in TaskRecord, LastWrite(c, op, k),
           k.stage \in Writing => op = "begin" \/ task[cmd[c].task].stage \in Writing
    PROVE  WriterInv'
<1> DEFINE t == cmd[c].task
<1>1. cmd[c] # Idle /\ cmd[c].op = op
  BY IdleOp DEF LastWrite, At
<1>2. t \in Tasks
  BY <1>1, CommandType DEF TypeInv
<1>3. task'[t].stage = k.stage /\ \A u \in Tasks \ {t} : task'[u] = task[u]
  BY <1>2, SaveEffect DEF LastWrite, TypeInv
<1>4. UNCHANGED <<legacy, host>>
  BY DEF LastWrite, world
<1>5. op = "begin" => ~legacy /\ \A u \in Tasks \ {t} : task[u].stage \notin Claiming
  BY <1>1 DEF WriterInv, CommandUndisturbed
<1>6. SingleWriter'
  BY <1>2, <1>3, <1>4, <1>5, OneTaskChanges DEF WriterInv
<1>7. CommandUndisturbed'
  BY <1>1, ExitUndisturbed DEF LastWrite
<1>8. QED
  BY <1>6, <1>7 DEF WriterInv

LEMMA ReadWriter ==
    ASSUME TypeInv, WriterInv, NEW c \in Clients, NEW t \in Tasks, NEW op \in Ops,
           NEW allowed, NEW guard, NEW step, NEW r,
           Read(c, t, op, allowed, guard, step, r),
           op \in {"begin", "verify"} => NoOtherWriter(t),
           op = "submit" => allowed = {"Implementing"},
           op \in {"align", "lens", "accept"} => allowed = {"AwaitingAcceptance"},
           op = "recover" => allowed = {"Checking"}
    PROVE  WriterInv'
<1> DEFINE new == [op |-> op, task |-> t, read |-> task[t], snap |-> source,
                   run |-> r, step |-> step]
<1>1. cmd' = [cmd EXCEPT ![c] = new] /\ UNCHANGED <<task, run, legacy, host>>
  BY DEF Read, world
<1>2. new.op = op /\ new.task = t /\ new.read = task[t]
  OBVIOUS
<1> HIDE DEF new
<1>3. LeaseFree /\ task[t].stage \in allowed
  BY DEF Read, Editable
<1>4. ~host /\ cmd'[c] = new /\ \A d \in Clients \ {c} : cmd'[d] = Idle
  BY <1>1, <1>3 DEF LeaseFree, TypeInv, TypeOK
<1>5. op \in {"begin", "verify"} =>
          ~legacy /\ \A u \in Tasks \ {t} : task[u].stage \notin Claiming
  BY DEF NoOtherWriter
<1>6. CommandUndisturbed'
  BY <1>1, <1>2, <1>3, <1>4, <1>5 DEF CommandUndisturbed
<1>7. SingleWriter'
  BY <1>1 DEF WriterInv, SingleWriter
<1>8. QED
  BY <1>6, <1>7 DEF WriterInv

-----------------------------------------------------------------------------
(* The actions.                                                            *)

LEMMA InitWriter == Init => WriterInv
<1> SUFFICES ASSUME Init PROVE WriterInv
  OBVIOUS
<1>1. \A t \in Tasks : task[t].stage = "Absent"
  BY DEF Init, NoTask
<1>2. SingleWriter
  BY <1>1 DEF SingleWriter, Writing, Claiming
<1>3. CommandUndisturbed
  BY DEF Init, CommandUndisturbed
<1>4. QED
  BY <1>2, <1>3 DEF WriterInv

\* An action that finds the lease free and starts no command.
LEMMA LeaseFreeUndisturbed ==
    ASSUME LeaseFree, UNCHANGED cmd
    PROVE  CommandUndisturbed'
BY DEF LeaseFree, CommandUndisturbed

LEMMA EditWriter ==
    ASSUME TypeInv, WriterInv, NEW c \in Clients, NEW t \in Tasks,
           \/ Create(c, t) \/ Document(c, t) \/ Status(c, t)
           \/ \E scopeChange \in BOOLEAN : Feedback(c, t, scopeChange)
    PROVE  WriterInv'
<1>1. task[t] \in TaskRecord
  BY DEF TypeInv, TypeOK
<1>2. "Discussing" \notin Writing /\ "Rework" \notin Writing
  BY DEF Writing, Claiming
<1>3. CASE Create(c, t)
  <2>1. [task[t] EXCEPT !.stage = "Discussing", !.reqDocs = t \in DocTasks].stage
            = "Discussing"
    BY <1>1, Zenon DEF TaskRecord
  <2>2. /\ task'[t] = [task[t] EXCEPT !.stage = "Discussing", !.reqDocs = t \in DocTasks]
        /\ \A u \in Tasks \ {t} : task'[u] = task[u]
    BY <1>3, Zenon DEF Create, TypeInv, TypeOK
  <2>3. legacy' = legacy
    BY <1>3 DEF Create, world
  <2>4. task'[t].stage = "Discussing" /\ \A u \in Tasks \ {t} : task'[u] = task[u]
    BY <2>1, <2>2, Zenon
  <2>5. SingleWriter'
    BY <1>2, <2>3, <2>4, OneTaskChanges DEF WriterInv
  <2>6. CommandUndisturbed'
    BY <1>3, LeaseFreeUndisturbed, Zenon DEF Create
  <2>7. QED
    BY <2>5, <2>6 DEF WriterInv
<1>4. CASE Document(c, t)
  <2> DEFINE k == Staged(task[t], "Discussing")
             d == [k EXCEPT !.docs = @ + 1, !.reqDocs = TRUE, !.align = None,
                            !.lens = None]
  <2>1. k \in TaskRecord /\ k.stage = "Discussing"
    BY <1>1, StagedType, StagedStage DEF Stages
  <2> HIDE DEF k
  <2>2. k.docs + 1 \in Nat /\ TRUE \in BOOLEAN
    BY <2>1 DEF TaskRecord
  <2>3. d \in TaskRecord
    BY <2>1, <2>2, DocumentedType
  <2>4. d.stage = "Discussing"
    BY <2>1 DEF TaskRecord
  <2>5. Save(t, d)
    BY <1>4 DEF Document, k
  <2> HIDE DEF d
  <2>6. task'[t].stage = "Discussing" /\ \A u \in Tasks \ {t} : task'[u] = task[u]
    BY <2>3, <2>4, <2>5, SaveEffect DEF TypeInv
  <2>7. SingleWriter'
    BY <1>2, <1>4, <2>6, OneTaskChanges DEF Document, WriterInv
  <2>8. QED
    BY <1>4, <2>7, LeaseFreeUndisturbed DEF Document, Editable, WriterInv
<1>5. CASE Status(c, t)
  BY <1>5 DEF Status, world, WriterInv, SingleWriter, CommandUndisturbed
<1>6. ASSUME NEW scopeChange \in BOOLEAN, Feedback(c, t, scopeChange)
      PROVE  WriterInv'
  <2> DEFINE stage == IF scopeChange THEN "Discussing" ELSE "Rework"
             k == Staged(Unproven(task[t]), stage)
  <2>1. stage \in Stages /\ stage \notin Writing
    BY <1>2 DEF Stages
  <2>2. k \in TaskRecord /\ k.stage = stage
    BY <1>1, <2>1, UnprovenType, StagedType, StagedStage
  <2>3. Save(t, k)
    BY <1>6 DEF Feedback
  <2> HIDE DEF stage, k
  <2>4. task'[t].stage = stage /\ \A u \in Tasks \ {t} : task'[u] = task[u]
    BY <2>2, <2>3, SaveEffect DEF TypeInv
  <2>5. SingleWriter'
    BY <1>6, <2>1, <2>4, OneTaskChanges DEF Feedback, world, WriterInv
  <2>6. QED
    BY <1>6, <2>5, LeaseFreeUndisturbed DEF Feedback, Editable, WriterInv
<1>7. QED
  BY <1>3, <1>4, <1>5, <1>6

LEMMA ReadsWriter ==
    ASSUME TypeInv, WriterInv, NEW c \in Clients, NEW t \in Tasks,
           \/ ReadAgree(c, t) \/ ReadBegin(c, t) \/ ReadSubmit(c, t)
           \/ \E r \in RunIds : ReadVerify(c, t, r)
           \/ ReadAlign(c, t) \/ ReadLens(c, t) \/ ReadAccept(c, t)
           \/ ReadRecover(c, t)
    PROVE  WriterInv'
<1>1. {"agree", "begin", "submit", "verify", "align", "lens", "accept", "recover"}
          \subseteq Ops
  BY DEF Ops
<1>2. CASE ReadAgree(c, t)
  BY <1>1, <1>2, ReadWriter DEF ReadAgree
<1>3. CASE ReadBegin(c, t)
  <2>1. NoOtherWriter(t)
    BY <1>3 DEF ReadBegin, Read, CanBegin
  <2>2. QED
    BY <1>1, <1>3, <2>1, ReadWriter DEF ReadBegin
<1>4. CASE ReadSubmit(c, t)
  BY <1>1, <1>4, ReadWriter DEF ReadSubmit
<1>5. ASSUME NEW r \in RunIds, ReadVerify(c, t, r)
      PROVE  WriterInv'
  <2>1. NoOtherWriter(t)
    BY <1>5 DEF ReadVerify, Read, CanVerify
  <2>2. QED
    BY <1>1, <1>5, <2>1, ReadWriter DEF ReadVerify
<1>6. CASE ReadAlign(c, t)
  BY <1>1, <1>6, ReadWriter DEF ReadAlign
<1>7. CASE ReadLens(c, t)
  BY <1>1, <1>7, ReadWriter DEF ReadLens
<1>8. CASE ReadAccept(c, t)
  BY <1>1, <1>8, ReadWriter DEF ReadAccept
<1>9. CASE ReadRecover(c, t)
  BY <1>1, <1>9, ReadWriter DEF ReadRecover
<1>10. QED
  BY <1>2, <1>3, <1>4, <1>5, <1>6, <1>7, <1>8, <1>9

LEMMA SavesWriter ==
    ASSUME TypeInv, WriterInv, NEW c \in Clients,
           \/ Agree(c) \/ Submit(c) \/ Align(c) \/ RecordLens(c)
           \/ \E approval \in BOOLEAN : Begin(c, approval)
           \/ Accept(c) \/ Recover(c)
    PROVE  WriterInv'
<1> DEFINE old == cmd[c].read
           t == cmd[c].task
<1>1. cmd[c] # Idle
  BY IdleOp DEF Agree, Submit, Align, RecordLens, Begin, Accept, Recover,
                LastWrite, TaskStep, At, Ops
<1>2. /\ old \in TaskRecord /\ cmd[c].snap \in Snapshots
      /\ [run |-> old.run, stamp |-> cmd[c].snap] \in Evidence
      /\ [run |-> cmd[c].run, stamp |-> old.submitted] \in Evidence
  BY <1>1, CommandType DEF TypeInv, TaskRecord, Evidence
<1>3. /\ {"agree", "begin", "submit", "align", "lens", "accept", "recover"} \subseteq Ops
      /\ {"Ready", "Implementing", "Submitted", "AwaitingAcceptance", "Done", "Blocked"}
             \subseteq Stages
      /\ {"Implementing", "AwaitingAcceptance", "Checking"} \subseteq Writing
      /\ "Ready" \notin Writing /\ "Done" \notin Writing
      /\ ~Protected("accept", "approve")
  BY DEF Ops, Stages, Writing, Claiming, Protected
<1>4. ASSUME NEW op, At(c, op, "save"),
             op \in {"submit", "align", "lens", "accept", "recover"}
      PROVE  task[t].stage \in Writing /\ task[t] = old
  <2>1. Protected(op, "save")
    BY <1>4 DEF Protected
  <2>2. QED
    BY <1>1, <1>3, <1>4, <2>1 DEF At, WriterInv, CommandUndisturbed
<1>5. CASE Agree(c)
  BY <1>2, <1>3, <1>5, AgreedRecord, LastWriteWriter DEF Agree, TypeInv
<1>6. CASE Submit(c)
  BY <1>2, <1>3, <1>4, <1>6, SubmittedRecord, LastWriteWriter DEF Submit, LastWrite
<1>7. CASE Align(c)
  BY <1>2, <1>3, <1>4, <1>7, AlignedRecord, LastWriteWriter DEF Align, LastWrite
<1>8. CASE RecordLens(c)
  BY <1>2, <1>3, <1>4, <1>8, AlignedRecord, LastWriteWriter DEF RecordLens, LastWrite
<1>9. ASSUME NEW approval \in BOOLEAN, Begin(c, approval)
      PROVE  WriterInv'
  <2>1. old.agr # None
    BY <1>9 DEF Begin, LastWrite, At, TypeInv, AgreementRead
  <2>2. QED
    BY <1>2, <1>3, <1>9, <2>1, BegunRecord, LastWriteWriter DEF Begin
<1>10. CASE Accept(c)
  <2>1. Staged(old, "Done") \in TaskRecord /\ Staged(old, "Done").stage = "Done"
    BY <1>2, <1>3, StagedType, StagedStage
  <2>2. QED
    BY <1>3, <1>10, <2>1, TaskStepWriter DEF Accept
<1>11. CASE Recover(c)
  <2>1. Staged(old, "Blocked") \in TaskRecord
    BY <1>2, <1>3, StagedType
  <2>2. task[t].stage \in Writing
    BY <1>4, <1>11 DEF Recover, LastWrite
  <2>3. QED
    BY <1>3, <1>11, <2>1, <2>2, LastWriteWriter DEF Recover
<1>12. QED
  BY <1>5, <1>6, <1>7, <1>8, <1>9, <1>10, <1>11

LEMMA RunRowsWriter ==
    ASSUME TypeInv, WriterInv, NEW c \in Clients,
           \/ VerifyTicket(c) \/ VerifyCheckpoint(c) \/ RunCreated(c) \/ RunStarted(c)
           \/ \E outcome \in {"Failed", "ReworkRequired", "Cancelled"} : RunEnds(c, outcome)
           \/ VerifyFinish(c) \/ VerifyThrows(c)
           \/ RecoverRun(c) \/ RecoverTicket(c)
    PROVE  WriterInv'
<1>1. "verify" \in Ops /\ "recover" \in Ops
  BY DEF Ops
<1>2. /\ \A to \in {"created", "running", "settle", "audit", "caught"} :
             ~Protected("verify", to)
      /\ \A step \in {"ticket", "checkpoint"} : Protected("verify", step)
      /\ \A step \in {"recover", "ticket"} : Protected("recover", step)
  BY DEF Protected
<1>3. CASE VerifyTicket(c) \/ VerifyCheckpoint(c)
  BY <1>1, <1>2, <1>3, RunStepWriter DEF VerifyTicket, VerifyCheckpoint
<1>4. CASE RunCreated(c) \/ RunStarted(c)
  BY <1>1, <1>2, <1>4, RunStepWriter DEF RunCreated, RunStarted
<1>5. ASSUME NEW outcome, RunEnds(c, outcome)
      PROVE  WriterInv'
  BY <1>1, <1>2, <1>5, RunStepWriter DEF RunEnds
<1>6. CASE VerifyFinish(c) \/ VerifyThrows(c)
  BY <1>1, <1>2, <1>6, RunStepWriter DEF VerifyFinish, VerifyThrows
<1>7. CASE RecoverRun(c) \/ RecoverTicket(c)
  BY <1>1, <1>2, <1>7, RunStepWriter DEF RecoverRun, RecoverTicket
<1>8. QED
  BY <1>3, <1>4, <1>5, <1>6, <1>7

LEMMA VerdictsWriter ==
    ASSUME TypeInv, WriterInv, NEW c \in Clients,
           \/ VerifyChecking(c) \/ RunCompletes(c) \/ CompletionEventFails(c)
           \/ VerifyResult(c) \/ VerifyCaught(c)
           \/ SaveApproval(c) \/ VerifyAudit(c) \/ VerifyAbandon(c)
    PROVE  WriterInv'
<1> DEFINE t == cmd[c].task
<1>1. cmd[c] # Idle
  BY IdleOp DEF VerifyChecking, RunCompletes, CompletionEventFails, VerifyResult,
     VerifyCaught, SaveApproval, VerifyAudit, VerifyAbandon, TaskStep, At, Ops
<1>2. /\ t \in Tasks /\ task[t] \in TaskRecord /\ cmd[c].read \in TaskRecord
      /\ cmd[c].run \in RunIds \cup {None}
  BY <1>1, CommandType DEF TypeInv, TypeOK
<1>3. /\ "verify" \in Ops /\ "Blocked" \in Stages
      /\ \A to \in {"start", "settle", "finish", "abandon"} : ~Protected("verify", to)
  BY DEF Ops, Stages, Protected
<1>4. CASE VerifyChecking(c)
  BY <1>2, <1>3, <1>4, CheckingRecord, TaskStepWriter DEF VerifyChecking
<1>5. CASE RunCompletes(c)
  <2>1. /\ \A u \in Tasks : task'[u].stage = task[u].stage
        /\ UNCHANGED <<legacy, host>>
    BY <1>2, <1>5 DEF RunCompletes, world, TypeInv, TypeOK, TaskRecord
  <2>2. SingleWriter'
    BY <2>1 DEF WriterInv, SingleWriter
  <2>3. /\ cmd'[c].step = "settle" /\ cmd'[c].op = cmd[c].op
        /\ cmd'[c].task = t /\ cmd'[c].read = cmd[c].read
        /\ \A d \in Clients \ {c} : cmd'[d] = Idle
    BY <1>1, <1>5, GotoEffect DEF RunCompletes
  <2>4. cmd[c].op = "verify"
    BY <1>5 DEF RunCompletes, At
  <2>5. CommandUndisturbed'
    BY <1>1, <1>3, <2>1, <2>3, <2>4 DEF WriterInv, CommandUndisturbed
  <2>6. QED
    BY <2>2, <2>5 DEF WriterInv
<1>6. CASE CompletionEventFails(c)
  BY <1>6 DEF CompletionEventFails, world, WriterInv, SingleWriter, CommandUndisturbed
<1>7. CASE VerifyResult(c)
  <2> DEFINE r == IF Row(c).state = "Completed" /\ task[t].reqDocs
                  THEN cmd[c].run ELSE None
  <2>1. r \in RunIds \cup {None}
    BY <1>2
  <2>2. TaskStep(c, "verify", "settle", "finish",
                 [Staged(task[t], Verdict(Row(c).state)) EXCEPT !.captured = r])
    BY <1>7 DEF VerifyResult
  <2> HIDE DEF r
  <2>3. QED
    BY <1>2, <1>3, <2>1, <2>2, JudgedRecord, TaskStepWriter
<1>8. CASE VerifyCaught(c)
  BY <1>2, <1>3, <1>8, StagedType, TaskStepWriter DEF VerifyCaught
<1>9. CASE SaveApproval(c) \/ VerifyAudit(c) \/ VerifyAbandon(c)
  <2>1. Exit(c) /\ UNCHANGED <<task, legacy, host>>
    BY <1>9 DEF SaveApproval, VerifyAudit, VerifyAbandon, world
  <2>2. QED
    BY <1>1, <2>1, ExitUndisturbed DEF WriterInv, SingleWriter
<1>10. QED
  BY <1>4, <1>5, <1>6, <1>7, <1>8, <1>9

LEMMA OutsideWriter ==
    ASSUME TypeInv, WriterInv,
           \/ \E c \in Clients : Crash(c)
           \/ \E p \in Profiles : SaveProject(p)
           \/ HostStep \/ Environment
    PROVE  WriterInv'
<1>1. ASSUME NEW c \in Clients, Crash(c)
      PROVE  WriterInv'
  <2>1. cmd[c] # Idle /\ Exit(c) /\ UNCHANGED <<task, legacy, host>>
    BY <1>1 DEF Crash, world
  <2>2. QED
    BY <2>1, ExitUndisturbed DEF WriterInv, SingleWriter
<1>2. ASSUME NEW p \in Profiles, SaveProject(p)
      PROVE  WriterInv'
  BY <1>2 DEF SaveProject, WriterInv, SingleWriter, CommandUndisturbed
<1>3. CASE HostStart
  <2>1. SingleWriter'
    BY <1>3 DEF HostStart, WriterInv, SingleWriter
  <2>2. CommandUndisturbed'
    BY <1>3 DEF HostStart, LeaseFree, CommandUndisturbed
  <2>3. QED
    BY <2>1, <2>2 DEF WriterInv
<1>4. CASE HostStop \/ LegacyRunEnds
  BY <1>4 DEF HostStop, LegacyRunEnds, WriterInv, SingleWriter, CommandUndisturbed
<1>5. CASE LegacyRunStarts
  <2>1. UNCHANGED <<task, cmd, host>> /\ host
        /\ \A t \in Tasks : task[t].stage \notin Writing
    BY <1>5 DEF LegacyRunStarts, ProjectBusy, Writing
  <2>2. SingleWriter'
    BY <2>1 DEF SingleWriter
  <2>3. CommandUndisturbed'
    BY <2>1 DEF WriterInv, CommandUndisturbed
  <2>4. QED
    BY <2>2, <2>3 DEF WriterInv
<1>6. ASSUME NEW p \in Profiles, HostSaveProject(p)
      PROVE  WriterInv'
  BY <1>6 DEF HostSaveProject, WriterInv, SingleWriter, CommandUndisturbed
<1>7. CASE Environment
  BY <1>7 DEF Environment, EditSource, EditDocument, WriterInv, SingleWriter,
              CommandUndisturbed
<1>8. QED
  BY <1>1, <1>2, <1>3, <1>4, <1>5, <1>6, <1>7 DEF HostStep

LEMMA WriterStep == TypeInv /\ WriterInv /\ [Next]_vars => WriterInv'
<1> SUFFICES ASSUME TypeInv, WriterInv, [Next]_vars PROVE WriterInv'
  OBVIOUS
<1>1. ASSUME NEW c \in Clients, ClientStep(c)
      PROVE  WriterInv'
  BY <1>1, EditWriter, ReadsWriter DEF ClientStep
<1>2. ASSUME NEW c \in Clients, CommandStep(c)
      PROVE  WriterInv'
  BY <1>2, SavesWriter, RunRowsWriter, VerdictsWriter DEF CommandStep
<1>3. CASE UNCHANGED vars
  BY <1>3 DEF vars, WriterInv, SingleWriter, CommandUndisturbed
<1>4. QED
  BY <1>1, <1>2, <1>3, OutsideWriter DEF Next

LEMMA WriterInvariant == Spec => []WriterInv
<1>1. Spec => []TypeInv
  BY InitType, TypeStep, PTL DEF Spec
<1>2. QED
  BY <1>1, InitWriter, WriterStep, PTL DEF Spec

\* Whatever the commands, crashes, edits and hosts do, at most one task of the
\* project is being implemented, verified or accepted, and never beside an
\* active legacy run.
THEOREM OneWriterPerProject == Spec => []SingleWriter
<1>1. WriterInv => SingleWriter
  BY DEF WriterInv
<1>2. QED
  BY <1>1, WriterInvariant, PTL

\* A running command writes back the record it read, in the stage its guard
\* asked for, with the project still to itself.
THEOREM CommandsAreUndisturbed == Spec => []CommandUndisturbed
<1>1. WriterInv => CommandUndisturbed
  BY DEF WriterInv
<1>2. QED
  BY <1>1, WriterInvariant, PTL

(***************************************************************************)
(* What a task record says: the agreement it was opened for still holds,   *)
(* an Owner approval is one for that agreement, and the evidence kept on   *)
(* it is evidence of the run and the source that now await acceptance.     *)
(***************************************************************************)
\* Steps of Verify before its first task write, and those up to its verdict.
Early   == {"ticket", "checkpoint", "checking"}
Driving == {"start", "created", "running", "settle"}

\* The parts of NoStaleEvidence, AgreementHolds and CriticalApproved that
\* speak of one record, and what makes them inductive: an unfinished task has
\* no Done lifecycle (SaveProject goes by the lifecycle), and an approval that
\* was recorded is one for the agreement in force, whatever the stage.
RecordSound(t, k, p) ==
    /\ k.life = "Done" => k.stage = "Done"
    /\ k.stage \notin {"Absent", "Discussing"} =>
           k.agr # None /\ (k.reqDocs => k.docs = k.agr.docs /\ k.docs # 0)
    /\ k.stage \in Writing => k.agr.profile = p
    /\ k.submitted # None =>
           /\ k.agr # None
           /\ k.submitted.ref = k.agr.base.ref
           /\ k.submitted.outside = k.agr.base.outside
    /\ \A e \in {k.align, k.lens} :
           e # None => /\ k.stage \in {"AwaitingAcceptance", "Done"}
                       /\ e = [run |-> k.run, stamp |-> k.submitted]
    /\ k.risk # 0 => k.agr # None /\ k.risk = k.agr.ver
    /\ t \in CriticalTasks /\ k.stage \in Writing \cup {"Done"} => k.risk = k.agr.ver

\* What the guards of a command found in the record it read and the snapshot
\* it took; both are in the process's memory until it writes.
Undertaken(m, p) ==
    LET k == m.read IN
    /\ RecordSound(m.task, k, p)
    /\ m.op \in {"lens", "accept", "recover"} => m.run = k.run
    /\ m.op = "agree" => k.stage = "Discussing" /\ (k.reqDocs => k.docs # 0)
    /\ m.op = "begin" =>
           k.stage \in {"Ready", "Rework", "Blocked"} /\ k.agr.profile = p
    /\ m.op = "submit" =>
           /\ k.stage = "Implementing"
           /\ m.snap.ref = k.agr.base.ref /\ m.snap.outside = k.agr.base.outside
    /\ m.op \in {"align", "lens", "accept"} => k.stage = "AwaitingAcceptance"
    /\ m.op = "align" => m.snap = k.submitted
    /\ m.op = "accept" /\ k.reqDocs => k.align = [run |-> k.run, stamp |-> k.submitted]
    /\ m.op = "verify" =>
           k.stage \in {"Submitted", "Blocked"} /\ m.snap = k.submitted /\ m.run \in RunIds
    /\ m.op = "recover" => k.stage = "Checking"

\* Verify writes its record at "checking" and reads the stored one again for
\* its verdict: in between it is still the record of this verification.
Verified(m, k) ==
    /\ k.agr = m.read.agr /\ k.risk = m.read.risk /\ k.submitted = m.snap
    /\ k.docs = m.read.docs /\ k.reqDocs = m.read.reqDocs
    /\ k.run = m.run /\ k.align = None /\ k.lens = None
    /\ k.stage \in {"Checking", "AwaitingAcceptance", "Rework", "Blocked"}

Carried(m, k) ==
    m.op = "verify" /\ m.step \notin Early =>
        Verified(m, k) /\ (m.step \in Driving => k.stage = "Checking")

RecordInv ==
    /\ \A t \in Tasks : RecordSound(t, task[t], profile)
    /\ \A c \in Clients : cmd[c] # Idle =>
           Undertaken(cmd[c], profile) /\ Carried(cmd[c], task[cmd[c].task])

-----------------------------------------------------------------------------
(* Records.                                                                *)

\* Two records that differ in their revision at most.
SameButRev(a, b) ==
    /\ a.stage = b.stage /\ a.life = b.life /\ a.agr = b.agr /\ a.risk = b.risk
    /\ a.submitted = b.submitted /\ a.run = b.run /\ a.align = b.align
    /\ a.lens = b.lens /\ a.docs = b.docs /\ a.reqDocs = b.reqDocs
    /\ a.captured = b.captured

\* Two records that say the same of the work, in whatever stage.
SameWork(a, b) ==
    /\ a.agr = b.agr /\ a.risk = b.risk /\ a.submitted = b.submitted /\ a.run = b.run
    /\ a.docs = b.docs /\ a.reqDocs = b.reqDocs /\ a.captured = b.captured

LEMMA SoundByFields ==
    ASSUME NEW t, NEW a, NEW b, NEW p, SameButRev(a, b), RecordSound(t, b, p)
    PROVE  RecordSound(t, a, p)
BY DEF SameButRev, RecordSound

LEMMA SavedFields ==
    ASSUME TypeOK, NEW t \in Tasks, NEW k \in TaskRecord, Save(t, k)
    PROVE  /\ SameButRev(task'[t], k)
           /\ \A u \in Tasks \ {t} : task'[u] = task[u]
<1>1. SameButRev([k EXCEPT !.rev = @ + 1], k)
  BY DEF TaskRecord, SameButRev
<1>2. /\ task'[t] = [k EXCEPT !.rev = @ + 1]
      /\ \A u \in Tasks \ {t} : task'[u] = task[u]
  BY DEF Save, TypeOK
<1>3. QED
  BY <1>1, <1>2

LEMMA StagedFields ==
    ASSUME NEW k \in TaskRecord, NEW stage \in Stages
    PROVE  LET s == Staged(k, stage) IN
           /\ s \in TaskRecord /\ s.stage = stage
           /\ s.life = "Done" => stage = "Done"
           /\ SameWork(s, k) /\ s.align = k.align /\ s.lens = k.lens
<1> DEFINE s == Staged(k, stage)
           life == IF stage \in Lives THEN stage ELSE "Active"
<1>1. s = [k EXCEPT !.stage = stage, !.life = life]
  BY DEF Staged
<1>2. life = "Done" => stage = "Done"
  OBVIOUS
<1> HIDE DEF life, s
<1>3. /\ s.stage = stage /\ s.life = life
      /\ SameWork(s, k) /\ s.align = k.align /\ s.lens = k.lens
  BY <1>1 DEF TaskRecord, SameWork
<1>4. s \in TaskRecord
  BY StagedType DEF s
<1>5. QED
  BY <1>2, <1>3, <1>4 DEF s

LEMMA UnprovenFields ==
    ASSUME NEW k \in TaskRecord
    PROVE  LET s == Unproven(k) IN
           /\ s \in TaskRecord
           /\ s.stage = k.stage /\ s.life = k.life /\ s.agr = k.agr /\ s.risk = k.risk
           /\ s.docs = k.docs /\ s.reqDocs = k.reqDocs /\ s.run = k.run
           /\ s.captured = k.captured
           /\ s.submitted = None /\ s.align = None /\ s.lens = None
BY UnprovenType DEF Unproven, TaskRecord
-----------------------------------------------------------------------------
(* The shapes of a command's steps.                                        *)

LEMMA Loaded ==
    ASSUME TypeInv, WriterInv, RecordInv, NEW c \in Clients, cmd[c] # Idle
    PROVE  /\ cmd[c].task \in Tasks /\ task[cmd[c].task] \in TaskRecord
           /\ cmd[c].read \in TaskRecord /\ cmd[c].snap \in Snapshots
           /\ cmd[c].run \in RunIds \cup {None}
           /\ Undertaken(cmd[c], profile) /\ Carried(cmd[c], task[cmd[c].task])
           /\ RecordSound(cmd[c].task, task[cmd[c].task], profile)
           /\ RecordSound(cmd[c].task, cmd[c].read, profile)
           /\ Protected(cmd[c].op, cmd[c].step) => task[cmd[c].task] = cmd[c].read
<1>1. cmd[c].task \in Tasks /\ task[cmd[c].task] \in TaskRecord
  BY CommandType DEF TypeInv, TypeOK
<1>2. Undertaken(cmd[c], profile) /\ Carried(cmd[c], task[cmd[c].task])
  BY DEF RecordInv
<1>3. QED
  BY <1>1, <1>2, CommandType DEF TypeInv, RecordInv, Undertaken, WriterInv, CommandUndisturbed

LEMMA NobodyLeft ==
    ASSUME TypeInv, WriterInv, NEW c \in Clients, cmd[c] # Idle, Exit(c)
    PROVE  \A d \in Clients : cmd'[d] = Idle
BY OthersIdle DEF Exit, TypeInv, TypeOK

LEMMA GotoFields ==
    ASSUME TypeInv, NEW c \in Clients, cmd[c] # Idle, NEW to, Goto(c, to)
    PROVE  /\ cmd'[c].step = to /\ cmd'[c].op = cmd[c].op /\ cmd'[c].task = cmd[c].task
           /\ cmd'[c].read = cmd[c].read /\ cmd'[c].snap = cmd[c].snap
           /\ cmd'[c].run = cmd[c].run
<1>1. cmd[c] \in Command /\ cmd \in [Clients -> Command \cup {Idle}]
  BY CommandType DEF TypeInv, TypeOK
<1>2. cmd' = [cmd EXCEPT ![c] = [cmd[c] EXCEPT !.step = to]]
  BY DEF Goto
<1>3. cmd'[c] = [cmd[c] EXCEPT !.step = to]
  BY <1>1, <1>2
<1>4. QED
  BY <1>1, <1>3 DEF Command

\* One record is rewritten soundly.
LEMMA OneRecord ==
    ASSUME RecordInv, TypeOK, NEW t \in Tasks, NEW k \in TaskRecord, Save(t, k),
           RecordSound(t, k, profile), profile' = profile
    PROVE  \A u \in Tasks : RecordSound(u, task'[u], profile')
<1>1. SameButRev(task'[t], k) /\ \A u \in Tasks \ {t} : task'[u] = task[u]
  BY SavedFields
<1>2. RecordSound(t, task'[t], profile)
  BY <1>1, SoundByFields
<1>3. QED
  BY <1>1, <1>2 DEF RecordInv

LEMMA StillUndertaken ==
    ASSUME NEW m, NEW n, NEW p, Undertaken(m, p), n.op = m.op, n.task = m.task,
           n.read = m.read, n.snap = m.snap, n.run = m.run
    PROVE  Undertaken(n, p)
BY DEF Undertaken

LEMMA StillVerified ==
    ASSUME NEW m, NEW n, NEW k, NEW j, Verified(m, k), SameButRev(j, k),
           n.read = m.read, n.snap = m.snap, n.run = m.run
    PROVE  Verified(n, j)
BY DEF Verified, SameButRev

LEMMA RunStepRecords ==
    ASSUME TypeInv, WriterInv, RecordInv, NEW c \in Clients, NEW op \in Ops, NEW from,
           NEW to, NEW row, RunStep(c, op, from, to, row),
           op = "verify" /\ to \notin Early => from \notin Early,
           op = "verify" /\ to \in Driving => from \in Driving
    PROVE  RecordInv'
<1>1. cmd[c] # Idle /\ cmd[c].op = op /\ cmd[c].step = from
  BY IdleOp DEF RunStep, At
<1>2. task' = task /\ profile' = profile /\ Goto(c, to)
  BY DEF RunStep, world
<1>3. \A d \in Clients \ {c} : cmd'[d] = Idle
  BY <1>1, <1>2, GotoEffect
<1>4. Undertaken(cmd'[c], profile)
  BY <1>1, <1>2, Loaded, GotoFields, StillUndertaken
<1>5. Carried(cmd'[c], task[cmd[c].task]) /\ cmd'[c].task = cmd[c].task
  BY <1>1, <1>2, Loaded, GotoFields DEF Carried, Verified
<1>6. QED
  BY <1>2, <1>3, <1>4, <1>5 DEF RecordInv

LEMMA TaskStepRecords ==
    ASSUME TypeInv, WriterInv, RecordInv, NEW c \in Clients, NEW op \in Ops, NEW from,
           NEW to, NEW k \in TaskRecord, TaskStep(c, op, from, to, k),
           RecordSound(cmd[c].task, k, profile),
           op = "verify" => Verified(cmd[c], k) /\ (to \in Driving => k.stage = "Checking")
    PROVE  RecordInv'
<1> DEFINE t == cmd[c].task
<1>1. cmd[c] # Idle /\ cmd[c].op = op
  BY IdleOp DEF TaskStep, At
<1>2. Save(t, k) /\ profile' = profile /\ Goto(c, to) /\ t \in Tasks
  BY <1>1, Loaded DEF TaskStep, world
<1>3. \A d \in Clients \ {c} : cmd'[d] = Idle
  BY <1>1, <1>2, GotoEffect
<1>4. Undertaken(cmd'[c], profile)
  BY <1>1, <1>2, Loaded, GotoFields, StillUndertaken
<1>5. SameButRev(task'[t], k)
  BY <1>2, SavedFields DEF TypeInv
<1>6. /\ cmd'[c].read = cmd[c].read /\ cmd'[c].snap = cmd[c].snap /\ cmd'[c].run = cmd[c].run
      /\ cmd'[c].task = t /\ cmd'[c].op = op /\ cmd'[c].step = to
  BY <1>1, <1>2, GotoFields
<1>7. Carried(cmd'[c], task'[t])
  BY <1>5, <1>6, StillVerified DEF Carried, SameButRev
<1>8. \A u \in Tasks : RecordSound(u, task'[u], profile')
  BY <1>2, OneRecord DEF TypeInv
<1>9. QED
  BY <1>2, <1>3, <1>4, <1>6, <1>7, <1>8 DEF RecordInv

LEMMA LastWriteRecords ==
    ASSUME TypeInv, WriterInv, RecordInv, NEW c \in Clients, NEW op \in Ops,
           NEW k \in TaskRecord, LastWrite(c, op, k), RecordSound(cmd[c].task, k, profile)
    PROVE  RecordInv'
<1>1. cmd[c] # Idle
  BY IdleOp DEF LastWrite, At
<1>2. Save(cmd[c].task, k) /\ profile' = profile /\ Exit(c) /\ cmd[c].task \in Tasks
  BY <1>1, Loaded DEF LastWrite, world
<1>3. \A u \in Tasks : RecordSound(u, task'[u], profile')
  BY <1>2, OneRecord DEF TypeInv
<1>4. QED
  BY <1>1, <1>2, <1>3, NobodyLeft DEF RecordInv

\* A command starts: its guards are what it undertakes.
LEMMA ReadRecords ==
    ASSUME TypeInv, RecordInv, NEW c \in Clients, NEW new, LeaseFree,
           cmd' = [cmd EXCEPT ![c] = new], task' = task, profile' = profile,
           new.op = "verify" => new.step = "ticket", Undertaken(new, profile)
    PROVE  RecordInv'
<1>1. Carried(new, task[new.task])
  BY DEF Carried, Early
<1>2. cmd'[c] = new /\ \A d \in Clients \ {c} : cmd'[d] = Idle
  BY DEF LeaseFree, TypeInv, TypeOK
<1>3. QED
  BY <1>1, <1>2 DEF RecordInv

-----------------------------------------------------------------------------
(* The actions.                                                            *)

LEMMA InitRecords == Init => RecordInv
<1> SUFFICES ASSUME Init PROVE RecordInv
  OBVIOUS
<1>1. \A t \in Tasks : RecordSound(t, NoTask, profile)
  BY DEF NoTask, RecordSound, Writing, Claiming
<1>2. QED
  BY <1>1 DEF Init, RecordInv

\* An action that finds the lease free and starts no command.
LEMMA FreeRecords ==
    ASSUME LeaseFree, UNCHANGED cmd,
           \A u \in Tasks : RecordSound(u, task'[u], profile')
    PROVE  RecordInv'
BY DEF LeaseFree, RecordInv

LEMMA EditRecords ==
    ASSUME TypeInv, WriterInv, RecordInv, NEW c \in Clients, NEW t \in Tasks,
           \/ Create(c, t) \/ Document(c, t) \/ Status(c, t)
           \/ \E scopeChange \in BOOLEAN : Feedback(c, t, scopeChange)
    PROVE  RecordInv'
<1>1. task[t] \in TaskRecord /\ TypeOK /\ RecordSound(t, task[t], profile)
  BY DEF TypeInv, TypeOK, RecordInv
<1>2. CASE Create(c, t)
  <2> DEFINE b == t \in DocTasks
             k == [task[t] EXCEPT !.stage = "Discussing", !.reqDocs = b]
  <2>1. /\ task' = [task EXCEPT ![t] = k] /\ task[t].stage = "Absent"
        /\ LeaseFree /\ UNCHANGED <<cmd, profile>>
    BY <1>2 DEF Create, world
  <2> HIDE DEF b
  <2>2. /\ k.stage = "Discussing" /\ k.life = task[t].life /\ k.agr = task[t].agr
        /\ k.submitted = task[t].submitted /\ k.risk = task[t].risk
        /\ k.align = task[t].align /\ k.lens = task[t].lens
    BY <1>1 DEF TaskRecord
  <2> HIDE DEF k
  <2>3. RecordSound(t, k, profile)
    BY <1>1, <2>1, <2>2 DEF RecordSound, Writing, Claiming
  <2>4. \A u \in Tasks : RecordSound(u, task'[u], profile')
    BY <2>1, <2>3 DEF TypeInv, TypeOK, RecordInv
  <2>5. QED
    BY <2>1, <2>4, FreeRecords
<1>3. CASE Document(c, t)
  <2> DEFINE k == Staged(task[t], "Discussing")
             d == [k EXCEPT !.docs = @ + 1, !.reqDocs = TRUE, !.align = None,
                            !.lens = None]
  <2>1. /\ k \in TaskRecord /\ k.stage = "Discussing" /\ k.life # "Done"
        /\ SameWork(k, task[t])
    BY <1>1, StagedFields DEF Stages
  <2>2. Save(t, d) /\ LeaseFree /\ UNCHANGED <<cmd, profile>> /\ task[t].stage = "Discussing"
    BY <1>3 DEF Document, Editable
  <2> HIDE DEF k
  <2>3. k.docs + 1 \in Nat /\ TRUE \in BOOLEAN
    BY <2>1 DEF TaskRecord
  <2>4. d \in TaskRecord
    BY <2>1, <2>3, DocumentedType
  <2>5. /\ d.stage = "Discussing" /\ d.life # "Done" /\ d.agr = task[t].agr
        /\ d.submitted = task[t].submitted /\ d.risk = task[t].risk
        /\ d.align = None /\ d.lens = None
    BY <2>1 DEF TaskRecord, SameWork
  <2> HIDE DEF d
  <2>6. RecordSound(t, d, profile)
    BY <1>1, <2>5 DEF RecordSound, Writing, Claiming
  <2>7. QED
    BY <1>1, <2>2, <2>4, <2>6, OneRecord, FreeRecords
<1>4. CASE Status(c, t)
  BY <1>4 DEF Status, world, RecordInv
<1>5. ASSUME NEW scopeChange \in BOOLEAN, Feedback(c, t, scopeChange)
      PROVE  RecordInv'
  <2> DEFINE stage == IF scopeChange THEN "Discussing" ELSE "Rework"
             u == Unproven(task[t])
             k == Staged(u, stage)
  <2>1. /\ stage \in {"Discussing", "Rework"} /\ stage \in Stages
        /\ u \in TaskRecord
    BY <1>1, UnprovenFields DEF Stages
  <2>2. /\ Save(t, k) /\ LeaseFree /\ UNCHANGED <<cmd, profile>>
        /\ task[t].stage \notin {"Absent", "Discussing"}
    BY <1>5 DEF Feedback, Editable, world
  <2>3. /\ u.agr = task[t].agr /\ u.risk = task[t].risk /\ u.docs = task[t].docs
        /\ u.reqDocs = task[t].reqDocs
        /\ u.submitted = None /\ u.align = None /\ u.lens = None
    BY <1>1, UnprovenFields
  <2> HIDE DEF u, stage
  <2>4. /\ k \in TaskRecord /\ k.stage = stage /\ (k.life = "Done" => stage = "Done")
        /\ SameWork(k, u) /\ k.align = u.align /\ k.lens = u.lens
    BY <2>1, StagedFields
  <2> HIDE DEF k
  <2>5. RecordSound(t, k, profile)
    BY <1>1, <2>1, <2>2, <2>3, <2>4 DEF RecordSound, Writing, Claiming, SameWork
  <2>6. QED
    BY <1>1, <2>2, <2>4, <2>5, OneRecord, FreeRecords
<1>6. QED
  BY <1>2, <1>3, <1>4, <1>5

LEMMA ReadsRecords ==
    ASSUME TypeInv, WriterInv, RecordInv, NEW c \in Clients, NEW t \in Tasks,
           \/ ReadAgree(c, t) \/ ReadBegin(c, t) \/ ReadSubmit(c, t)
           \/ \E r \in RunIds : ReadVerify(c, t, r)
           \/ ReadAlign(c, t) \/ ReadLens(c, t) \/ ReadAccept(c, t)
           \/ ReadRecover(c, t)
    PROVE  RecordInv'
<1> DEFINE M(op, step, r) == [op |-> op, task |-> t, read |-> task[t], snap |-> source,
                              run |-> r, step |-> step]
<1>1. RecordSound(t, task[t], profile)
  BY DEF RecordInv
<1>2. CASE ReadAgree(c, t)
  <2>1. Undertaken(M("agree", "save", None), profile)
    BY <1>1, <1>2 DEF ReadAgree, Read, Editable, CanAgree, DocumentsValid, Undertaken
  <2>2. QED
    BY <1>2, <2>1, ReadRecords DEF ReadAgree, Read, Editable, world
<1>3. CASE ReadBegin(c, t)
  <2>1. Undertaken(M("begin", "save", None), profile)
    BY <1>1, <1>3 DEF ReadBegin, Read, Editable, CanBegin, FrozenProject, Undertaken
  <2>2. QED
    BY <1>3, <2>1, ReadRecords DEF ReadBegin, Read, Editable, world
<1>4. CASE ReadSubmit(c, t)
  <2>1. Undertaken(M("submit", "save", None), profile)
    BY <1>1, <1>4 DEF ReadSubmit, Read, Editable, CanSubmit, ValidateChanges, Undertaken
  <2>2. QED
    BY <1>4, <2>1, ReadRecords DEF ReadSubmit, Read, Editable, world
<1>5. ASSUME NEW r \in RunIds, ReadVerify(c, t, r)
      PROVE  RecordInv'
  <2>1. Undertaken(M("verify", "ticket", r), profile)
    BY <1>1, <1>5 DEF ReadVerify, Read, Editable, CanVerify, Undertaken
  <2>2. QED
    BY <1>5, <2>1, ReadRecords DEF ReadVerify, Read, Editable, world
<1>6. CASE ReadAlign(c, t)
  <2>1. Undertaken(M("align", "save", None), profile)
    BY <1>1, <1>6 DEF ReadAlign, Read, Editable, CanAlign, Undertaken
  <2>2. QED
    BY <1>6, <2>1, ReadRecords DEF ReadAlign, Read, Editable, world
<1>7. CASE ReadLens(c, t)
  <2>1. Undertaken(M("lens", "save", task[t].run), profile)
    BY <1>1, <1>7 DEF ReadLens, Read, Editable, Undertaken
  <2>2. QED
    BY <1>7, <2>1, ReadRecords DEF ReadLens, Read, Editable, world
<1>8. CASE ReadAccept(c, t)
  <2>1. Undertaken(M("accept", "save", task[t].run), profile)
    BY <1>1, <1>8 DEF ReadAccept, Read, Editable, CanAccept, Undertaken
  <2>2. QED
    BY <1>8, <2>1, ReadRecords DEF ReadAccept, Read, Editable, world
<1>9. CASE ReadRecover(c, t)
  <2>1. Undertaken(M("recover", "recover", task[t].run), profile)
    BY <1>1, <1>9 DEF ReadRecover, Read, Editable, Undertaken
  <2>2. QED
    BY <1>9, <2>1, ReadRecords DEF ReadRecover, Read, Editable, world
<1>10. QED
  BY <1>2, <1>3, <1>4, <1>5, <1>6, <1>7, <1>8, <1>9

\* A discussion that ends in an agreement: everything said so far is dropped.
LEMMA AgreedFields ==
    ASSUME TypeOK, NEW k \in TaskRecord, NEW s \in Snapshots
    PROVE  LET a == Agreed(k, s) IN
           /\ a \in TaskRecord /\ a.stage = "Ready" /\ a.life # "Done" /\ a.risk = 0
           /\ a.submitted = None /\ a.align = None /\ a.lens = None
           /\ a.docs = k.docs /\ a.reqDocs = k.reqDocs /\ a.run = k.run
           /\ a.agr # None /\ a.agr.docs = k.docs
           /\ a.agr.ver = (IF k.agr = None THEN 0 ELSE k.agr.ver) + 1
<1> DEFINE n == [ver |-> (IF k.agr = None THEN 0 ELSE k.agr.ver) + 1,
                 base |-> s, profile |-> profile, docs |-> k.docs]
           u == Unproven(k)
           v == Staged(u, "Ready")
           a == Agreed(k, s)
<1>1. /\ u \in TaskRecord /\ u.submitted = None /\ u.align = None /\ u.lens = None
      /\ u.docs = k.docs /\ u.reqDocs = k.reqDocs /\ u.run = k.run
  BY UnprovenFields
<1> HIDE DEF u
<1>2. /\ v \in TaskRecord /\ v.stage = "Ready" /\ v.life # "Done"
      /\ v.submitted = None /\ v.align = None /\ v.lens = None
      /\ v.docs = k.docs /\ v.reqDocs = k.reqDocs /\ v.run = k.run
  BY <1>1, StagedFields DEF Stages, SameWork
<1>3. a = [v EXCEPT !.agr = n, !.risk = 0]
  BY DEF Agreed, u
<1>4. n # None /\ n.docs = k.docs /\ n.ver = (IF k.agr = None THEN 0 ELSE k.agr.ver) + 1
  <2>1. (IF k.agr = None THEN 0 ELSE k.agr.ver) + 1 \in Nat /\ k.docs \in Nat
    BY DEF TaskRecord, Agreements
  <2>2. n \in Agreements
    BY <2>1 DEF Agreements, TypeOK
  <2>3. QED
    BY <2>2, NoneIsNoAgreement
<1>5. a \in TaskRecord
  BY AgreedRecord
<1> HIDE DEF n, v, a
<1>6. QED
  BY <1>2, <1>3, <1>4, <1>5 DEF TaskRecord, a

LEMMA SavesRecords ==
    ASSUME TypeInv, WriterInv, RecordInv, NEW c \in Clients,
           \/ Agree(c) \/ Submit(c) \/ Align(c) \/ RecordLens(c)
           \/ \E approval \in BOOLEAN : Begin(c, approval)
           \/ Accept(c) \/ Recover(c)
    PROVE  RecordInv'
<1> DEFINE old == cmd[c].read
           t == cmd[c].task
<1>1. cmd[c] # Idle
  BY IdleOp DEF Agree, Submit, Align, RecordLens, Begin, Accept, Recover,
                LastWrite, TaskStep, At, Ops
<1>2. /\ old \in TaskRecord /\ cmd[c].snap \in Snapshots /\ TypeOK
      /\ Undertaken(cmd[c], profile) /\ RecordSound(t, old, profile)
      /\ [run |-> old.run, stamp |-> cmd[c].snap] \in Evidence
      /\ [run |-> cmd[c].run, stamp |-> old.submitted] \in Evidence
  BY <1>1, Loaded DEF TypeInv, TaskRecord, Evidence
<1>3. old \in TaskRecord
  BY <1>2
<1>4. /\ {"agree", "begin", "submit", "align", "lens", "accept", "recover"} \subseteq Ops
      /\ "Submitted" \in Stages /\ "AwaitingAcceptance" \in Stages
      /\ "Implementing" \in Stages /\ "Done" \in Stages /\ "Blocked" \in Stages
  BY DEF Ops, Stages
<1>5. CASE Agree(c)
  <2> DEFINE k == Agreed(old, cmd[c].snap)
  <2>1. LastWrite(c, "agree", k) /\ cmd[c].op = "agree"
    BY <1>5 DEF Agree, LastWrite, At
  <2>2. /\ k \in TaskRecord /\ k.stage = "Ready" /\ k.life # "Done" /\ k.risk = 0
        /\ k.submitted = None /\ k.align = None /\ k.lens = None
        /\ k.docs = old.docs /\ k.reqDocs = old.reqDocs
        /\ k.agr # None /\ k.agr.docs = old.docs
    BY <1>2, AgreedFields
  <2> HIDE DEF k
  <2>3. RecordSound(t, k, profile)
    BY <1>2, <2>1, <2>2 DEF RecordSound, Undertaken, Writing, Claiming
  <2>4. QED
    BY <1>4, <2>1, <2>2, <2>3, LastWriteRecords
<1>6. CASE Submit(c)
  <2> DEFINE s == Staged(old, "Submitted")
             k == [s EXCEPT !.submitted = cmd[c].snap]
  <2>1. LastWrite(c, "submit", k) /\ cmd[c].op = "submit"
    BY <1>6 DEF Submit, LastWrite, At
  <2>2. /\ s \in TaskRecord /\ s.stage = "Submitted" /\ s.life # "Done"
        /\ SameWork(s, old) /\ s.align = old.align /\ s.lens = old.lens
    <3>1. s \in TaskRecord /\ s.stage = "Submitted"
      BY <1>3, <1>4, StagedFields
    <3>2. s.life = "Done" => "Submitted" = "Done"
      BY <1>3, <1>4, StagedFields
    <3>3. SameWork(s, old) /\ s.align = old.align /\ s.lens = old.lens
      BY <1>3, <1>4, StagedFields
    <3>4. QED
      BY <3>1, <3>2, <3>3
  <2>3. k \in TaskRecord
    BY <1>2, SubmittedRecord
  <2> HIDE DEF s
  <2>4. /\ k.stage = "Submitted" /\ k.life # "Done" /\ k.submitted = cmd[c].snap
        /\ k.agr = old.agr /\ k.risk = old.risk /\ k.docs = old.docs
        /\ k.reqDocs = old.reqDocs /\ k.align = old.align /\ k.lens = old.lens
    BY <2>2 DEF TaskRecord, SameWork
  <2> HIDE DEF k
  <2>5. RecordSound(t, k, profile)
    BY <1>2, <2>1, <2>4 DEF RecordSound, Undertaken, Writing, Claiming
  <2>6. QED
    BY <1>4, <2>1, <2>3, <2>5, LastWriteRecords
<1>7. CASE Align(c)
  <2> DEFINE s == Staged(old, "AwaitingAcceptance")
             e == [run |-> old.run, stamp |-> cmd[c].snap]
             k == [s EXCEPT !.align = e]
  <2>1. LastWrite(c, "align", k) /\ cmd[c].op = "align"
    BY <1>7 DEF Align, LastWrite, At
  <2>2. /\ s \in TaskRecord /\ s.stage = "AwaitingAcceptance" /\ s.life # "Done"
        /\ SameWork(s, old) /\ s.lens = old.lens
    <3>1. s \in TaskRecord /\ s.stage = "AwaitingAcceptance"
      BY <1>3, <1>4, StagedFields
    <3>2. s.life = "Done" => "AwaitingAcceptance" = "Done"
      BY <1>3, <1>4, StagedFields
    <3>3. SameWork(s, old) /\ s.lens = old.lens
      BY <1>3, <1>4, StagedFields
    <3>4. QED
      BY <3>1, <3>2, <3>3
  <2>3. k \in TaskRecord
    BY <1>2, AlignedRecord
  <2> HIDE DEF s
  <2>4. /\ k.stage = "AwaitingAcceptance" /\ k.life # "Done" /\ k.align = e
        /\ k.agr = old.agr /\ k.risk = old.risk /\ k.docs = old.docs /\ k.run = old.run
        /\ k.reqDocs = old.reqDocs /\ k.submitted = old.submitted /\ k.lens = old.lens
    BY <2>2 DEF TaskRecord, SameWork
  <2> HIDE DEF k
  <2>5. e = [run |-> k.run, stamp |-> k.submitted] /\ old.stage = "AwaitingAcceptance"
    BY <1>2, <2>1, <2>4 DEF Undertaken
  <2> HIDE DEF e
  <2>6. RecordSound(t, k, profile)
    BY <1>2, <2>4, <2>5 DEF RecordSound, Writing, Claiming
  <2>7. QED
    BY <1>4, <2>1, <2>3, <2>6, LastWriteRecords
<1>8. CASE RecordLens(c)
  <2> DEFINE e == [run |-> cmd[c].run, stamp |-> old.submitted]
             k == [old EXCEPT !.lens = e]
  <2>1. LastWrite(c, "lens", k) /\ cmd[c].op = "lens"
    BY <1>8 DEF RecordLens, LastWrite, At
  <2>2. k \in TaskRecord
    BY <1>2, AlignedRecord
  <2>3. /\ k.stage = old.stage /\ k.life = old.life /\ k.align = old.align
        /\ k.agr = old.agr /\ k.risk = old.risk /\ k.docs = old.docs /\ k.run = old.run
        /\ k.reqDocs = old.reqDocs /\ k.submitted = old.submitted /\ k.lens = e
    BY <1>2 DEF TaskRecord
  <2> HIDE DEF k
  <2>4. e = [run |-> k.run, stamp |-> k.submitted] /\ old.stage = "AwaitingAcceptance"
    BY <1>2, <2>1, <2>3 DEF Undertaken
  <2> HIDE DEF e
  <2>5. RecordSound(t, k, profile)
    BY <1>2, <2>3, <2>4 DEF RecordSound, Writing, Claiming
  <2>6. QED
    BY <1>4, <2>1, <2>2, <2>5, LastWriteRecords
<1>9. ASSUME NEW approval \in BOOLEAN, Begin(c, approval)
      PROVE  RecordInv'
  <2> DEFINE u == Unproven(old)
             s == Staged(u, "Implementing")
             n == IF approval THEN old.agr.ver ELSE s.risk
             k == [s EXCEPT !.risk = n]
  <2>1. LastWrite(c, "begin", k) /\ cmd[c].op = "begin"
        /\ (t \in CriticalTasks /\ old.risk = 0 => approval)
    BY <1>9 DEF Begin, LastWrite, At
  <2>2. /\ u \in TaskRecord /\ u.agr = old.agr /\ u.risk = old.risk /\ u.docs = old.docs
        /\ u.reqDocs = old.reqDocs
        /\ u.submitted = None /\ u.align = None /\ u.lens = None
    BY <1>2, UnprovenFields
  <2>3. old.agr # None
    BY <2>1 DEF TypeInv, AgreementRead
  <2>4. k \in TaskRecord
    BY <1>2, <2>3, BegunRecord
  <2> HIDE DEF u
  <2>5. /\ s \in TaskRecord /\ s.stage = "Implementing" /\ s.life # "Done"
        /\ SameWork(s, u) /\ s.align = None /\ s.lens = None
    BY <1>4, <2>2, StagedFields
  <2>6. n = IF approval THEN old.agr.ver ELSE old.risk
    BY <2>2, <2>5 DEF SameWork
  <2> HIDE DEF s, n
  <2>7. /\ k.stage = "Implementing" /\ k.life # "Done" /\ k.risk = n
        /\ k.agr = old.agr /\ k.docs = old.docs /\ k.reqDocs = old.reqDocs
        /\ k.submitted = None /\ k.align = None /\ k.lens = None
    BY <2>2, <2>5 DEF TaskRecord, SameWork
  <2> HIDE DEF k
  <2>8. RecordSound(t, k, profile)
    BY <1>2, <2>1, <2>3, <2>6, <2>7 DEF RecordSound, Undertaken, Writing, Claiming
  <2>9. QED
    BY <1>4, <2>1, <2>4, <2>8, LastWriteRecords
<1>10. CASE Accept(c) \/ Recover(c)
  <2> DEFINE stage == IF Accept(c) THEN "Done" ELSE "Blocked"
             k == Staged(old, stage)
  <2>1. /\ k \in TaskRecord /\ k.stage = stage /\ (k.life = "Done" => stage = "Done")
        /\ SameWork(k, old) /\ k.align = old.align /\ k.lens = old.lens
    BY <1>3, <1>4, StagedFields
  <2>2. /\ Accept(c) => TaskStep(c, "accept", "save", "approve", k)
        /\ ~Accept(c) => LastWrite(c, "recover", k)
    BY <1>10 DEF Accept, Recover
  <2>3. \/ stage = "Done" /\ old.stage = "AwaitingAcceptance"
        \/ stage = "Blocked" /\ old.stage = "Checking"
    BY <1>2, <1>10 DEF Accept, Recover, TaskStep, LastWrite, At, Undertaken
  <2> HIDE DEF k, stage
  <2>4. RecordSound(t, k, profile)
    BY <1>2, <2>1, <2>3 DEF RecordSound, Writing, Claiming, SameWork
  <2>5. QED
    BY <1>4, <2>1, <2>2, <2>4, LastWriteRecords, TaskStepRecords
<1>11. QED
  BY <1>5, <1>6, <1>7, <1>8, <1>9, <1>10

LEMMA RunRowsRecords ==
    ASSUME TypeInv, WriterInv, RecordInv, NEW c \in Clients,
           \/ VerifyTicket(c) \/ VerifyCheckpoint(c) \/ RunCreated(c) \/ RunStarted(c)
           \/ \E outcome \in {"Failed", "ReworkRequired", "Cancelled"} : RunEnds(c, outcome)
           \/ VerifyFinish(c) \/ VerifyThrows(c)
           \/ RecoverRun(c) \/ RecoverTicket(c)
    PROVE  RecordInv'
<1>1. "verify" \in Ops /\ "recover" \in Ops
  BY DEF Ops
<1>2. /\ {"checkpoint", "checking"} \subseteq Early \ Driving
      /\ {"start", "created", "running", "settle"} \subseteq Driving \ Early
      /\ {"finish", "audit", "caught"} \cap (Early \cup Driving) = {}
  BY DEF Early, Driving
<1>3. CASE VerifyTicket(c) \/ VerifyCheckpoint(c)
  BY <1>1, <1>2, <1>3, RunStepRecords DEF VerifyTicket, VerifyCheckpoint
<1>4. CASE RunCreated(c) \/ RunStarted(c)
  BY <1>1, <1>2, <1>4, RunStepRecords DEF RunCreated, RunStarted
<1>5. ASSUME NEW outcome, RunEnds(c, outcome)
      PROVE  RecordInv'
  BY <1>1, <1>2, <1>5, RunStepRecords DEF RunEnds
<1>6. CASE VerifyFinish(c) \/ VerifyThrows(c)
  BY <1>1, <1>2, <1>6, RunStepRecords DEF VerifyFinish, VerifyThrows
<1>7. CASE RecoverRun(c) \/ RecoverTicket(c)
  BY <1>1, <1>7, RunStepRecords DEF RecoverRun, RecoverTicket
<1>8. QED
  BY <1>3, <1>4, <1>5, <1>6, <1>7

\* Verify puts a record that was sound before to another stage of the claim, or
\* back to rework: the agreement it read still holds.
LEMMA VerifyWrites ==
    ASSUME NEW m, NEW k, NEW p, m.op = "verify", Undertaken(m, p), Verified(m, k),
           k.life # "Done", k.stage # "Done"
    PROVE  RecordSound(m.task, k, p)
<1>1. RecordSound(m.task, m.read, p) /\ m.read.stage \in {"Submitted", "Blocked"}
      /\ m.snap = m.read.submitted
  BY DEF Undertaken
<1>2. m.read.stage \in Writing /\ m.read.stage \notin {"Absent", "Discussing"}
  BY <1>1 DEF Writing, Claiming
<1>3. QED
  BY <1>1, <1>2 DEF RecordSound, Verified

LEMMA VerdictsRecords ==
    ASSUME TypeInv, WriterInv, RecordInv, NEW c \in Clients,
           \/ VerifyChecking(c) \/ RunCompletes(c) \/ CompletionEventFails(c)
           \/ VerifyResult(c) \/ VerifyCaught(c)
           \/ SaveApproval(c) \/ VerifyAudit(c) \/ VerifyAbandon(c)
    PROVE  RecordInv'
<1> DEFINE t == cmd[c].task
           old == cmd[c].read
           cur == task[t]
<1>1. cmd[c] # Idle
  BY IdleOp DEF VerifyChecking, RunCompletes, CompletionEventFails, VerifyResult,
     VerifyCaught, SaveApproval, VerifyAudit, VerifyAbandon, TaskStep, At, Ops
<1>2. /\ t \in Tasks /\ cur \in TaskRecord /\ old \in TaskRecord
      /\ cmd[c].run \in RunIds \cup {None}
      /\ Undertaken(cmd[c], profile) /\ Carried(cmd[c], cur)
      /\ RecordSound(t, old, profile) /\ TypeOK
  BY <1>1, Loaded DEF TypeInv
<1>3. /\ "verify" \in Ops /\ "Checking" \in Stages /\ "Blocked" \in Stages
      /\ "running" \in Driving \ Early /\ "settle" \in Driving \ Early
      /\ "caught" \notin Early /\ "finish" \notin Driving /\ "abandon" \notin Driving
  BY DEF Ops, Stages, Early, Driving
<1>4. CASE VerifyChecking(c)
  <2> DEFINE s == Staged(old, "Checking")
             k == [s EXCEPT !.run = cmd[c].run, !.align = None, !.lens = None,
                            !.captured = None]
  <2>1. TaskStep(c, "verify", "checking", "start", k) /\ cmd[c].op = "verify"
    BY <1>4 DEF VerifyChecking, TaskStep, At
  <2>2. k \in TaskRecord
    BY <1>2, CheckingRecord
  <2>3. s \in TaskRecord /\ s.stage = "Checking" /\ SameWork(s, old)
        /\ (s.life = "Done" => "Checking" = "Done")
    BY <1>2, <1>3, StagedFields
  <2> HIDE DEF s
  <2>4. /\ k.stage = "Checking" /\ k.life = s.life /\ k.agr = old.agr /\ k.risk = old.risk
        /\ k.submitted = old.submitted /\ k.docs = old.docs /\ k.reqDocs = old.reqDocs
        /\ k.run = cmd[c].run /\ k.align = None /\ k.lens = None
    BY <2>3 DEF TaskRecord, SameWork
  <2> HIDE DEF k
  <2>5. Verified(cmd[c], k)
    BY <1>2, <2>1, <2>4 DEF Undertaken, Verified
  <2>6. RecordSound(t, k, profile)
    BY <1>2, <2>1, <2>3, <2>4, <2>5, VerifyWrites
  <2>7. QED
    BY <1>3, <2>1, <2>2, <2>4, <2>5, <2>6, TaskStepRecords
<1>5. CASE RunCompletes(c)
  <2> DEFINE k == [cur EXCEPT !.life = "AwaitingAcceptance"]
  <2>1. /\ task' = [task EXCEPT ![t] = k] /\ profile' = profile /\ Goto(c, "settle")
        /\ cmd[c].op = "verify" /\ cmd[c].step = "running"
    BY <1>5 DEF RunCompletes, CompletedLife, At, world
  <2>2. /\ SameWork(k, cur) /\ k.stage = cur.stage /\ k.align = cur.align
        /\ k.lens = cur.lens /\ k.life = "AwaitingAcceptance"
    BY <1>2 DEF TaskRecord, SameWork
  <2>3. task'[t] = k /\ \A u \in Tasks \ {t} : task'[u] = task[u]
    BY <1>2, <2>1 DEF TypeOK
  <2> HIDE DEF k
  <2>4. Verified(cmd[c], cur) /\ cur.stage = "Checking"
    BY <1>2, <1>3, <2>1 DEF Carried
  <2>5. Verified(cmd[c], k) /\ k.stage = "Checking"
    BY <2>2, <2>4 DEF Verified, SameWork
  <2>6. RecordSound(t, k, profile)
    BY <1>2, <2>1, <2>2, <2>5, VerifyWrites
  <2>7. /\ cmd'[c].op = cmd[c].op /\ cmd'[c].task = t /\ cmd'[c].read = old
        /\ cmd'[c].snap = cmd[c].snap /\ cmd'[c].run = cmd[c].run
        /\ \A d \in Clients \ {c} : cmd'[d] = Idle
    BY <1>1, <2>1, GotoFields, GotoEffect
  <2>8. Undertaken(cmd'[c], profile)
    BY <1>2, <2>7, StillUndertaken
  <2>9. Carried(cmd'[c], k)
    BY <2>5, <2>7 DEF Carried, Verified
  <2>10. QED
    BY <1>2, <2>1, <2>3, <2>6, <2>7, <2>8, <2>9 DEF RecordInv
<1>6. CASE CompletionEventFails(c)
  BY <1>6 DEF CompletionEventFails, world, RecordInv
<1>7. CASE VerifyResult(c)
  <2> DEFINE verdict == Verdict(Row(c).state)
             r == IF Row(c).state = "Completed" /\ cur.reqDocs THEN cmd[c].run ELSE None
             s == Staged(cur, verdict)
             k == [s EXCEPT !.captured = r]
  <2>1. TaskStep(c, "verify", "settle", "finish", k)
        /\ cmd[c].op = "verify" /\ cmd[c].step = "settle"
    BY <1>7 DEF VerifyResult, TaskStep, At
  <2>2. r \in RunIds \cup {None} /\ verdict \in {"AwaitingAcceptance", "Rework", "Blocked"}
        /\ verdict \in Stages
    BY <1>2 DEF Verdict, Stages
  <2> HIDE DEF r
  <2>3. k \in TaskRecord
    BY <1>2, <2>2, JudgedRecord
  <2> HIDE DEF verdict
  <2>4. /\ s \in TaskRecord /\ s.stage = verdict /\ SameWork(s, cur)
        /\ s.align = cur.align /\ s.lens = cur.lens
        /\ (s.life = "Done" => verdict = "Done")
    BY <1>2, <2>2, StagedFields
  <2> HIDE DEF s
  <2>5. /\ k.stage = verdict /\ k.life = s.life /\ k.agr = cur.agr /\ k.risk = cur.risk
        /\ k.submitted = cur.submitted /\ k.docs = cur.docs /\ k.reqDocs = cur.reqDocs
        /\ k.run = cur.run /\ k.align = cur.align /\ k.lens = cur.lens
    BY <2>4 DEF TaskRecord, SameWork
  <2> HIDE DEF k
  <2>6. Verified(cmd[c], cur)
    BY <1>2, <1>3, <2>1 DEF Carried
  <2>7. Verified(cmd[c], k)
    BY <2>2, <2>5, <2>6 DEF Verified
  <2>8. RecordSound(t, k, profile)
    BY <1>2, <2>1, <2>2, <2>4, <2>5, <2>7, VerifyWrites
  <2>9. QED
    BY <1>3, <2>1, <2>3, <2>7, <2>8, TaskStepRecords
<1>8. CASE VerifyCaught(c)
  <2> DEFINE k == Staged(cur, "Blocked")
  <2>1. TaskStep(c, "verify", "caught", "abandon", k)
        /\ cmd[c].op = "verify" /\ cmd[c].step = "caught"
    BY <1>8 DEF VerifyCaught, TaskStep, At
  <2>2. /\ k \in TaskRecord /\ k.stage = "Blocked" /\ SameWork(k, cur)
        /\ k.align = cur.align /\ k.lens = cur.lens
        /\ (k.life = "Done" => "Blocked" = "Done")
    BY <1>2, <1>3, StagedFields
  <2> HIDE DEF k
  <2>3. Verified(cmd[c], cur)
    BY <1>2, <1>3, <2>1 DEF Carried
  <2>4. Verified(cmd[c], k)
    BY <2>2, <2>3 DEF Verified, SameWork
  <2>5. RecordSound(t, k, profile)
    BY <1>2, <2>1, <2>2, <2>4, VerifyWrites
  <2>6. QED
    BY <1>3, <2>1, <2>2, <2>4, <2>5, TaskStepRecords
<1>9. CASE SaveApproval(c) \/ VerifyAudit(c) \/ VerifyAbandon(c)
  <2>1. Exit(c) /\ UNCHANGED <<task, profile>>
    BY <1>9 DEF SaveApproval, VerifyAudit, VerifyAbandon, world
  <2>2. QED
    BY <1>1, <2>1, NobodyLeft DEF RecordInv
<1>10. QED
  BY <1>4, <1>5, <1>6, <1>7, <1>8, <1>9

\* The profile changes only while no task relies on the one it replaces.
LEMMA OutsideRecords ==
    ASSUME TypeInv, WriterInv, RecordInv,
           \/ \E c \in Clients : Crash(c)
           \/ \E p \in Profiles : SaveProject(p)
           \/ HostStep \/ Environment
    PROVE  RecordInv'
<1>1. ASSUME NEW c \in Clients, Crash(c)
      PROVE  RecordInv'
  <2>1. cmd[c] # Idle /\ Exit(c) /\ UNCHANGED <<task, profile>>
    BY <1>1 DEF Crash, world
  <2>2. QED
    BY <2>1, NobodyLeft DEF RecordInv
<1>2. ASSUME NEW p \in Profiles, SaveProject(p)
      PROVE  RecordInv'
  <2>1. /\ LeaseFree /\ UNCHANGED <<cmd, task>>
        /\ \A t \in Tasks : task[t].stage \in {"Absent", "Discussing"} \/ task[t].life = "Done"
    BY <1>2 DEF SaveProject
  <2>2. \A t \in Tasks : task[t].stage \notin Writing
    BY <2>1 DEF RecordInv, RecordSound, Writing, Claiming
  <2>3. \A t \in Tasks : RecordSound(t, task[t], profile')
    BY <2>2 DEF RecordInv, RecordSound
  <2>4. QED
    BY <2>1, <2>3, FreeRecords
<1>3. CASE HostStart \/ HostStop \/ LegacyRunStarts \/ LegacyRunEnds \/ Environment
  BY <1>3 DEF HostStart, HostStop, LegacyRunStarts, LegacyRunEnds, Environment,
              EditSource, EditDocument, RecordInv
<1>4. ASSUME NEW p \in Profiles, HostSaveProject(p)
      PROVE  RecordInv'
  <2>1. /\ UNCHANGED <<cmd, task>> /\ host
        /\ \A t \in Tasks : task[t].stage \notin Writing
    BY <1>4 DEF HostSaveProject, ProjectBusy, Writing
  <2>2. \A c \in Clients : cmd[c] = Idle
    BY <2>1 DEF WriterInv, CommandUndisturbed
  <2>3. \A t \in Tasks : RecordSound(t, task[t], profile')
    BY <2>1 DEF RecordInv, RecordSound
  <2>4. QED
    BY <2>1, <2>2, <2>3 DEF RecordInv
<1>5. QED
  BY <1>1, <1>2, <1>3, <1>4 DEF HostStep

LEMMA RecordStep == TypeInv /\ WriterInv /\ RecordInv /\ [Next]_vars => RecordInv'
<1> SUFFICES ASSUME TypeInv, WriterInv, RecordInv, [Next]_vars PROVE RecordInv'
  OBVIOUS
<1>1. ASSUME NEW c \in Clients, ClientStep(c)
      PROVE  RecordInv'
  BY <1>1, EditRecords, ReadsRecords DEF ClientStep
<1>2. ASSUME NEW c \in Clients, CommandStep(c)
      PROVE  RecordInv'
  BY <1>2, SavesRecords, RunRowsRecords, VerdictsRecords DEF CommandStep
<1>3. CASE UNCHANGED vars
  BY <1>3 DEF vars, RecordInv
<1>4. QED
  BY <1>1, <1>2, <1>3, OutsideRecords DEF Next

LEMMA RecordInvariant == Spec => [](TypeInv /\ WriterInv /\ RecordInv)
<1>1. Spec => []TypeInv
  BY InitType, TypeStep, PTL DEF Spec
<1>2. QED
  BY <1>1, WriterInvariant, InitRecords, RecordStep, PTL DEF Spec

\* No alignment and no Change Lens report outlives the run and the source it
\* is about, whatever commands, crashes and edits come between.
THEOREM EvidenceIsFresh == Spec => []NoStaleEvidence
<1>1. RecordInv => NoStaleEvidence
  BY DEF RecordInv, RecordSound, NoStaleEvidence
<1>2. QED
  BY <1>1, RecordInvariant, PTL

\* What is implemented, verified and accepted is what was agreed: the
\* documents, the project's policy and commands, and the part of the source
\* that the policy protects.
THEOREM AgreementsHold == Spec => []AgreementHolds
<1>1. RecordInv => AgreementHolds
  BY DEF RecordInv, RecordSound, AgreementHolds
<1>2. QED
  BY <1>1, RecordInvariant, PTL

\* An approval of a CRITICAL task is used for the agreement it was given for
\* and for no later one.
THEOREM CriticalWorkIsApproved == Spec => []CriticalApproved
<1>1. RecordInv => CriticalApproved
  BY DirectAssumption DEF RecordInv, RecordSound, CriticalApproved
<1>2. QED
  BY <1>1, RecordInvariant, PTL
=============================================================================
