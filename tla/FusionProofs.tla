----------------------------- MODULE FusionProofs -----------------------------
(***************************************************************************)
(* Proofs about the fusion tasks of a project: one native session per task *)
(* (OneSession), one busy discussion or run per project (OneAtATime), and  *)
(* runs and acceptances that stay those of the snapshot they were started  *)
(* under (ExecutesAsAgreed, AwaitingIsDelivered, DiscussionAttended), for  *)
(* every number of tasks, runs, restarts and queued items.                 *)
(***************************************************************************)
EXTENDS FusionProperties, FiniteSetTheorems, TLAPS

(***************************************************************************)
(* Sequences, known by their entries.                                      *)
(***************************************************************************)
Entries(s) == {s[i] : i \in DOMAIN s}
IsSequence(s) == s \in Seq(Entries(s))

LEMMA Appended ==
    ASSUME NEW s, IsSequence(s), NEW e
    PROVE  /\ IsSequence(Append(s, e))
           /\ Len(s) \in Nat /\ DOMAIN s = 1..Len(s)
           /\ Len(Append(s, e)) = Len(s) + 1
           /\ DOMAIN Append(s, e) = 1..(Len(s) + 1)
           /\ Append(s, e)[Len(s) + 1] = e
           /\ \A i \in 1..Len(s) : Append(s, e)[i] = s[i]
<1> DEFINE S == Entries(s) \cup {e}
           t == Append(s, e)
<1>1. s \in Seq(S) /\ e \in S
  BY DEF IsSequence
<1>2. /\ t \in Seq(S) /\ Len(t) = Len(s) + 1 /\ Len(s) \in Nat /\ DOMAIN s = 1..Len(s)
      /\ t[Len(s) + 1] = e
      /\ \A i \in 1..Len(s) : t[i] = s[i]
  BY <1>1
<1> HIDE DEF S, t
<1>3. DOMAIN t = 1..Len(t) /\ Len(t) \in Nat /\ t = [i \in 1..Len(t) |-> t[i]]
  BY <1>2
<1>4. \A i \in 1..Len(t) : t[i] \in Entries(t)
  BY <1>3 DEF Entries
<1>5. IsSequence(t)
  BY <1>3, <1>4 DEF IsSequence
<1> USE DEF t
<1> QED
  BY <1>2, <1>3, <1>5

LEMMA Tailed ==
    ASSUME NEW s, IsSequence(s), s # <<>>
    PROVE  /\ IsSequence(Tail(s))
           /\ Len(s) \in Nat /\ 1 \in 1..Len(s) /\ Head(s) = s[1]
           /\ Len(Tail(s)) = Len(s) - 1
           /\ \A i \in 1..(Len(s) - 1) : Tail(s)[i] = s[i + 1] /\ i + 1 \in 1..Len(s)
<1> DEFINE t == Tail(s)
<1>1. s \in Seq(Entries(s))
  BY DEF IsSequence
<1>2. /\ t \in Seq(Entries(s)) /\ Len(s) \in Nat /\ Len(s) # 0 /\ Head(s) = s[1]
      /\ Len(t) = Len(s) - 1
      /\ \A i \in 1..(Len(s) - 1) : t[i] = s[i + 1] /\ i + 1 \in 1..Len(s)
  BY <1>1
<1> HIDE DEF t
<1>3. DOMAIN t = 1..Len(t) /\ Len(t) \in Nat /\ t = [i \in 1..Len(t) |-> t[i]]
  BY <1>2
<1>4. \A i \in 1..Len(t) : t[i] \in Entries(t)
  BY <1>3 DEF Entries
<1>5. IsSequence(t)
  BY <1>3, <1>4 DEF IsSequence
<1> USE DEF t
<1> QED
  BY <1>2, <1>5

LEMMA Empty == IsSequence(<<>>) /\ Len(<<>>) = 0 /\ DOMAIN <<>> = {}
  BY DEF IsSequence, Entries

\* A function on the indices of a sequence is one.
LEMMA SameIndices ==
    ASSUME NEW s, IsSequence(s), NEW t, t = [i \in DOMAIN s |-> t[i]]
    PROVE  IsSequence(t) /\ Len(t) = Len(s) /\ DOMAIN t = DOMAIN s
<1>1. Len(s) \in Nat /\ DOMAIN s = 1..Len(s)
  BY DEF IsSequence
<1>2. \A i \in 1..Len(s) : t[i] \in Entries(t)
  BY <1>1 DEF Entries
<1>3. t \in Seq(Entries(t)) /\ Len(t) = Len(s)
  BY <1>1, <1>2
<1> QED
  BY <1>1, <1>3 DEF IsSequence

(***************************************************************************)
(* What is stored, as far as the proofs need it.                           *)
(***************************************************************************)
TaskFields  == {"life", "disc", "session", "spoken", "frozen"}
BoundFields == {"session", "profile", "stamp"}
RunFields   == {"task", "state", "ticket", "ready", "stamp", "supported", "final", "done"}
Fields      == {"pc", "item", "stop", "seen"}

Tables ==
    /\ task = [t \in Tasks |-> task[t]]
    /\ \A t \in Tasks : task[t] = [f \in TaskFields |-> task[t][f]]
    /\ bound = [t \in Tasks |-> bound[t]]
    /\ \A t \in Tasks : bound[t] = [f \in BoundFields |-> bound[t][f]]

Memory ==
    /\ IsSequence(queue)
    /\ worker = [f \in Fields |-> worker[f]]
    /\ \A k \in 1..Len(queue) : queue[k].kind = "discuss" => queue[k].task \in Tasks
    /\ Executing({"discuss"}) => worker.item.task \in Tasks
    /\ worker.pc \in {"calling", "file"} => worker.item.kind # "discuss"

(***************************************************************************)
(* Sessions.                                                               *)
(***************************************************************************)
Sessioned ==
    /\ \A t \in Tasks :
          /\ task[t].session \in {None, bound[t].session}
          /\ task[t].life = "Absent" => task[t].session = None /\ task[t].disc = "Idle"
    /\ Executing({"discuss"}) => task[worker.item.task].life # "Absent"

SessionInv == Tables /\ Memory /\ Sessioned

LEMMA SessionInit == Init => SessionInv
<1> SUFFICES ASSUME Init PROVE SessionInv
  OBVIOUS
<1>1. Tables
  BY DEF Init, Tables, NoTask, Unbound, TaskFields, BoundFields
<1>2. Memory
  BY Empty DEF Init, Memory, Resting, Fields, Executing
<1>3. Sessioned
  BY DEF Init, Sessioned, NoTask, Unbound, Resting, Executing
<1> QED
  BY <1>1, <1>2, <1>3 DEF SessionInv

\* A task that is saved: the record written replaces the one of its task.
LEMMA Saved ==
    ASSUME SessionInv, NEW t, NEW x, SaveFusion(t, x), t \in Tasks => x = [f \in TaskFields |-> x[f]]
    PROVE  /\ t \in Tasks => task'[t] = x
           /\ \A u \in Tasks : u # t => task'[u] = task[u]
           /\ task' = [u \in Tasks |-> task'[u]]
           /\ \A u \in Tasks : task'[u] = [f \in TaskFields |-> task'[u][f]]
<1>1. task' = [task EXCEPT ![t] = x] /\ task = [u \in Tasks |-> task[u]]
  BY DEF SaveFusion, SessionInv, Tables
<1>2. /\ t \in Tasks => task'[t] = x
      /\ \A u \in Tasks : u # t => task'[u] = task[u]
      /\ task' = [u \in Tasks |-> task'[u]]
  BY <1>1
<1> QED
  BY <1>2 DEF SessionInv, Tables

Keeps ==
    \A t \in Tasks : bound[t].session # None =>
        /\ bound'[t].session = bound[t].session
        /\ task'[t].session \in {task[t].session, bound[t].session}

\* Memory after an item was added or taken.
LEMMA MemoryAdd ==
    ASSUME Memory, NEW e, e.kind = "discuss" => e.task \in Tasks,
           queue' = Append(queue, e), worker' = worker
    PROVE  Memory'
<1>1. IsSequence(queue)
  BY DEF Memory
<1>2. /\ IsSequence(queue') /\ Len(queue) \in Nat /\ Len(queue') = Len(queue) + 1
      /\ queue'[Len(queue) + 1] = e
      /\ \A i \in 1..Len(queue) : queue'[i] = queue[i]
  <2>1. queue' = Append(queue, e)
    OBVIOUS
  <2> QED
    BY ONLY <1>1, <2>1, Appended
<1>3. \A k \in 1..Len(queue') : k \in 1..Len(queue) \/ k = Len(queue) + 1
  BY <1>2
<1>4. \A k \in 1..Len(queue') : queue'[k].kind = "discuss" => queue'[k].task \in Tasks
  BY <1>2, <1>3 DEF Memory
<1> QED
  BY <1>2, <1>4 DEF Memory, Executing

LEMMA MemoryTake ==
    ASSUME Memory, Taken
    PROVE  /\ IsSequence(queue')
           /\ \A k \in 1..Len(queue') : queue'[k].kind = "discuss" => queue'[k].task \in Tasks
           /\ Head(queue).kind = "discuss" => Head(queue).task \in Tasks
<1>1. IsSequence(queue) /\ queue # <<>> /\ queue' = Tail(queue)
  BY DEF Memory, Taken
<1>2. /\ IsSequence(queue')
      /\ Len(queue) \in Nat /\ 1 \in 1..Len(queue) /\ Head(queue) = queue[1]
      /\ Len(queue') = Len(queue) - 1
      /\ \A i \in 1..(Len(queue) - 1) : queue'[i] = queue[i + 1] /\ i + 1 \in 1..Len(queue)
  BY ONLY <1>1, Tailed
<1> QED
  BY <1>2 DEF Memory

\* A request that saves a task, keeps its session and leaves the worker alone.
LEMMA SessionSaved ==
    ASSUME SessionInv, NEW t \in Tasks, NEW x, SaveFusion(t, x), x = [f \in TaskFields |-> x[f]],
           x.session = task[t].session, x.life # "Absent", bound' = bound, worker' = worker,
           Memory'
    PROVE  SessionInv' /\ Keeps
<1>1. /\ task'[t] = x
      /\ \A u \in Tasks : u # t => task'[u] = task[u]
      /\ task' = [u \in Tasks |-> task'[u]]
      /\ \A u \in Tasks : task'[u] = [f \in TaskFields |-> task'[u][f]]
  BY Saved
<1>2. Tables'
  BY <1>1 DEF Tables, SessionInv
<1>3. Sessioned'
  BY <1>1 DEF SessionInv, Sessioned, Memory, Executing
<1>4. Keeps
  BY <1>1 DEF Keeps
<1> QED
  BY <1>2, <1>3, <1>4 DEF SessionInv

\* A step that leaves the tasks and their checkpoints alone, and takes up no discussion.
LEMMA SessionIdle ==
    ASSUME SessionInv, task' = task, bound' = bound, Memory',
           Executing({"discuss"})' => Executing({"discuss"}) /\ worker'.item = worker.item
    PROVE  SessionInv' /\ Keeps
<1>1. Tables'
  BY DEF Tables, SessionInv
<1>2. Sessioned'
  BY DEF SessionInv, Sessioned
<1> QED
  BY <1>1, <1>2 DEF SessionInv, Keeps

\* A step of a run: it may move the task on, but not change its session.
LEMMA SessionRun ==
    ASSUME SessionInv, NEW u, NEW life, life # "Absent",
           task' \in {task, [task EXCEPT ![u].life = life]}, bound' = bound,
           queue' = queue, worker' = [f \in Fields |-> worker'[f]], ~Executing({"discuss"})'
    PROVE  SessionInv' /\ Keeps
<1>0. task = [t \in Tasks |-> task[t]] /\ \A t \in Tasks : task[t] = [f \in TaskFields |-> task[t][f]]
  BY DEF SessionInv, Tables
<1>1. /\ task' = [t \in Tasks |-> task'[t]]
      /\ \A t \in Tasks :
            /\ task'[t] \in {task[t], [task[t] EXCEPT !.life = life]}
  BY <1>0
<1>2. \A t \in Tasks :
            /\ task'[t] = [f \in TaskFields |-> task'[t][f]]
            /\ task'[t].session = task[t].session /\ task'[t].disc = task[t].disc
            /\ task'[t].life \in {task[t].life, life}
  BY <1>0, <1>1 DEF TaskFields
<1>3. Tables'
  BY <1>1, <1>2 DEF Tables, SessionInv
<1>4. Memory'
  BY DEF Memory, SessionInv, Executing
<1>5. Sessioned'
  BY <1>2 DEF Sessioned, SessionInv
<1> QED
  BY <1>2, <1>3, <1>4, <1>5 DEF SessionInv, Keeps

\* The requests.
LEMMA SessionRequests ==
    ASSUME SessionInv, NEW t \in Tasks,
           \/ CreateDiscussingTask(t) \/ RequestDiscussion(t) \/ StopDiscussion(t)
           \/ FreezeReady(t) \/ ReturnToDiscussion(t) \/ RequestRun(t)
           \/ \E accept \in BOOLEAN : OwnerAcceptance(t, accept)
    PROVE  SessionInv' /\ Keeps
<1>0. /\ Memory /\ task[t] = [f \in TaskFields |-> task[t][f]]
      /\ worker = [f \in Fields |-> worker[f]]
  BY DEF SessionInv, Tables, Memory
<1>m. worker' = worker /\ queue' = queue => Memory'
  BY <1>0 DEF Memory, Executing
<1>1. CASE CreateDiscussingTask(t)
  <2> DEFINE x == [NoTask EXCEPT !.life = "Discussing"]
  <2>1. /\ SaveFusion(t, x) /\ x = [f \in TaskFields |-> x[f]]
        /\ x.session = task[t].session /\ x.life # "Absent"
        /\ bound' = bound /\ worker' = worker /\ queue' = queue
    BY <1>1 DEF CreateDiscussingTask, NoTask, TaskFields, SessionInv, Sessioned
  <2> HIDE DEF x
  <2> QED
    BY <1>m, <2>1, SessionSaved
<1>2. CASE RequestDiscussion(t)
  <2> DEFINE x == [task[t] EXCEPT !.disc = "Queued"]
  <2>1. /\ SaveFusion(t, x) /\ x = [f \in TaskFields |-> x[f]]
        /\ x.session = task[t].session /\ x.life # "Absent"
        /\ bound' = bound /\ worker' = worker /\ queue' = Append(queue, Discussion(t))
    BY <1>0, <1>2 DEF RequestDiscussion, EditableDiscussion, TaskFields
  <2>2. Memory'
    BY <1>0, <2>1, MemoryAdd DEF Discussion
  <2> HIDE DEF x
  <2> QED
    BY <2>1, <2>2, SessionSaved
<1>3. CASE StopDiscussion(t)
  <2>1. CASE ExecutingDiscussion(t)
    <3>1. /\ worker' = [worker EXCEPT !.stop = "cancel"]
          /\ task' = task /\ bound' = bound /\ queue' = queue
      BY <1>3, <2>1 DEF StopDiscussion
    <3>2. /\ worker' = [f \in Fields |-> worker'[f]]
          /\ worker'.pc = worker.pc /\ worker'.item = worker.item
      BY <1>0, <3>1 DEF Fields
    <3>3. Memory'
      BY <1>0, <3>1, <3>2 DEF Memory, Executing
    <3> QED
      BY <3>1, <3>2, <3>3, SessionIdle DEF Executing
  <2>2. CASE ~ExecutingDiscussion(t)
    <3> DEFINE x == [task[t] EXCEPT !.disc = "Blocked"]
    <3>1. /\ SaveFusion(t, x) /\ x = [f \in TaskFields |-> x[f]]
          /\ x.session = task[t].session /\ x.life = task[t].life /\ task[t].disc = "Queued"
          /\ bound' = bound /\ worker' = worker /\ queue' = queue
      BY <1>0, <1>3, <2>2 DEF StopDiscussion, TaskFields
    <3>2. x.life # "Absent"
      BY <3>1 DEF SessionInv, Sessioned
    <3> HIDE DEF x
    <3> QED
      BY <1>m, <3>1, <3>2, SessionSaved
  <2> QED
    BY <2>1, <2>2
<1>4. CASE FreezeReady(t)
  <2> DEFINE x == [task[t] EXCEPT !.life = "Ready",
                      !.frozen = [ver |-> @.ver + 1, session |-> task[t].session,
                                  profile |-> profile, stamp |-> bound[t].stamp]]
  <2>1. SaveFusion(t, x) /\ bound' = bound /\ worker' = worker /\ queue' = queue
    BY <1>4 DEF FreezeReady
  <2>2. /\ x = [f \in TaskFields |-> x[f]]
        /\ x.session = task[t].session /\ x.life # "Absent"
    BY <1>0 DEF TaskFields
  <2> HIDE DEF x
  <2> QED
    BY <1>m, <2>1, <2>2, SessionSaved
<1>5. CASE ReturnToDiscussion(t)
  <2> DEFINE x == [task[t] EXCEPT !.life = "Discussing", !.disc = "NeedsDiscussion"]
  <2>1. SaveFusion(t, x) /\ bound' = bound /\ worker' = worker /\ queue' = queue
    BY <1>5 DEF ReturnToDiscussion
  <2>2. /\ x = [f \in TaskFields |-> x[f]]
        /\ x.session = task[t].session /\ x.life # "Absent"
    BY <1>0 DEF TaskFields
  <2> HIDE DEF x
  <2> QED
    BY <1>m, <2>1, <2>2, SessionSaved
<1>6. CASE RequestRun(t)
  <2>1. Memory'
    BY <1>0, <1>6, MemoryAdd DEF RequestRun, RunItem
  <2> QED
    BY <1>6, <2>1, SessionIdle DEF RequestRun, Executing
<1>7. ASSUME NEW accept \in BOOLEAN, OwnerAcceptance(t, accept) PROVE SessionInv' /\ Keeps
  <2> DEFINE x == IF accept THEN [task[t] EXCEPT !.life = "Done"]
                  ELSE [task[t] EXCEPT !.life = "Discussing", !.disc = "NeedsDiscussion"]
  <2>1. SaveFusion(t, x) /\ bound' = bound /\ worker' = worker /\ queue' = queue
    BY <1>7 DEF OwnerAcceptance
  <2>2. /\ x = [f \in TaskFields |-> x[f]]
        /\ x.session = task[t].session /\ x.life # "Absent"
    BY <1>0 DEF TaskFields
  <2> HIDE DEF x
  <2> QED
    BY <1>m, <2>1, <2>2, SessionSaved
<1> QED
  BY <1>1, <1>2, <1>3, <1>4, <1>5, <1>6, <1>7

LEMMA SessionRunRequests ==
    ASSUME SessionInv, NEW r \in DOMAIN runs,
           \/ RequestResume(r) \/ CancelStored(r)
           \/ \E pause \in BOOLEAN : StopExecuting(r, pause)
           \/ \E approved \in BOOLEAN : RequestApproval(r, approved)
    PROVE  SessionInv' /\ Keeps
<1>0. Memory /\ worker = [f \in Fields |-> worker[f]]
  BY DEF SessionInv, Memory
<1>1. CASE RequestResume(r)
  <2>1. Memory'
    BY <1>0, <1>1, MemoryAdd DEF RequestResume, RunItem
  <2> QED
    BY <1>1, <2>1, SessionIdle DEF RequestResume, Executing
<1>2. CASE CancelStored(r)
  <2>1. task' = task /\ bound' = bound /\ queue' = queue /\ worker' = worker
    BY <1>2 DEF CancelStored
  <2>2. Memory'
    BY <1>0, <2>1 DEF Memory, Executing
  <2> QED
    BY <2>1, <2>2, SessionIdle DEF Executing
<1>3. ASSUME NEW pause \in BOOLEAN, StopExecuting(r, pause) PROVE SessionInv' /\ Keeps
  <2> DEFINE stop == IF pause THEN "pause" ELSE "cancel"
  <2>1. /\ worker' = [worker EXCEPT !.stop = stop]
        /\ task' = task /\ bound' = bound /\ queue' = queue
    BY <1>3 DEF StopExecuting
  <2>2. /\ worker' = [f \in Fields |-> worker'[f]]
        /\ worker'.pc = worker.pc /\ worker'.item = worker.item
    BY <1>0, <2>1 DEF Fields
  <2>3. Memory'
    BY <1>0, <2>1, <2>2 DEF Memory, Executing
  <2> QED
    BY <2>1, <2>2, <2>3, SessionIdle DEF Executing
<1>4. ASSUME NEW approved \in BOOLEAN, RequestApproval(r, approved) PROVE SessionInv' /\ Keeps
  <2>1. Memory'
    BY <1>0, <1>4, MemoryAdd DEF RequestApproval, Decision
  <2> QED
    BY <1>4, <2>1, SessionIdle DEF RequestApproval, Executing
<1> QED
  BY <1>1, <1>2, <1>3, <1>4

\* The checkpoint of the discussion in progress is written.
LEMMA SessionBound ==
    ASSUME SessionInv, NEW t \in Tasks, NEW y, NEW pc \in {"asking", "answered"},
           Executing({"discuss"}), worker.item.task = t,
           bound' = [bound EXCEPT ![t] = y], y = [f \in BoundFields |-> y[f]],
           bound[t].session # None => y.session = bound[t].session,
           task[t].session \in {None, y.session},
           task' = task, queue' = queue, worker' = [worker EXCEPT !.pc = pc]
    PROVE  SessionInv' /\ Keeps
<1>0. /\ Tables /\ Memory /\ Sessioned
      /\ worker = [f \in Fields |-> worker[f]] /\ bound = [u \in Tasks |-> bound[u]]
  BY DEF SessionInv, Memory, Tables
<1>1. /\ bound' = [u \in Tasks |-> bound'[u]] /\ bound'[t] = y
      /\ \A u \in Tasks : u # t => bound'[u] = bound[u]
  BY <1>0
<1>2. /\ worker' = [f \in Fields |-> worker'[f]]
      /\ worker'.item = worker.item /\ worker'.pc = pc
  BY <1>0 DEF Fields
<1>3. Tables'
  BY <1>0, <1>1 DEF Tables
<1>4. Memory'
  BY <1>0, <1>2 DEF Memory, Executing
<1>5. Sessioned'
  BY <1>0, <1>1, <1>2 DEF Sessioned, Executing
<1>6. Keeps
  BY <1>1 DEF Keeps
<1> QED
  BY <1>3, <1>4, <1>5, <1>6 DEF SessionInv

\* The discussion in progress ends.
LEMMA SessionEnds ==
    ASSUME SessionInv, NEW t \in Tasks, NEW x,
           Executing({"discuss"}), worker.item.task = t,
           SaveFusion(t, x), x = [f \in TaskFields |-> x[f]], x.life = task[t].life,
           x.session \in {task[t].session, bound[t].session},
           x.session = None => bound[t].session = None,
           bound' = bound, queue' = queue, worker' = Resting
    PROVE  SessionInv' /\ Keeps
<1>0. Tables /\ Memory /\ Sessioned
  BY DEF SessionInv
<1>1. /\ task'[t] = x
      /\ \A u \in Tasks : u # t => task'[u] = task[u]
      /\ task' = [u \in Tasks |-> task'[u]]
      /\ \A u \in Tasks : task'[u] = [f \in TaskFields |-> task'[u][f]]
  BY Saved
<1>2. worker' = [f \in Fields |-> worker'[f]] /\ worker'.pc = "idle"
  BY DEF Resting, Fields
<1>3. Tables'
  BY <1>0, <1>1 DEF Tables
<1>4. Memory'
  BY <1>0, <1>2 DEF Memory, Executing
<1>5. x.life # "Absent"
  BY <1>0 DEF Sessioned
<1>6. Sessioned'
  BY <1>0, <1>1, <1>2, <1>5 DEF Sessioned, Executing
<1>7. Keeps
  BY <1>0, <1>1 DEF Keeps, Sessioned
<1> QED
  BY <1>3, <1>4, <1>6, <1>7 DEF SessionInv

\* The worker's discussions.
LEMMA SessionDiscussions ==
    ASSUME SessionInv,
           \/ TakeDiscussion \/ BindDiscussion \/ DiscussionSucceeds \/ DiscussionFails
           \/ \E s \in Sessions : ObserveSession(s)
    PROVE  SessionInv' /\ Keeps
<1>0. /\ Tables /\ Memory /\ Sessioned
      /\ worker = [f \in Fields |-> worker[f]]
      /\ \A t \in Tasks : task[t] = [f \in TaskFields |-> task[t][f]]
      /\ bound = [t \in Tasks |-> bound[t]]
      /\ \A t \in Tasks : bound[t] = [f \in BoundFields |-> bound[t][f]]
  BY DEF SessionInv, Memory, Tables
<1>r. Resting = [f \in Fields |-> Resting[f]] /\ Resting.pc = "idle"
  BY DEF Resting, Fields
<1>1. CASE TakeDiscussion
  <2> DEFINE t == Head(queue).task
  <2>1. /\ IsSequence(queue')
        /\ \A k \in 1..Len(queue') : queue'[k].kind = "discuss" => queue'[k].task \in Tasks
        /\ t \in Tasks
    BY <1>0, <1>1, MemoryTake DEF TakeDiscussion
  <2>2. CASE task[t].disc # "Queued"
    <3>1. task' = task /\ worker' = worker /\ bound' = bound
      BY <1>1, <2>2 DEF TakeDiscussion
    <3>2. Memory'
      BY <1>0, <2>1, <3>1 DEF Memory, Executing
    <3> QED
      BY <3>1, <3>2, SessionIdle DEF Executing
  <2>3. CASE task[t].disc = "Queued"
    <3> DEFINE x == [task[t] EXCEPT !.disc = "Running"]
    <3>1. /\ SaveFusion(t, x) /\ x = [f \in TaskFields |-> x[f]]
          /\ x.session = task[t].session /\ x.life = task[t].life
          /\ bound' = bound
      BY <1>0, <1>1, <2>1, <2>3 DEF TakeDiscussion, TaskFields
    <3>2. worker' = [Resting EXCEPT !.pc = "preparing", !.item = Head(queue)]
      BY <1>1, <2>3 DEF TakeDiscussion
    <3>3. /\ worker' = [f \in Fields |-> worker'[f]]
          /\ worker'.item = Head(queue) /\ worker'.pc = "preparing"
      BY <3>2 DEF Resting, Fields
    <3>4. x.life # "Absent"
      BY <1>0, <2>1, <2>3, <3>1 DEF Sessioned
    <3> HIDE DEF x
    <3>5. /\ task'[t] = x
          /\ \A u \in Tasks : u # t => task'[u] = task[u]
          /\ task' = [u \in Tasks |-> task'[u]]
          /\ \A u \in Tasks : task'[u] = [f \in TaskFields |-> task'[u][f]]
      BY <2>1, <3>1, Saved
    <3>6. Memory'
      BY <2>1, <3>3 DEF Memory, Executing
    <3>7. Tables'
      BY <1>0, <3>1, <3>5 DEF Tables
    <3>8. Sessioned'
      BY <1>0, <2>1, <3>1, <3>3, <3>4, <3>5 DEF Sessioned, Executing
    <3>9. Keeps
      BY <3>1, <3>5 DEF Keeps
    <3> QED
      BY <3>6, <3>7, <3>8, <3>9 DEF SessionInv
  <2> QED
    BY <2>2, <2>3
<1>2. CASE BindDiscussion
  <2> DEFINE t == worker.item.task
             y == [session |-> IF task[t].session # None THEN task[t].session
                               ELSE bound[t].session,
                   profile |-> profile, stamp |-> stamp]
  <2>1. Executing({"discuss"}) /\ t \in Tasks
    BY <1>0, <1>2 DEF BindDiscussion, Working, Executing, Memory
  <2>2. /\ bound' = [bound EXCEPT ![t] = y] /\ task' = task /\ queue' = queue
        /\ worker' = [worker EXCEPT !.pc = "asking"]
    BY <1>0, <1>2, <2>1 DEF BindDiscussion
  <2>3. /\ y = [f \in BoundFields |-> y[f]]
        /\ bound[t].session # None => y.session = bound[t].session
        /\ task[t].session \in {None, y.session}
    BY <1>0, <2>1 DEF BoundFields, Sessioned
  <2> HIDE DEF y
  <2> QED
    BY <2>1, <2>2, <2>3, SessionBound
<1>3. ASSUME NEW s \in Sessions, ObserveSession(s) PROVE SessionInv' /\ Keeps
  <2> DEFINE t == worker.item.task
             y == [bound[t] EXCEPT !.session = s]
  <2>1. Executing({"discuss"}) /\ t \in Tasks
    BY <1>0, <1>3 DEF ObserveSession, Working, Executing, Memory
  <2>2. /\ bound' = [bound EXCEPT ![t] = y] /\ task' = task /\ queue' = queue
        /\ worker' = [worker EXCEPT !.pc = "answered"] /\ bound[t].session \in {None, s}
    BY <1>3 DEF ObserveSession
  <2>3. y = [f \in BoundFields |-> y[f]] /\ y.session = s
    BY <1>0, <2>1 DEF BoundFields
  <2>4. task[t].session \in {None, s}
    BY <1>0, <2>1, <2>2 DEF Sessioned
  <2> HIDE DEF y
  <2> QED
    BY <2>1, <2>2, <2>3, <2>4, SessionBound
<1>4. CASE DiscussionSucceeds
  <2> DEFINE t == worker.item.task
             x == [task[t] EXCEPT !.session = bound[t].session, !.disc = "Idle", !.spoken = TRUE]
  <2>1. Executing({"discuss"}) /\ t \in Tasks
    BY <1>0, <1>4 DEF DiscussionSucceeds, Working, Executing, Memory
  <2>2. /\ SaveFusion(t, x) /\ bound' = bound /\ queue' = queue /\ worker' = Resting
        /\ bound[t].session # None
    BY <1>4 DEF DiscussionSucceeds
  <2>3. /\ x = [f \in TaskFields |-> x[f]] /\ x.life = task[t].life
        /\ x.session = bound[t].session
    BY <1>0, <2>1 DEF TaskFields
  <2> HIDE DEF x
  <2> QED
    BY <2>1, <2>2, <2>3, SessionEnds
<1>5. CASE DiscussionFails
  <2> DEFINE t == worker.item.task
             x == [task[t] EXCEPT !.session = KnownSession(t), !.disc = "Blocked"]
  <2>1. Executing({"discuss"}) /\ t \in Tasks
    BY <1>0, <1>5 DEF DiscussionFails, Executing, Memory
  <2>2. SaveFusion(t, x) /\ bound' = bound /\ queue' = queue /\ worker' = Resting
    BY <1>5 DEF DiscussionFails
  <2>3. /\ x = [f \in TaskFields |-> x[f]] /\ x.life = task[t].life
        /\ x.session = KnownSession(t)
    BY <1>0, <2>1 DEF TaskFields
  <2>4. /\ x.session \in {task[t].session, bound[t].session}
        /\ x.session = None => bound[t].session = None
    BY <2>3 DEF KnownSession
  <2> HIDE DEF x
  <2> QED
    BY <2>1, <2>2, <2>3, <2>4, SessionEnds
<1> QED
  BY <1>1, <1>2, <1>3, <1>4, <1>5

\* The worker's runs and decisions.
LEMMA SessionRuns ==
    ASSUME SessionInv,
           \/ TakeRun \/ Prepared \/ NotPrepared \/ EventThrows \/ CallThrows \/ FileTicket
           \/ TakeDecision
           \/ \E state \in {"Completed", "Waiting", "Failed", "Blocked", "Paused", "Cancelled"} :
                 RunEnds(state)
    PROVE  SessionInv' /\ Keeps
<1>0. Memory /\ worker = [f \in Fields |-> worker[f]]
  BY DEF SessionInv, Memory
<1>r. Resting = [f \in Fields |-> Resting[f]] /\ Resting.pc = "idle"
  BY DEF Resting, Fields
<1>1. CASE TakeRun \/ TakeDecision
  <2>1. /\ IsSequence(queue')
        /\ \A k \in 1..Len(queue') : queue'[k].kind = "discuss" => queue'[k].task \in Tasks
    BY <1>0, <1>1, MemoryTake DEF TakeRun, TakeDecision
  <2>2. /\ task' = task /\ bound' = bound
        /\ worker.pc = "idle" /\ Head(queue).kind # "discuss"
        /\ \/ worker' = worker
           \/ \E pc : worker' = [Resting EXCEPT !.pc = pc, !.item = Head(queue)]
    BY <1>1 DEF TakeRun, TakeDecision, Taken
  <2>3. worker' = [f \in Fields |-> worker'[f]] /\ ~Executing({"discuss"})'
    BY <1>0, <2>2 DEF Fields, Resting, Executing
  <2>4. Memory'
    BY <2>1, <2>3 DEF Memory, Executing
  <2> QED
    BY <2>2, <2>3, <2>4, SessionIdle
<1>2. CASE Prepared
  <2> DEFINE u == runs[worker.item.run].task
  <2>1. /\ worker' = [worker EXCEPT !.pc = "calling"] /\ bound' = bound /\ queue' = queue
        /\ task' \in {task, [task EXCEPT ![u].life = "Active"]}
        /\ worker.item.kind # "discuss"
    BY <1>2 DEF Prepared, Working
  <2>2. worker' = [f \in Fields |-> worker'[f]] /\ ~Executing({"discuss"})'
    BY <1>0, <2>1 DEF Fields, Executing
  <2> QED
    BY <2>1, <2>2, SessionRun
<1>3. CASE NotPrepared
  <2> DEFINE u == runs[worker.item.run].task
  <2>1. /\ worker' = Resting /\ bound' = bound /\ queue' = queue
        /\ task' \in {task, [task EXCEPT ![u].life = "Active"]}
    BY <1>3 DEF NotPrepared
  <2>2. worker' = [f \in Fields |-> worker'[f]] /\ ~Executing({"discuss"})'
    BY <1>r, <2>1 DEF Executing
  <2> QED
    BY <2>1, <2>2, SessionRun
<1>4. ASSUME NEW state \in {"Completed", "Waiting", "Failed", "Blocked", "Paused", "Cancelled"},
             RunEnds(state)
      PROVE  SessionInv' /\ Keeps
  <2> DEFINE u == runs[worker.item.run].task
  <2>1. /\ worker' = [worker EXCEPT !.pc = "file", !.seen = state]
        /\ bound' = bound /\ queue' = queue
        /\ task' \in {task, [task EXCEPT ![u].life = "AwaitingAcceptance"]}
        /\ worker.pc = "calling"
    BY <1>4 DEF RunEnds
  <2>2. worker' = [f \in Fields |-> worker'[f]] /\ ~Executing({"discuss"})'
    BY <1>0, <2>1 DEF Fields, Executing, Memory
  <2> QED
    BY <2>1, <2>2, SessionRun
<1>5. CASE FileTicket \/ CallThrows
  <2>1. worker' = Resting /\ bound' = bound /\ queue' = queue /\ task' = task
    BY <1>5 DEF FileTicket, CallThrows
  <2>2. worker' = [f \in Fields |-> worker'[f]] /\ ~Executing({"discuss"})'
    BY <1>r, <2>1 DEF Executing
  <2>3. Memory'
    BY <1>0, <2>1, <2>2 DEF Memory, Executing
  <2> QED
    BY <2>1, <2>2, <2>3, SessionIdle
<1>6. CASE EventThrows
  <2>1. /\ worker' = [worker EXCEPT !.seen = "Failed"] /\ worker.pc = "file"
        /\ bound' = bound /\ queue' = queue /\ task' = task
    BY <1>6 DEF EventThrows
  <2>2. worker' = [f \in Fields |-> worker'[f]] /\ ~Executing({"discuss"})'
    BY <1>0, <2>1 DEF Fields, Executing, Memory
  <2>3. Memory'
    BY <1>0, <2>1, <2>2 DEF Memory, Executing, Fields
  <2> QED
    BY <2>1, <2>2, <2>3, SessionIdle
<1> QED
  BY <1>1, <1>2, <1>3, <1>4, <1>5, <1>6

\* Recovery takes the session a checkpoint knows.
LEMMA SessionRestart == ASSUME SessionInv, Restart PROVE SessionInv' /\ Keeps
<1>0. Tables /\ Memory /\ Sessioned
  BY DEF SessionInv
<1>1. /\ task' = [t \in Tasks |-> RecoverDiscussion(t)] /\ bound' = bound
      /\ queue' = <<>> /\ worker' = Resting
  BY DEF Restart
<1>2. \A t \in Tasks :
          /\ task'[t] = [f \in TaskFields |-> task'[t][f]]
          /\ task'[t].life = task[t].life
          /\ \/ task'[t].session = task[t].session /\ task'[t].disc = task[t].disc
             \/ task[t].disc # "Idle" /\ task'[t].session = KnownSession(t)
  <2> SUFFICES ASSUME NEW t \in Tasks
               PROVE  /\ task'[t] = [f \in TaskFields |-> task'[t][f]]
                      /\ task'[t].life = task[t].life
                      /\ \/ task'[t].session = task[t].session /\ task'[t].disc = task[t].disc
                         \/ task[t].disc # "Idle" /\ task'[t].session = KnownSession(t)
    OBVIOUS
  <2>1. task'[t] = RecoverDiscussion(t) /\ task[t] = [f \in TaskFields |-> task[t][f]]
    BY <1>0, <1>1 DEF Tables
  <2>2. CASE task[t].disc \in {"Queued", "Running"}
    <3>1. task'[t] = [task[t] EXCEPT !.disc = "Blocked", !.session = KnownSession(t)]
      BY <2>1, <2>2 DEF RecoverDiscussion
    <3> QED
      BY <2>1, <2>2, <3>1 DEF TaskFields
  <2>3. CASE task[t].disc \notin {"Queued", "Running"}
    <3>1. task'[t] = task[t]
      BY <2>1, <2>3 DEF RecoverDiscussion
    <3> QED
      BY <2>1, <3>1
  <2> QED
    BY <2>2, <2>3
<1>3. worker' = [f \in Fields |-> worker'[f]] /\ ~Executing({"discuss"})'
  BY <1>1 DEF Resting, Fields, Executing
<1>4. Tables'
  BY <1>0, <1>1, <1>2 DEF Tables
<1>5. Memory'
  BY <1>1, <1>3, Empty DEF Memory, Executing
<1>6. \A t \in Tasks : KnownSession(t) = bound[t].session
  BY <1>0 DEF KnownSession, Sessioned
<1>7. Sessioned'
  BY <1>0, <1>1, <1>2, <1>3, <1>6 DEF Sessioned
<1>8. Keeps
  BY <1>1, <1>2, <1>6 DEF Keeps
<1> QED
  BY <1>4, <1>5, <1>7, <1>8 DEF SessionInv

LEMMA SessionStep == ASSUME SessionInv, [Next]_vars PROVE SessionInv' /\ (Keeps \/ UNCHANGED vars)
<1>1. CASE UNCHANGED vars
  BY <1>1 DEF vars, SessionInv, Tables, Memory, Sessioned, Executing
<1>2. CASE SaveProject \/ ChangeStamp
  <2>1. task' = task /\ bound' = bound /\ queue' = queue /\ worker' = worker
    BY <1>2 DEF SaveProject, ChangeStamp
  <2>2. Memory'
    BY <2>1 DEF SessionInv, Memory, Executing
  <2> QED
    BY <2>1, <2>2, SessionIdle DEF Executing
<1>3. CASE Process
  BY <1>3, SessionDiscussions, SessionRuns DEF Process
<1> QED
  BY <1>1, <1>2, <1>3, SessionRequests, SessionRunRequests, SessionRestart DEF Next

\* Once a native session is bound to a task, discussion, crash and recovery keep it, for
\* any number of tasks, sessions, queued items and restarts.
THEOREM SessionsStay == Spec => OneSession
<1>1. SessionInv /\ [Next]_vars =>
        [\A t \in Tasks : bound[t].session # None =>
            /\ bound'[t].session = bound[t].session
            /\ task'[t].session \in {task[t].session, bound[t].session}]_vars
  BY SessionStep DEF Keeps
<1>2. SessionInv /\ [Next]_vars => SessionInv'
  BY SessionStep
<1> QED
  BY <1>1, <1>2, SessionInit, PTL DEF Spec, OneSession

(***************************************************************************)
(* One thing at a time.  A request asks whether the project is busy under  *)
(* the service's lock; the worker and the coordinator's call go on with    *)
(* what was asked for without asking again, while it may be cancelled.     *)
(***************************************************************************)
OfRuns == {"run", "resume", "decision"}

RunTable ==
    /\ IsSequence(runs)
    /\ \A r \in DOMAIN runs : runs[r] = [f \in RunFields |-> runs[r][f]]

\* A run is asked for once, by the one item that finds it in no state.
Queued ==
    /\ \A k \in 1..Len(queue) : queue[k].kind \in OfRuns => queue[k].run \in DOMAIN runs
    /\ \A k \in 1..Len(queue) : queue[k].kind = "run" =>
          /\ runs[queue[k].run].state = "None"
          /\ ~(Executing({"run"}) /\ worker.item.run = queue[k].run)
    /\ \A k \in 1..Len(queue) : queue[k].kind = "resume" => runs[queue[k].run].state # "None"
    /\ \A k, j \in 1..Len(queue) :
          queue[k].kind = "run" /\ queue[j].kind = "run" /\ k # j => queue[k].run # queue[j].run

\* What the worker is about to start or goes on with is busy already, or was cancelled.
AtWork ==
    /\ Executing(OfRuns) => worker.item.run \in DOMAIN runs
    /\ worker.pc = "preparing" /\ worker.item.kind = "run" =>
          runs[worker.item.run].state = "None" /\ runs[worker.item.run].ticket = "Running"
    /\ worker.pc = "preparing" /\ worker.item.kind = "resume" =>
          /\ runs[worker.item.run].state # "None"
          /\ runs[worker.item.run].state \in {"Paused", "Blocked"} =>
                runs[worker.item.run].ticket = "Running"
    /\ worker.pc \in {"calling", "file"} => worker.item.kind \in OfRuns
    /\ worker.pc = "calling" => runs[worker.item.run].state = "Running"
    /\ worker.pc = "file" => runs[worker.item.run].state # "None"

Single ==
    /\ \A t, u \in BusyDiscussions : t = u
    /\ \A r, q \in BusyRuns : r = q
    /\ BusyDiscussions = {} \/ BusyRuns = {}

LEMMA SingleIsOne == Single => OneAtATime
<1> SUFFICES ASSUME Single PROVE OneAtATime
  OBVIOUS
<1>1. ASSUME NEW S, \A x, y \in S : x = y
      PROVE  Cardinality(S) = 0 \/ Cardinality(S) = 1
  <2>1. CASE S = {}
    BY <2>1, FS_EmptySet
  <2>2. CASE S # {}
    <3>1. PICK x : x \in S
      BY <2>2
    <3>2. S = {x}
      BY <1>1, <3>1
    <3> QED
      BY <3>2, FS_Singleton
  <2> QED
    BY <2>1, <2>2
<1>2. Cardinality({}) = 0
  BY FS_EmptySet
<1> HIDE DEF BusyDiscussions, BusyRuns
<1>3. /\ Cardinality(BusyDiscussions) = 0 \/ Cardinality(BusyDiscussions) = 1
      /\ Cardinality(BusyRuns) = 0 \/ Cardinality(BusyRuns) = 1
  BY <1>1 DEF Single
<1>4. Cardinality(BusyDiscussions) = 0 \/ Cardinality(BusyRuns) = 0
  BY <1>2 DEF Single
<1> QED
  BY <1>3, <1>4 DEF OneAtATime

\* Nothing becomes busy that was not, or one thing while nothing is.
LEMMA Fewer ==
    ASSUME Single, BusyDiscussions' \subseteq BusyDiscussions, BusyRuns' \subseteq BusyRuns
    PROVE  Single'
  BY DEF Single

LEMMA FirstDiscussion ==
    ASSUME ~ProjectBusy, NEW t, BusyDiscussions' \subseteq {t}, BusyRuns' \subseteq BusyRuns
    PROVE  Single'
  BY DEF Single, ProjectBusy

LEMMA FirstRun ==
    ASSUME ~ProjectBusy, NEW r, BusyDiscussions' \subseteq BusyDiscussions, BusyRuns' \subseteq {r}
    PROVE  Single'
  BY DEF Single, ProjectBusy

\* One run is written.
LEMMA Changed ==
    ASSUME RunTable, NEW r, NEW x, r \in DOMAIN runs => x = [f \in RunFields |-> x[f]],
           runs' = [runs EXCEPT ![r] = x]
    PROVE  /\ RunTable'
           /\ DOMAIN runs' = DOMAIN runs
           /\ r \in DOMAIN runs => runs'[r] = x
           /\ \A q \in DOMAIN runs : q # r => runs'[q] = runs[q]
<1>0. runs = [q \in DOMAIN runs |-> runs[q]]
  BY DEF RunTable, IsSequence
<1>1. /\ runs' = [q \in DOMAIN runs |-> runs'[q]]
      /\ r \in DOMAIN runs => runs'[r] = x
      /\ \A q \in DOMAIN runs : q # r => runs'[q] = runs[q]
  BY <1>0
<1>2. IsSequence(runs)
  BY DEF RunTable
<1>3. IsSequence(runs') /\ DOMAIN runs' = DOMAIN runs
  BY ONLY <1>1, <1>2, SameIndices
<1> QED
  BY <1>1, <1>3 DEF RunTable

LEMMA QueuedAdd ==
    ASSUME Queued, IsSequence(queue), NEW e, queue' = Append(queue, e), worker' = worker,
           \A r \in DOMAIN runs : r \in DOMAIN runs' /\ runs'[r].state = runs[r].state,
           e.kind \in OfRuns => e.run \in DOMAIN runs',
           e.kind = "run" => /\ e.run \notin DOMAIN runs /\ runs'[e.run].state = "None"
                             /\ ~(Executing({"run"}) /\ worker.item.run = e.run),
           e.kind = "resume" => runs'[e.run].state # "None"
    PROVE  Queued'
<1>1. /\ Len(queue) \in Nat /\ Len(queue') = Len(queue) + 1
      /\ queue'[Len(queue) + 1] = e
      /\ \A i \in 1..Len(queue) : queue'[i] = queue[i]
  BY ONLY IsSequence(queue), queue' = Append(queue, e), Appended
<1>2. \A k \in 1..Len(queue') :
          \/ k \in 1..Len(queue) /\ queue'[k] = queue[k]
          \/ k = Len(queue) + 1 /\ queue'[k] = e
  BY <1>1
<1>3. ASSUME NEW k \in 1..Len(queue'), queue'[k].kind \in OfRuns
      PROVE  queue'[k].run \in DOMAIN runs'
  <2>1. CASE k \in 1..Len(queue) /\ queue'[k] = queue[k]
    BY <1>3, <2>1 DEF Queued
  <2>2. CASE queue'[k] = e
    BY <1>3, <2>2
  <2> QED
    BY <1>2, <2>1, <2>2
<1>4. \A k \in 1..Len(queue') : queue'[k].kind = "run" =>
          /\ runs'[queue'[k].run].state = "None"
          /\ ~(Executing({"run"})' /\ worker'.item.run = queue'[k].run)
  BY <1>2 DEF Queued, Executing, OfRuns
<1>5. \A k \in 1..Len(queue') : queue'[k].kind = "resume" => runs'[queue'[k].run].state # "None"
  BY <1>2 DEF Queued, OfRuns
<1>6. \A k \in 1..Len(queue) : queue[k].kind = "run" => queue[k].run \in DOMAIN runs
  BY DEF Queued, OfRuns
<1>7. \A k, j \in 1..Len(queue') :
          queue'[k].kind = "run" /\ queue'[j].kind = "run" /\ k # j => queue'[k].run # queue'[j].run
  BY <1>2, <1>6 DEF Queued
<1> QED
  BY <1>3, <1>4, <1>5, <1>7 DEF Queued

LEMMA QueuedTake ==
    ASSUME Queued, IsSequence(queue), Taken, DOMAIN runs' = DOMAIN runs,
           \A r \in DOMAIN runs : runs'[r].state = "None" <=> runs[r].state = "None",
           Executing({"run"})' => worker'.item = Head(queue)
    PROVE  /\ Queued'
           /\ Head(queue).kind \in OfRuns => Head(queue).run \in DOMAIN runs
           /\ Head(queue).kind = "run" => runs[Head(queue).run].state = "None"
           /\ Head(queue).kind = "resume" => runs[Head(queue).run].state # "None"
<1>1. queue # <<>> /\ queue' = Tail(queue)
  BY DEF Taken
<1>2. /\ Len(queue) \in Nat /\ 1 \in 1..Len(queue) /\ Head(queue) = queue[1]
      /\ Len(queue') = Len(queue) - 1
      /\ \A i \in 1..(Len(queue) - 1) : queue'[i] = queue[i + 1] /\ i + 1 \in 1..Len(queue)
  BY ONLY IsSequence(queue), <1>1, Tailed
<1>3. \A k \in 1..Len(queue') : queue'[k] = queue[k + 1] /\ k + 1 \in 1..Len(queue) /\ k + 1 # 1
  BY <1>2
<1>4. \A k \in 1..Len(queue') : queue'[k].kind \in OfRuns => queue'[k].run \in DOMAIN runs'
  BY <1>3 DEF Queued
<1>5. \A k \in 1..Len(queue') : queue'[k].kind = "run" =>
          /\ runs'[queue'[k].run].state = "None"
          /\ queue[1].kind = "run" => queue[1].run # queue'[k].run
  BY <1>2, <1>3 DEF Queued, OfRuns
<1>6. \A k \in 1..Len(queue') : queue'[k].kind = "run" =>
          ~(Executing({"run"})' /\ worker'.item.run = queue'[k].run)
  BY <1>2, <1>5 DEF Executing
<1>7. \A k \in 1..Len(queue') : queue'[k].kind = "resume" => runs'[queue'[k].run].state # "None"
  BY <1>3 DEF Queued, OfRuns
<1>8. \A k, j \in 1..Len(queue') :
          queue'[k].kind = "run" /\ queue'[j].kind = "run" /\ k # j => queue'[k].run # queue'[j].run
  <2> SUFFICES ASSUME NEW k \in 1..Len(queue'), NEW j \in 1..Len(queue'), k # j,
                      queue'[k].kind = "run", queue'[j].kind = "run"
               PROVE  queue'[k].run # queue'[j].run
    OBVIOUS
  <2>1. k + 1 # j + 1
    BY <1>2
  <2> QED
    BY <1>3, <2>1 DEF Queued
<1>9. Queued'
  BY <1>4, <1>5, <1>6, <1>7, <1>8 DEF Queued
<1> QED
  BY <1>2, <1>9 DEF Queued

\* The queue stays, and a run that gets a state is the worker's.
LEMMA QueuedStay ==
    ASSUME Queued, queue' = queue, DOMAIN runs' = DOMAIN runs,
           \A r \in DOMAIN runs :
              /\ runs[r].state # "None" => runs'[r].state # "None"
              /\ runs[r].state = "None" /\ runs'[r].state # "None" =>
                    Executing({"run"}) /\ worker.item.run = r,
           Executing({"run"})' => Executing({"run"}) /\ worker'.item = worker.item
    PROVE  Queued'
<1>1. \A k \in 1..Len(queue) : queue[k].kind = "run" =>
          runs'[queue[k].run].state = "None"
  BY DEF Queued, OfRuns
<1>2. \A k \in 1..Len(queue) : queue[k].kind = "resume" => runs'[queue[k].run].state # "None"
  BY DEF Queued, OfRuns
<1> QED
  BY <1>1, <1>2 DEF Queued

RunInv == SessionInv /\ RunTable /\ Queued /\ AtWork /\ Single

LEMMA RunInit == Init => RunInv
<1> SUFFICES ASSUME Init PROVE RunInv
  OBVIOUS
<1>1. task = [t \in Tasks |-> NoTask] /\ runs = <<>> /\ queue = <<>> /\ worker = Resting
  BY DEF Init
<1>2. BusyDiscussions = {} /\ BusyRuns = {}
  BY <1>1, Empty DEF BusyDiscussions, BusyRuns, NoTask
<1>3. Single
  BY <1>2 DEF Single
<1>4. RunTable /\ Queued /\ AtWork
  BY <1>1, Empty DEF RunTable, Queued, AtWork, Resting, Executing
<1> QED
  BY <1>3, <1>4, SessionInit DEF RunInv

Busy(record) == record.ticket \in {"Queued", "Running"} \/ record.state \in Active

\* A run that is written, with what may make it busy.
LEMMA BusyChanged ==
    ASSUME RunTable, NEW r \in DOMAIN runs, NEW x, x = [f \in RunFields |-> x[f]],
           runs' = [runs EXCEPT ![r] = x]
    PROVE  /\ Busy(x) => BusyRuns' \subseteq BusyRuns \cup {r}
           /\ ~Busy(x) \/ Busy(runs[r]) => BusyRuns' \subseteq BusyRuns
<1>1. /\ DOMAIN runs' = DOMAIN runs
      /\ runs'[r] = x
      /\ \A q \in DOMAIN runs : q # r => runs'[q] = runs[q]
  BY Changed
<1> QED
  BY <1>1 DEF BusyRuns, Busy

LEMMA AtWorkStays ==
    ASSUME AtWork, worker'.pc = worker.pc, worker'.item = worker.item,
           \A r \in DOMAIN runs :
              /\ r \in DOMAIN runs'
              /\ runs'[r].state = runs[r].state /\ runs'[r].ticket = runs[r].ticket
    PROVE  AtWork'
<1>1. Executing(OfRuns) => worker.item.run \in DOMAIN runs
  BY DEF AtWork
<1>2. worker.pc \in {"preparing", "calling", "file"} /\ worker.item.kind \in OfRuns => Executing(OfRuns)
  BY DEF Executing
<1> QED
  BY <1>1, <1>2 DEF AtWork, Executing, OfRuns

\* A step that writes a task, but no run.
LEMMA SingleTask ==
    ASSUME RunInv, NEW t \in Tasks, NEW x, SaveFusion(t, x), x = [f \in TaskFields |-> x[f]],
           x.disc \in {"Queued", "Running"} => task[t].disc \in {"Queued", "Running"},
           runs' = runs
    PROVE  RunTable' /\ Single'
<1>1. task'[t] = x /\ \A u \in Tasks : u # t => task'[u] = task[u]
  BY Saved DEF RunInv
<1>2. BusyDiscussions' \subseteq BusyDiscussions
  BY <1>1 DEF BusyDiscussions
<1>3. BusyRuns' \subseteq BusyRuns
  BY DEF BusyRuns
<1>4. Single'
  BY <1>2, <1>3, Fewer DEF RunInv
<1> QED
  BY <1>4 DEF RunInv, RunTable

LEMMA SingleRequests ==
    ASSUME RunInv, NEW t \in Tasks,
           \/ CreateDiscussingTask(t) \/ RequestDiscussion(t) \/ StopDiscussion(t)
           \/ FreezeReady(t) \/ ReturnToDiscussion(t) \/ RequestRun(t)
           \/ \E accept \in BOOLEAN : OwnerAcceptance(t, accept)
    PROVE  RunTable' /\ Queued' /\ AtWork' /\ Single'
<1>0. /\ RunTable /\ Queued /\ AtWork /\ Single /\ IsSequence(queue) /\ IsSequence(runs)
      /\ task[t] = [f \in TaskFields |-> task[t][f]]
      /\ worker = [f \in Fields |-> worker[f]]
  BY DEF RunInv, SessionInv, Tables, Memory, RunTable
<1>q. ASSUME queue' = queue, runs' = runs, worker'.pc = worker.pc, worker'.item = worker.item
      PROVE  Queued' /\ AtWork'
  BY <1>0, <1>q, QueuedStay, AtWorkStays DEF Executing
<1>1. CASE CreateDiscussingTask(t)
  <2> DEFINE x == [NoTask EXCEPT !.life = "Discussing"]
  <2>1. /\ SaveFusion(t, x) /\ queue' = queue /\ runs' = runs /\ worker' = worker
        /\ x = [f \in TaskFields |-> x[f]] /\ x.disc = "Idle"
    BY <1>1 DEF CreateDiscussingTask, NoTask, TaskFields
  <2> HIDE DEF x
  <2> QED
    BY <1>q, <2>1, SingleTask
<1>2. CASE RequestDiscussion(t)
  <2> DEFINE x == [task[t] EXCEPT !.disc = "Queued"]
  <2>1. /\ SaveFusion(t, x) /\ x = [f \in TaskFields |-> x[f]]
        /\ queue' = Append(queue, Discussion(t)) /\ runs' = runs /\ worker' = worker
        /\ ~ProjectBusy
    BY <1>0, <1>2 DEF RequestDiscussion, TaskFields
  <2> HIDE DEF x
  <2>2. \A u \in Tasks : u # t => task'[u] = task[u]
    BY <2>1, Saved DEF RunInv
  <2>3. BusyDiscussions' \subseteq {t} /\ BusyRuns' \subseteq BusyRuns
    BY <2>1, <2>2 DEF ProjectBusy, BusyDiscussions, BusyRuns
  <2>4. Single'
    BY <2>1, <2>3, FirstDiscussion
  <2>5. Queued'
    BY <1>0, <2>1, QueuedAdd DEF Discussion, OfRuns
  <2>6. AtWork'
    BY <1>0, <2>1, AtWorkStays
  <2> QED
    BY <1>0, <2>1, <2>4, <2>5, <2>6 DEF RunTable
<1>3. CASE StopDiscussion(t)
  <2>1. CASE ExecutingDiscussion(t)
    <3>1. /\ worker' = [worker EXCEPT !.stop = "cancel"]
          /\ task' = task /\ queue' = queue /\ runs' = runs
      BY <1>3, <2>1 DEF StopDiscussion
    <3>2. worker'.pc = worker.pc /\ worker'.item = worker.item
      BY <1>0, <3>1 DEF Fields
    <3>3. Single'
      BY <1>0, <3>1, Fewer DEF BusyDiscussions, BusyRuns
    <3> QED
      BY <1>0, <1>q, <3>1, <3>2, <3>3 DEF RunTable
  <2>2. CASE ~ExecutingDiscussion(t)
    <3> DEFINE x == [task[t] EXCEPT !.disc = "Blocked"]
    <3>1. /\ SaveFusion(t, x) /\ x = [f \in TaskFields |-> x[f]] /\ x.disc = "Blocked"
          /\ queue' = queue /\ runs' = runs /\ worker' = worker
      BY <1>0, <1>3, <2>2 DEF StopDiscussion, TaskFields
    <3> HIDE DEF x
    <3> QED
      BY <1>q, <3>1, SingleTask
  <2> QED
    BY <2>1, <2>2
<1>4. CASE FreezeReady(t)
  <2> DEFINE x == [task[t] EXCEPT !.life = "Ready",
                      !.frozen = [ver |-> @.ver + 1, session |-> task[t].session,
                                  profile |-> profile, stamp |-> bound[t].stamp]]
  <2>1. SaveFusion(t, x) /\ queue' = queue /\ runs' = runs /\ worker' = worker
    BY <1>4 DEF FreezeReady
  <2>2. x = [f \in TaskFields |-> x[f]] /\ x.disc = task[t].disc
    BY <1>0 DEF TaskFields
  <2> HIDE DEF x
  <2> QED
    BY <1>q, <2>1, <2>2, SingleTask
<1>5. CASE ReturnToDiscussion(t)
  <2> DEFINE x == [task[t] EXCEPT !.life = "Discussing", !.disc = "NeedsDiscussion"]
  <2>1. SaveFusion(t, x) /\ queue' = queue /\ runs' = runs /\ worker' = worker
    BY <1>5 DEF ReturnToDiscussion
  <2>2. x = [f \in TaskFields |-> x[f]] /\ x.disc = "NeedsDiscussion"
    BY <1>0 DEF TaskFields
  <2> HIDE DEF x
  <2> QED
    BY <1>q, <2>1, <2>2, SingleTask
<1>6. CASE RequestRun(t)
  <2> DEFINE r == Len(runs) + 1
             x == [task |-> t, state |-> "None", ticket |-> "Queued", ready |-> 0,
                   stamp |-> None, supported |-> TRUE, final |-> FALSE, done |-> FALSE]
  <2>1. /\ runs' = Append(runs, x) /\ queue' = Append(queue, RunItem("run", r))
        /\ ~ProjectBusy /\ task' = task /\ worker' = worker
    BY <1>6 DEF RequestRun
  <2>2. x = [f \in RunFields |-> x[f]] /\ x.state = "None"
    BY DEF RunFields
  <2> HIDE DEF x
  <2>3. /\ IsSequence(runs')
        /\ Len(runs) \in Nat /\ DOMAIN runs = 1..Len(runs) /\ DOMAIN runs' = 1..(Len(runs) + 1)
        /\ runs'[r] = x
        /\ \A q \in 1..Len(runs) : runs'[q] = runs[q]
    BY ONLY <1>0, <2>1, Appended
  <2>4. RunTable'
    <3>1. \A q \in DOMAIN runs' : q = r \/ q \in DOMAIN runs
      BY <2>3
    <3> QED
      BY <1>0, <2>2, <2>3, <3>1 DEF RunTable
  <2>5. BusyDiscussions' \subseteq BusyDiscussions /\ BusyRuns' \subseteq {r}
    BY <2>1, <2>3 DEF BusyDiscussions, BusyRuns, ProjectBusy
  <2>6. Single'
    BY <2>1, <2>5, FirstRun
  <2>7. r \in DOMAIN runs' /\ r \notin DOMAIN runs
    BY <2>3
  <2>8. ~(Executing({"run"}) /\ worker.item.run = r)
    BY <1>0, <2>7 DEF AtWork, Executing, OfRuns
  <2>9. \A q \in DOMAIN runs : q \in DOMAIN runs' /\ runs'[q] = runs[q]
    BY <2>3
  <2> HIDE DEF r
  <2>10. RunItem("run", r).kind = "run" /\ RunItem("run", r).run = r
    BY DEF RunItem
  <2>11. Queued'
    BY <1>0, <2>1, <2>2, <2>3, <2>7, <2>8, <2>9, <2>10, QueuedAdd
  <2>12. AtWork'
    BY <1>0, <2>1, <2>9, AtWorkStays
  <2> QED
    BY <2>4, <2>6, <2>11, <2>12
<1>7. ASSUME NEW accept \in BOOLEAN, OwnerAcceptance(t, accept)
      PROVE  RunTable' /\ Queued' /\ AtWork' /\ Single'
  <2> DEFINE x == IF accept THEN [task[t] EXCEPT !.life = "Done"]
                  ELSE [task[t] EXCEPT !.life = "Discussing", !.disc = "NeedsDiscussion"]
  <2>1. SaveFusion(t, x) /\ queue' = queue /\ runs' = runs /\ worker' = worker
    BY <1>7 DEF OwnerAcceptance
  <2>2. x = [f \in TaskFields |-> x[f]] /\ x.disc \in {task[t].disc, "NeedsDiscussion"}
    BY <1>0 DEF TaskFields
  <2> HIDE DEF x
  <2> QED
    BY <1>q, <2>1, <2>2, SingleTask
<1> QED
  BY <1>1, <1>2, <1>3, <1>4, <1>5, <1>6, <1>7

LEMMA SingleRunRequests ==
    ASSUME RunInv, NEW r \in DOMAIN runs,
           \/ RequestResume(r) \/ CancelStored(r)
           \/ \E pause \in BOOLEAN : StopExecuting(r, pause)
           \/ \E approved \in BOOLEAN : RequestApproval(r, approved)
    PROVE  RunTable' /\ Queued' /\ AtWork' /\ Single'
<1>0. /\ RunTable /\ Queued /\ AtWork /\ Single /\ IsSequence(queue) /\ IsSequence(runs)
      /\ runs[r] = [f \in RunFields |-> runs[r][f]]
      /\ worker = [f \in Fields |-> worker[f]]
  BY DEF RunInv, SessionInv, Memory, RunTable
<1>1. CASE RequestResume(r)
  <2> DEFINE x == [runs[r] EXCEPT !.ticket = "Queued"]
  <2>1. /\ runs' = [runs EXCEPT ![r] = x] /\ queue' = Append(queue, RunItem("resume", r))
        /\ CanResume(r) /\ ~ProjectBusy /\ task' = task /\ worker' = worker
    BY <1>1 DEF RequestResume
  <2>2. x = [f \in RunFields |-> x[f]] /\ x.state = runs[r].state /\ x.ticket = "Queued"
    BY <1>0 DEF RunFields
  <2> HIDE DEF x
  <2>3. /\ RunTable' /\ DOMAIN runs' = DOMAIN runs /\ runs'[r] = x
        /\ \A q \in DOMAIN runs : q # r => runs'[q] = runs[q]
    BY <1>0, <2>1, <2>2, Changed
  <2>4. BusyDiscussions' \subseteq BusyDiscussions /\ BusyRuns' \subseteq {r}
    BY <2>1, <2>3 DEF BusyDiscussions, BusyRuns, ProjectBusy
  <2>5. Single'
    BY <2>1, <2>4, FirstRun
  <2>6. \A q \in DOMAIN runs : q \in DOMAIN runs' /\ runs'[q].state = runs[q].state
    BY <2>2, <2>3
  <2>7. RunItem("resume", r).kind = "resume" /\ RunItem("resume", r).run = r
    BY DEF RunItem
  <2>8. Queued'
    BY <1>0, <2>1, <2>6, <2>7, QueuedAdd DEF CanResume
  <2>9. worker.pc = "preparing" /\ worker.item.kind \in {"run", "resume"} => worker.item.run # r
    BY <1>0, <2>1 DEF AtWork, CanResume
  <2>10. AtWork'
    <3>1. worker.pc \in {"preparing", "calling", "file"} /\ worker.item.kind \in OfRuns =>
              Executing(OfRuns)
      BY DEF Executing
    <3> QED
      BY <1>0, <2>1, <2>3, <2>6, <2>9, <3>1 DEF AtWork, Executing, OfRuns
  <2> QED
    BY <2>3, <2>5, <2>8, <2>10
<1>2. CASE CancelStored(r)
  <2> DEFINE x == [runs[r] EXCEPT !.ticket = "Cancelled",
                                  !.state = IF @ = "None" THEN "None" ELSE "Cancelled"]
  <2>1. /\ runs' = [runs EXCEPT ![r] = x] /\ queue' = queue
        /\ task' = task /\ worker' = worker
        /\ IF runs[r].state = "None" THEN runs[r].ticket = "Queued"
                                     ELSE runs[r].state \in {"Paused", "Blocked", "Waiting"}
    BY <1>2 DEF CancelStored
  <2>2. /\ x = [f \in RunFields |-> x[f]] /\ x.ticket = "Cancelled"
        /\ x.state = IF runs[r].state = "None" THEN "None" ELSE "Cancelled"
    BY <1>0 DEF RunFields
  <2> HIDE DEF x
  <2>3. /\ RunTable' /\ DOMAIN runs' = DOMAIN runs /\ runs'[r] = x
        /\ \A q \in DOMAIN runs : q # r => runs'[q] = runs[q]
    BY <1>0, <2>1, <2>2, Changed
  <2>4. ~Busy(x)
    BY <2>2 DEF Busy, Active
  <2>5. BusyDiscussions' \subseteq BusyDiscussions /\ BusyRuns' \subseteq BusyRuns
    BY <1>0, <2>1, <2>2, <2>4, BusyChanged DEF BusyDiscussions
  <2>6. Single'
    BY <1>0, <2>5, Fewer
  <2>7. Queued'
    BY <1>0, <2>1, <2>2, <2>3, QueuedStay DEF Executing
  <2>8. worker.pc = "preparing" /\ worker.item.kind = "run" => worker.item.run # r
    BY <1>0, <2>1 DEF AtWork
  <2>9. worker.pc = "calling" => worker.item.run # r
    BY <1>0, <2>1 DEF AtWork
  <2>10. AtWork'
    <3>1. worker.pc \in {"preparing", "calling", "file"} /\ worker.item.kind \in OfRuns =>
              Executing(OfRuns)
      BY DEF Executing
    <3>2. CASE worker.item.run = r
      BY <1>0, <2>1, <2>2, <2>3, <2>8, <2>9, <3>1, <3>2 DEF AtWork, Executing, OfRuns
    <3>3. CASE worker.item.run # r
      BY <1>0, <2>1, <2>3, <3>1, <3>3 DEF AtWork, Executing, OfRuns
    <3> QED
      BY <3>2, <3>3
  <2> QED
    BY <2>3, <2>6, <2>7, <2>10
<1>3. ASSUME NEW pause \in BOOLEAN, StopExecuting(r, pause)
      PROVE  RunTable' /\ Queued' /\ AtWork' /\ Single'
  <2> DEFINE stop == IF pause THEN "pause" ELSE "cancel"
  <2>1. /\ worker' = [worker EXCEPT !.stop = stop]
        /\ task' = task /\ queue' = queue /\ runs' = runs
    BY <1>3 DEF StopExecuting
  <2>2. worker'.pc = worker.pc /\ worker'.item = worker.item
    BY <1>0, <2>1 DEF Fields
  <2>3. Single'
    BY <1>0, <2>1, Fewer DEF BusyDiscussions, BusyRuns
  <2>4. Queued' /\ AtWork'
    BY <1>0, <2>1, <2>2, QueuedStay, AtWorkStays DEF Executing
  <2> QED
    BY <1>0, <2>1, <2>3, <2>4 DEF RunTable
<1>4. ASSUME NEW approved \in BOOLEAN, RequestApproval(r, approved)
      PROVE  RunTable' /\ Queued' /\ AtWork' /\ Single'
  <2>1. /\ queue' = Append(queue, Decision(r, approved))
        /\ task' = task /\ worker' = worker /\ runs' = runs
    BY <1>4 DEF RequestApproval
  <2>2. Decision(r, approved).kind = "decision" /\ Decision(r, approved).run = r
    BY DEF Decision
  <2>3. Single'
    BY <1>0, <2>1, Fewer DEF BusyDiscussions, BusyRuns
  <2>4. Queued'
    BY <1>0, <2>1, <2>2, QueuedAdd
  <2>5. AtWork'
    BY <1>0, <2>1, AtWorkStays
  <2> QED
    BY <1>0, <2>1, <2>3, <2>4, <2>5 DEF RunTable
<1> QED
  BY <1>1, <1>2, <1>3, <1>4

\* The worker's discussions: one that is queued runs, and one that ran ends.
LEMMA SingleDiscussions ==
    ASSUME RunInv,
           \/ TakeDiscussion \/ BindDiscussion \/ DiscussionSucceeds \/ DiscussionFails
           \/ \E s \in Sessions : ObserveSession(s)
    PROVE  RunTable' /\ Queued' /\ AtWork' /\ Single'
<1>0. /\ RunTable /\ Queued /\ AtWork /\ Single /\ IsSequence(queue)
      /\ \A t \in Tasks : task[t] = [f \in TaskFields |-> task[t][f]]
      /\ worker = [f \in Fields |-> worker[f]] /\ Memory
  BY DEF RunInv, SessionInv, Tables, Memory
<1>1. CASE TakeDiscussion
  <2> DEFINE t == Head(queue).task
  <2>1. Taken /\ runs' = runs /\ Head(queue).kind = "discuss" /\ worker.pc = "idle"
    BY <1>1 DEF TakeDiscussion, Taken
  <2>2. t \in Tasks
    BY <1>0, <2>1, MemoryTake
  <2>3. \/ worker' = worker
        \/ worker'.pc = "preparing" /\ worker'.item = Head(queue)
    BY <1>1 DEF TakeDiscussion, Resting
  <2>4. ~Executing({"run"})'
    BY <2>1, <2>3 DEF Executing
  <2>5. Queued'
    BY <1>0, <2>1, <2>4, QueuedTake
  <2>6. AtWork'
    BY <1>0, <2>1, <2>3 DEF AtWork, Executing, OfRuns
  <2>7. RunTable' /\ Single'
    <3>1. CASE task[t].disc = "Queued"
      <4> DEFINE x == [task[t] EXCEPT !.disc = "Running"]
      <4>1. SaveFusion(t, x) /\ x = [f \in TaskFields |-> x[f]]
        BY <1>0, <1>1, <2>2, <3>1 DEF TakeDiscussion, TaskFields
      <4> HIDE DEF x
      <4> QED
        BY <2>1, <2>2, <3>1, <4>1, SingleTask
    <3>2. CASE task[t].disc # "Queued"
      <4>1. task' = task
        BY <1>1, <3>2 DEF TakeDiscussion
      <4> QED
        BY <1>0, <2>1, <4>1, Fewer DEF BusyDiscussions, BusyRuns, RunTable
    <3> QED
      BY <3>1, <3>2
  <2> QED
    BY <2>5, <2>6, <2>7
<1>2. CASE BindDiscussion \/ \E s \in Sessions : ObserveSession(s)
  <2>1. /\ runs' = runs /\ task' = task /\ queue' = queue
        /\ \E pc \in {"asking", "answered"} : worker' = [worker EXCEPT !.pc = pc]
        /\ worker.item.kind = "discuss"
    BY <1>2 DEF BindDiscussion, ObserveSession, Working
  <2>2. worker'.item = worker.item /\ worker'.pc \in {"asking", "answered"}
    BY <1>0, <2>1 DEF Fields
  <2>3. Queued'
    BY <1>0, <2>1, <2>2, QueuedStay DEF Executing
  <2>4. AtWork'
    BY <2>1, <2>2 DEF AtWork, Executing, OfRuns
  <2>5. Single'
    BY <1>0, <2>1, Fewer DEF BusyDiscussions, BusyRuns
  <2> QED
    BY <1>0, <2>1, <2>3, <2>4, <2>5 DEF RunTable
<1>3. CASE DiscussionSucceeds \/ DiscussionFails
  <2> DEFINE t == worker.item.task
  <2>1. /\ runs' = runs /\ queue' = queue /\ worker' = Resting
        /\ Executing({"discuss"})
    BY <1>3 DEF DiscussionSucceeds, DiscussionFails, Working, Executing
  <2>2. t \in Tasks
    BY <1>0, <2>1 DEF Memory
  <2>3. \E x : /\ SaveFusion(t, x) /\ x = [f \in TaskFields |-> x[f]]
               /\ x.disc \in {"Idle", "Blocked"}
    <3>1. CASE DiscussionSucceeds
      <4> DEFINE x == [task[t] EXCEPT !.session = bound[t].session, !.disc = "Idle",
                                      !.spoken = TRUE]
      <4>1. SaveFusion(t, x) /\ x = [f \in TaskFields |-> x[f]] /\ x.disc = "Idle"
        BY <1>0, <2>2, <3>1 DEF DiscussionSucceeds, TaskFields
      <4> QED
        BY <4>1
    <3>2. CASE DiscussionFails
      <4> DEFINE x == [task[t] EXCEPT !.session = KnownSession(t), !.disc = "Blocked"]
      <4>1. SaveFusion(t, x) /\ x = [f \in TaskFields |-> x[f]] /\ x.disc = "Blocked"
        BY <1>0, <2>2, <3>2 DEF DiscussionFails, TaskFields
      <4> QED
        BY <4>1
    <3> QED
      BY <1>3, <3>1, <3>2
  <2>4. RunTable' /\ Single'
    BY <2>1, <2>2, <2>3, SingleTask
  <2>5. worker'.pc = "idle"
    BY <2>1 DEF Resting
  <2>6. Queued' /\ AtWork'
    BY <1>0, <2>1, <2>5, QueuedStay DEF AtWork, Executing
  <2> QED
    BY <2>4, <2>6
<1> QED
  BY <1>1, <1>2, <1>3

\* A run's task moves on, which makes no discussion busy.
LEMMA LifeOnly ==
    ASSUME Tables,
           task' \in {task, [task EXCEPT ![runs[worker.item.run].task].life = "Active"],
                     [task EXCEPT ![runs[worker.item.run].task].life = "AwaitingAcceptance"]}
    PROVE  BusyDiscussions' \subseteq BusyDiscussions
<1>0. task = [t \in Tasks |-> task[t]] /\ \A t \in Tasks : task[t] = [f \in TaskFields |-> task[t][f]]
  BY DEF Tables
<1>1. \A t \in Tasks : \/ task'[t] = task[t]
                       \/ task'[t] = [task[t] EXCEPT !.life = "Active"]
                       \/ task'[t] = [task[t] EXCEPT !.life = "AwaitingAcceptance"]
  BY <1>0
<1>2. \A t \in Tasks : task'[t].disc = task[t].disc
  BY <1>0, <1>1 DEF TaskFields
<1> QED
  BY <1>2 DEF BusyDiscussions

\* The worker's run is written, and its step done: it was busy, or is not any more.
LEMMA SingleRun ==
    ASSUME RunInv, NEW r \in DOMAIN runs, NEW x, x = [f \in RunFields |-> x[f]],
           runs' = [runs EXCEPT ![r] = x], ~Busy(x) \/ Busy(runs[r]), x.state # "None",
           runs[r].state = "None" => Executing({"run"}) /\ worker.item.run = r,
           BusyDiscussions' \subseteq BusyDiscussions, queue' = queue,
           Executing({"run"})' => Executing({"run"}) /\ worker'.item = worker.item
    PROVE  /\ RunTable' /\ Queued' /\ Single'
           /\ DOMAIN runs' = DOMAIN runs /\ runs'[r] = x
<1>0. RunTable /\ Queued /\ Single
  BY DEF RunInv
<1>1. /\ RunTable' /\ DOMAIN runs' = DOMAIN runs /\ runs'[r] = x
      /\ \A q \in DOMAIN runs : q # r => runs'[q] = runs[q]
  BY <1>0, Changed
<1>2. BusyRuns' \subseteq BusyRuns
  BY <1>0, BusyChanged
<1>3. Single'
  BY <1>0, <1>2, Fewer
<1>4. Queued'
  BY <1>0, <1>1, QueuedStay
<1> QED
  BY <1>1, <1>3, <1>4

LEMMA SingleTaken == ASSUME RunInv, TakeRun \/ TakeDecision
                     PROVE  RunTable' /\ Queued' /\ AtWork' /\ Single'
<1> DEFINE r == Head(queue).run
<1>0. /\ RunTable /\ Queued /\ AtWork /\ Single /\ IsSequence(queue) /\ Memory
      /\ \A q \in DOMAIN runs : runs[q] = [f \in RunFields |-> runs[q][f]]
  BY DEF RunInv, SessionInv, Memory, RunTable
<1>1. Taken /\ task' = task /\ worker.pc = "idle"
  BY DEF TakeRun, TakeDecision, Taken
<1>2. BusyDiscussions' \subseteq BusyDiscussions
  BY <1>1 DEF BusyDiscussions
<1>3. queue # <<>> /\ Head(queue) = queue[1] /\ 1 \in 1..Len(queue)
  BY <1>0, <1>1, Tailed DEF Taken
<1>4. /\ Head(queue).kind \in OfRuns /\ r \in DOMAIN runs
      /\ Head(queue).kind = "run" => runs[r].state = "None"
      /\ Head(queue).kind = "resume" => runs[r].state # "None"
  BY <1>0, <1>3 DEF TakeRun, TakeDecision, Queued, OfRuns
<1>5. CASE runs' = runs /\ worker' = worker
  <2>1. Queued'
    BY <1>0, <1>1, <1>5, QueuedTake DEF Executing
  <2>2. AtWork' /\ RunTable'
    BY <1>0, <1>5, AtWorkStays DEF RunTable
  <2>3. Single'
    BY <1>0, <1>2, <1>5, Fewer DEF BusyRuns
  <2> QED
    BY <2>1, <2>2, <2>3
<1>6. CASE TakeRun /\ runs[r].ticket = "Queued"
  <2> DEFINE x == [runs[r] EXCEPT !.ticket = "Running"]
  <2>1. /\ runs' = [runs EXCEPT ![r] = x]
        /\ worker' = [Resting EXCEPT !.pc = "preparing", !.item = Head(queue)]
        /\ Head(queue).kind \in {"run", "resume"}
    BY <1>6 DEF TakeRun
  <2>2. /\ x = [f \in RunFields |-> x[f]]
        /\ x.state = runs[r].state /\ x.ticket = "Running"
    BY <1>0, <1>4 DEF RunFields
  <2> HIDE DEF x
  <2>3. worker'.pc = "preparing" /\ worker'.item = Head(queue)
    BY <2>1 DEF Resting
  <2>4. /\ RunTable' /\ DOMAIN runs' = DOMAIN runs /\ runs'[r] = x
        /\ \A q \in DOMAIN runs : q # r => runs'[q] = runs[q]
    BY <1>0, <1>4, <2>1, <2>2, Changed
  <2>5. Busy(runs[r])
    BY <1>6 DEF Busy
  <2>6. BusyRuns' \subseteq BusyRuns
    BY <1>0, <1>4, <2>1, <2>2, <2>5, BusyChanged
  <2>7. Single'
    BY <1>0, <1>2, <2>6, Fewer
  <2>8. Queued'
    BY <1>0, <1>1, <2>2, <2>3, <2>4, QueuedTake
  <2>9. AtWork'
    BY <1>4, <2>2, <2>3, <2>4 DEF AtWork, Executing
  <2> QED
    BY <2>4, <2>7, <2>8, <2>9
<1>7. CASE TakeDecision /\ runs[r].state = "Waiting"
  <2>1. PICK x : /\ runs' = [runs EXCEPT ![r] = x] /\ x = [f \in RunFields |-> x[f]]
                 /\ x.state # "None"
                 /\ \/ worker' = worker
                    \/ /\ x.state = "Running"
                       /\ worker' = [Resting EXCEPT !.pc = "calling", !.item = Head(queue)]
    <3>1. CASE Head(queue).approved
      <4> DEFINE x == [runs[r] EXCEPT !.state = "Running"]
      <4>1. /\ runs' = [runs EXCEPT ![r] = x]
            /\ worker' \in {worker, [Resting EXCEPT !.pc = "calling", !.item = Head(queue)]}
        BY <1>7, <3>1 DEF TakeDecision
      <4>2. x = [f \in RunFields |-> x[f]] /\ x.state = "Running"
        BY <1>0, <1>4 DEF RunFields
      <4> HIDE DEF x
      <4> QED
        BY <4>1, <4>2
    <3>2. CASE ~Head(queue).approved
      <4>1. PICK state \in {"Blocked", "Failed"} :
                runs' = [runs EXCEPT ![r].state = state, ![r].final = TRUE]
        BY <1>7, <3>2 DEF TakeDecision
      <4> DEFINE x == [runs[r] EXCEPT !.state = state, !.final = TRUE]
      <4>2. runs' = [runs EXCEPT ![r] = x] /\ worker' = worker
        BY <1>7, <3>2, <4>1 DEF TakeDecision
      <4>3. x = [f \in RunFields |-> x[f]] /\ x.state # "None"
        BY <1>0, <1>4 DEF RunFields
      <4> HIDE DEF x
      <4> QED
        BY <4>2, <4>3
    <3> QED
      BY <3>1, <3>2
  <2>2. \/ x.state # "None" /\ worker' = worker
        \/ x.state = "Running" /\ worker'.pc = "calling" /\ worker'.item = Head(queue)
    BY <2>1 DEF Resting
  <2>3. /\ RunTable' /\ DOMAIN runs' = DOMAIN runs /\ runs'[r] = x
        /\ \A q \in DOMAIN runs : q # r => runs'[q] = runs[q]
    BY <1>0, <1>4, <2>1, Changed
  <2>4. Busy(runs[r])
    BY <1>7 DEF Busy, Active
  <2>5. BusyRuns' \subseteq BusyRuns
    BY <1>0, <1>4, <2>1, <2>4, BusyChanged
  <2>6. Single'
    BY <1>0, <1>2, <2>5, Fewer
  <2>7. Head(queue).kind = "decision"
    BY <1>7 DEF TakeDecision
  <2>8. Queued'
    BY <1>0, <1>1, <1>7, <2>2, <2>3, QueuedTake DEF Executing
  <2>9. AtWork'
    BY <1>0, <1>1, <1>4, <2>2, <2>3, <2>7 DEF AtWork, Executing, OfRuns
  <2> QED
    BY <2>3, <2>6, <2>8, <2>9
<1>8. TakeRun /\ runs[r].ticket # "Queued" => runs' = runs /\ worker' = worker
  BY DEF TakeRun
<1>9. TakeDecision /\ runs[r].state # "Waiting" => runs' = runs /\ worker' = worker
  BY DEF TakeDecision
<1> QED
  BY <1>5, <1>6, <1>7, <1>8, <1>9

LEMMA SingleRuns ==
    ASSUME RunInv,
           \/ Prepared \/ NotPrepared \/ EventThrows \/ CallThrows \/ FileTicket
           \/ \E state \in {"Completed", "Waiting", "Failed", "Blocked", "Paused", "Cancelled"} :
                 RunEnds(state)
    PROVE  RunTable' /\ Queued' /\ AtWork' /\ Single'
<1> DEFINE r == worker.item.run
<1>0. /\ RunTable /\ Queued /\ AtWork /\ Single /\ Memory /\ Tables
      /\ worker = [f \in Fields |-> worker[f]]
      /\ \A q \in DOMAIN runs : runs[q] = [f \in RunFields |-> runs[q][f]]
  BY DEF RunInv, SessionInv, Memory, RunTable
<1>1. ASSUME Working({"run", "resume"}, "preparing")
      PROVE  /\ r \in DOMAIN runs
             /\ runs[r].state = "None" => Executing({"run"})
             /\ worker.item.kind = "run" => Busy(runs[r])
             /\ runs[r].state \in {"Paused", "Blocked"} => Busy(runs[r])
  BY <1>0, <1>1 DEF AtWork, Working, Executing, OfRuns, Busy
<1>2. CASE Prepared
  <2> DEFINE x == [runs[r] EXCEPT !.state = "Running", !.stamp = stamp, !.final = FALSE,
                                  !.ready = task[runs[r].task].frozen.ver]
  <2>1. /\ runs' = [runs EXCEPT ![r] = x] /\ queue' = queue
        /\ worker' = [worker EXCEPT !.pc = "calling"]
        /\ task' \in {task, [task EXCEPT ![runs[r].task].life = "Active"]}
        /\ Working({"run", "resume"}, "preparing")
        /\ worker.item.kind = "resume" => runs[r].state \in {"Paused", "Blocked"}
    BY <1>2 DEF Prepared
  <2>2. r \in DOMAIN runs /\ Busy(runs[r])
        /\ (runs[r].state = "None" => Executing({"run"}))
    BY <1>1, <2>1 DEF Working
  <2>3. x = [f \in RunFields |-> x[f]] /\ x.state = "Running"
    BY <1>0, <2>2 DEF RunFields
  <2> HIDE DEF x
  <2>4. worker'.item = worker.item /\ worker'.pc = "calling" /\ worker.pc # "idle"
    BY <1>0, <2>1 DEF Fields, Working
  <2>5. BusyDiscussions' \subseteq BusyDiscussions
    BY <1>0, <2>1, LifeOnly
  <2>6. Executing({"run"})' => Executing({"run"}) /\ worker'.item = worker.item
    BY <2>4 DEF Executing
  <2>7. RunTable' /\ Queued' /\ Single' /\ DOMAIN runs' = DOMAIN runs /\ runs'[r] = x
    BY <2>1, <2>2, <2>3, <2>5, <2>6, SingleRun
  <2>8. AtWork'
    BY <2>1, <2>2, <2>3, <2>4, <2>7 DEF AtWork, Executing, Working, OfRuns
  <2> QED
    BY <2>7, <2>8
<1>3. CASE NotPrepared
  <2>1. /\ queue' = queue /\ worker' = Resting
        /\ task' \in {task, [task EXCEPT ![runs[r].task].life = "Active"]}
        /\ Working({"run", "resume"}, "preparing")
    BY <1>3 DEF NotPrepared
  <2>2. r \in DOMAIN runs /\ (runs[r].state = "None" => Executing({"run"}))
    BY <1>1, <2>1
  <2>3. PICK state \in {"Blocked", "Cancelled", "Paused"}, invalid \in BOOLEAN :
            runs' = [runs EXCEPT
                ![r].state = state,
                ![r].ticket = IF state = "Cancelled" THEN "Cancelled" ELSE "Finished",
                ![r].ready = IF runs[r].state = "None" THEN task[runs[r].task].frozen.ver ELSE @,
                ![r].final = invalid, ![r].supported = @ /\ ~invalid]
    BY <1>3, ZenonT(60) DEF NotPrepared
  <2> DEFINE x == [runs[r] EXCEPT
                !.state = state,
                !.ticket = IF state = "Cancelled" THEN "Cancelled" ELSE "Finished",
                !.ready = IF runs[r].state = "None" THEN task[runs[r].task].frozen.ver ELSE @,
                !.final = invalid, !.supported = @ /\ ~invalid]
  <2>4. runs' = [runs EXCEPT ![r] = x]
    BY <2>3
  <2>5. /\ x = [f \in RunFields |-> x[f]]
        /\ x.state = state /\ x.ticket \in {"Cancelled", "Finished"}
    BY <1>0, <2>2 DEF RunFields
  <2> HIDE DEF x
  <2>6. ~Busy(x) /\ x.state # "None"
    BY <2>5 DEF Busy, Active
  <2>7. worker'.pc = "idle"
    BY <2>1 DEF Resting
  <2>8. BusyDiscussions' \subseteq BusyDiscussions
    BY <1>0, <2>1, LifeOnly
  <2>9. ~Executing({"run"})'
    BY <2>7 DEF Executing
  <2>10. RunTable' /\ Queued' /\ Single'
    BY <2>1, <2>2, <2>4, <2>5, <2>6, <2>8, <2>9, SingleRun
  <2>11. AtWork'
    BY <2>7 DEF AtWork, Executing
  <2> QED
    BY <2>10, <2>11
<1>4. ASSUME NEW state \in {"Completed", "Waiting", "Failed", "Blocked", "Paused", "Cancelled"},
             RunEnds(state)
      PROVE  RunTable' /\ Queued' /\ AtWork' /\ Single'
  <2>1. /\ queue' = queue /\ worker' = [worker EXCEPT !.pc = "file", !.seen = state]
        /\ worker.pc = "calling"
        /\ task' \in {task, [task EXCEPT ![runs[r].task].life = "AwaitingAcceptance"]}
    BY <1>4 DEF RunEnds
  <2>2. r \in DOMAIN runs /\ runs[r].state = "Running" /\ worker.item.kind \in OfRuns
    BY <1>0, <2>1 DEF AtWork, Executing
  <2>3. PICK final \in BOOLEAN :
            runs' = [runs EXCEPT ![r].state = state, ![r].final = final /\ state = "Blocked",
                                 ![r].done = @ \/ state = "Completed"]
    BY <1>4, ZenonT(60) DEF RunEnds
  <2> DEFINE x == [runs[r] EXCEPT !.state = state, !.final = final /\ state = "Blocked",
                                  !.done = @ \/ state = "Completed"]
  <2>4. runs' = [runs EXCEPT ![r] = x]
    BY <2>3
  <2>5. x = [f \in RunFields |-> x[f]] /\ x.state = state
    BY <1>0, <2>2 DEF RunFields
  <2> HIDE DEF x
  <2>6. Busy(runs[r])
    BY <2>2 DEF Busy, Active
  <2>7. worker'.item = worker.item /\ worker'.pc = "file"
    BY <1>0, <2>1 DEF Fields
  <2>8. BusyDiscussions' \subseteq BusyDiscussions
    BY <1>0, <2>1, LifeOnly
  <2>9. Executing({"run"})' => Executing({"run"}) /\ worker'.item = worker.item
    BY <2>1, <2>7 DEF Executing
  <2>10. RunTable' /\ Queued' /\ Single' /\ DOMAIN runs' = DOMAIN runs /\ runs'[r] = x
    BY <2>1, <2>2, <2>4, <2>5, <2>6, <2>8, <2>9, SingleRun
  <2>11. runs'[r].state # "None"
    BY <2>5, <2>10
  <2>12. AtWork'
    BY <2>2, <2>7, <2>10, <2>11 DEF AtWork, Executing
  <2> QED
    BY <2>10, <2>12
<1>5. CASE FileTicket
  <2>1. queue' = queue /\ worker' = Resting /\ task' = task /\ worker.pc = "file"
    BY <1>5 DEF FileTicket
  <2>2. r \in DOMAIN runs /\ worker.item.kind \in OfRuns
    BY <1>0, <2>1 DEF AtWork, Executing
  <2>3. worker'.pc = "idle"
    BY <2>1 DEF Resting
  <2>4. BusyDiscussions' \subseteq BusyDiscussions
    BY <2>1 DEF BusyDiscussions
  <2>5. AtWork' /\ ~Executing({"run"})'
    BY <2>3 DEF AtWork, Executing
  <2>6. CASE worker.item.kind = "decision"
    <3>1. runs' = runs
      BY <1>5, <2>6 DEF FileTicket
    <3> QED
      BY <1>0, <2>1, <2>4, <2>5, <3>1, QueuedStay, Fewer DEF BusyRuns, RunTable
  <2>7. CASE worker.item.kind # "decision"
    <3> DEFINE ticket == IF worker.seen = "Cancelled" THEN "Cancelled" ELSE "Finished"
               x == [runs[r] EXCEPT !.ticket = ticket]
    <3>1. runs' = [runs EXCEPT ![r] = x]
      BY <1>5, <2>7 DEF FileTicket
    <3>2. /\ x = [f \in RunFields |-> x[f]]
          /\ x.state = runs[r].state /\ x.ticket \in {"Cancelled", "Finished"}
      BY <1>0, <2>2 DEF RunFields
    <3> HIDE DEF x
    <3>3. ~Busy(x) \/ Busy(runs[r])
      BY <3>2 DEF Busy
    <3>4. /\ RunTable' /\ DOMAIN runs' = DOMAIN runs /\ runs'[r] = x
          /\ \A q \in DOMAIN runs : q # r => runs'[q] = runs[q]
      BY <1>0, <2>2, <3>1, <3>2, Changed
    <3>5. Queued'
      BY <1>0, <2>1, <2>5, <3>2, <3>4, QueuedStay
    <3>6. BusyRuns' \subseteq BusyRuns
      BY <1>0, <2>2, <3>1, <3>2, <3>3, BusyChanged
    <3>7. Single'
      BY <1>0, <2>4, <3>6, Fewer
    <3> QED
      BY <2>5, <3>4, <3>5, <3>7
  <2> QED
    BY <2>6, <2>7
<1>6. ASSUME worker.pc = "file", NEW x, x = [f \in RunFields |-> x[f]],
             runs' = [runs EXCEPT ![r] = x], x.state \in {"Failed", "Blocked"},
             ~Busy(x) \/ Busy(runs[r]), queue' = queue, task' = task,
             worker' = Resting \/ (worker'.pc = "file" /\ worker'.item = worker.item)
      PROVE  RunTable' /\ Queued' /\ AtWork' /\ Single'
  <2>1. r \in DOMAIN runs /\ worker.item.kind \in OfRuns
    BY <1>0, <1>6 DEF AtWork, Executing
  <2>2. Executing({"run"})' => Executing({"run"}) /\ worker'.item = worker.item
    BY <1>6 DEF Executing, Resting
  <2>3. /\ RunTable' /\ DOMAIN runs' = DOMAIN runs /\ runs'[r] = x
        /\ \A q \in DOMAIN runs : q # r => runs'[q] = runs[q]
    <3>1. RunTable /\ runs' = [runs EXCEPT ![r] = x] /\ x = [f \in RunFields |-> x[f]]
      BY <1>0, <1>6
    <3> HIDE DEF r
    <3> QED
      BY ONLY <3>1, <2>1, Changed
  <2>s. runs[r].state # "None" /\ x.state # "None"
    BY <1>0, <1>6 DEF AtWork
  <2>4. Queued'
    BY <1>0, <1>6, <2>s, <2>2, <2>3, QueuedStay
  <2>5. BusyRuns' \subseteq BusyRuns
    BY <1>0, <1>6, <2>1, BusyChanged
  <2>6. Single'
    BY <1>0, <1>6, <2>5, Fewer DEF BusyDiscussions
  <2>7. AtWork'
    BY <1>6, <2>1, <2>s, <2>3 DEF AtWork, Executing, Resting
  <2> QED
    BY <2>3, <2>4, <2>6, <2>7
<1>7. CASE EventThrows
  <2> DEFINE x == [runs[r] EXCEPT !.state = "Failed", !.final = FALSE]
  <2>1. /\ runs' = [runs EXCEPT ![r] = x] /\ worker.pc = "file"
        /\ worker' = [worker EXCEPT !.seen = "Failed"] /\ queue' = queue /\ task' = task
    BY <1>7 DEF EventThrows
  <2>2. r \in DOMAIN runs
    BY <1>0, <2>1 DEF AtWork, Executing
  <2>3. /\ x = [f \in RunFields |-> x[f]]
        /\ x.state = "Failed" /\ x.ticket = runs[r].ticket
    BY <1>0, <2>2 DEF RunFields
  <2> HIDE DEF x
  <2>4. ~Busy(x) \/ Busy(runs[r])
    BY <2>3 DEF Busy, Active
  <2>5. worker'.pc = "file" /\ worker'.item = worker.item
    BY <1>0, <2>1 DEF Fields
  <2> QED
    BY <1>6, <2>1, <2>3, <2>4, <2>5
<1>8. CASE CallThrows
  <2> DEFINE x == [runs[r] EXCEPT !.state = "Blocked", !.final = FALSE, !.ticket = "Finished"]
  <2>1. /\ runs' = [runs EXCEPT ![r] = x] /\ worker.pc = "file"
        /\ worker' = Resting /\ queue' = queue /\ task' = task
    BY <1>8 DEF CallThrows
  <2>2. r \in DOMAIN runs
    BY <1>0, <2>1 DEF AtWork, Executing
  <2>3. /\ x = [f \in RunFields |-> x[f]]
        /\ x.state = "Blocked" /\ x.ticket = "Finished"
    BY <1>0, <2>2 DEF RunFields
  <2> HIDE DEF x
  <2>4. ~Busy(x)
    BY <2>3 DEF Busy, Active
  <2> QED
    BY <1>6, <2>1, <2>3, <2>4
<1> QED
  BY <1>2, <1>3, <1>4, <1>5, <1>7, <1>8

LEMMA SingleRestart == ASSUME RunInv, Restart PROVE RunTable' /\ Queued' /\ AtWork' /\ Single'
<1>0. /\ IsSequence(runs) /\ Tables
      /\ \A r \in DOMAIN runs : runs[r] = [f \in RunFields |-> runs[r][f]]
  BY DEF RunInv, RunTable, SessionInv
<1>1. /\ runs' = [r \in DOMAIN runs |-> RecoverRun(runs[r])] /\ queue' = <<>> /\ worker' = Resting
      /\ task' = [t \in Tasks |-> RecoverDiscussion(t)]
  BY DEF Restart
<1>2. IsSequence(runs') /\ DOMAIN runs' = DOMAIN runs
  <2>1. runs' = [r \in DOMAIN runs |-> runs'[r]]
    BY <1>1
  <2> QED
    BY ONLY <1>0, <2>1, SameIndices
<1>3. \A r \in DOMAIN runs :
          runs'[r] = [f \in RunFields |-> runs'[r][f]] /\ ~Busy(runs'[r])
  <2> SUFFICES ASSUME NEW r \in DOMAIN runs
               PROVE  runs'[r] = [f \in RunFields |-> runs'[r][f]] /\ ~Busy(runs'[r])
    OBVIOUS
  <2>1. runs'[r] = RecoverRun(runs[r]) /\ runs[r] = [f \in RunFields |-> runs[r][f]]
    BY <1>0, <1>1
  <2>2. /\ runs'[r] = [f \in RunFields |-> runs'[r][f]]
        /\ runs'[r].state = IF runs[r].state \in Active \cup {"Paused"} THEN "Blocked"
                            ELSE runs[r].state
        /\ runs'[r].ticket = IF runs[r].ticket \in {"Queued", "Running"} THEN "Interrupted"
                             ELSE runs[r].ticket
    BY <2>1 DEF RecoverRun, RunFields
  <2> QED
    BY <2>2 DEF Busy, Active
<1>4. RunTable' /\ BusyRuns' = {}
  BY <1>2, <1>3 DEF RunTable, BusyRuns, Busy
<1>5. BusyDiscussions' = {}
  <2>1. ASSUME NEW t \in Tasks PROVE task'[t].disc \notin {"Queued", "Running"}
    <3>1. task'[t] = RecoverDiscussion(t) /\ task[t] = [f \in TaskFields |-> task[t][f]]
      BY <1>0, <1>1 DEF Tables
    <3>2. CASE task[t].disc \in {"Queued", "Running"}
      <4>1. task'[t] = [task[t] EXCEPT !.disc = "Blocked", !.session = KnownSession(t)]
        BY <3>1, <3>2 DEF RecoverDiscussion
      <4> QED
        BY <3>1, <4>1 DEF TaskFields
    <3>3. CASE task[t].disc \notin {"Queued", "Running"}
      BY <3>1, <3>3 DEF RecoverDiscussion
    <3> QED
      BY <3>2, <3>3
  <2> QED
    BY <2>1 DEF BusyDiscussions
<1>6. Single'
  BY <1>4, <1>5 DEF Single
<1>7. Queued' /\ AtWork'
  BY <1>1, Empty DEF Queued, AtWork, Resting, Executing
<1> QED
  BY <1>4, <1>6, <1>7

LEMMA RunStep == ASSUME RunInv, [Next]_vars PROVE RunInv'
<1>1. SessionInv'
  BY SessionStep DEF RunInv
<1>2. CASE UNCHANGED vars
  <2>1. /\ task' = task /\ runs' = runs /\ queue' = queue /\ worker' = worker
    BY <1>2 DEF vars
  <2> QED
    BY <1>1, <2>1, QueuedStay, AtWorkStays, Fewer
       DEF RunInv, RunTable, BusyDiscussions, BusyRuns, Executing
<1>3. CASE SaveProject \/ ChangeStamp
  <2>1. /\ task' = task /\ runs' = runs /\ queue' = queue /\ worker' = worker
    BY <1>3 DEF SaveProject, ChangeStamp
  <2> QED
    BY <1>1, <2>1, QueuedStay, AtWorkStays, Fewer
       DEF RunInv, RunTable, BusyDiscussions, BusyRuns, Executing
<1>4. CASE Process
  BY <1>1, <1>4, SingleDiscussions, SingleTaken, SingleRuns DEF Process, RunInv
<1> QED
  BY <1>1, <1>2, <1>3, <1>4, SingleRequests, SingleRunRequests, SingleRestart DEF Next, RunInv

\* A project serves one discussion, run or pending approval at a time, for any number of
\* tasks, runs, queued items, stops, cancels and restarts.
THEOREM OneIsServed == Spec => []OneAtATime
<1>1. Spec => []RunInv
  BY RunInit, RunStep, PTL DEF Spec
<1>2. RunInv => OneAtATime
  BY SingleIsOne DEF RunInv
<1> QED
  BY <1>1, <1>2, PTL


(***************************************************************************)
(* What runs execute, and what the Owner judges.  Both are decided under   *)
(* one Ready snapshot and used much later: a paused run is resumed, a      *)
(* queued one is started, after the task was discussed and frozen again.   *)
(***************************************************************************)
Underway == {"Queued", "Running"}

\* A discussion under way is one of a task in discussion, and is attended.
Talking ==
    /\ DiscussionAttended
    /\ \A t \in Tasks : task[t].disc \in Underway => task[t].life = "Discussing"
    /\ Executing({"discuss"}) => task[worker.item.task].disc = "Running"

\* A run beside the record of its task.
Sound(x, k) ==
    /\ x.ready \in Nat
    /\ x.state # "None" => x.ready <= k.frozen.ver /\ (k.life = "Ready" => x.ready < k.frozen.ver)
    /\ x.state = "None" /\ Busy(x) => k.life = "Ready"
    /\ x.ticket = "Queued" => x.state \in {"None", "Paused", "Blocked", "Failed"}
    /\ x.done => x.state \notin Active \cup {"None"}
    /\ x.state \in Active =>
          /\ k.frozen.ver = x.ready /\ k.frozen.session = k.session
          /\ k.frozen.profile = profile /\ k.frozen.stamp = x.stamp

Versioned ==
    \A t \in Tasks : task[t].frozen.ver \in Nat /\ (task[t].life = "Absent" => task[t] = NoTask)

Owned == \A r \in DOMAIN runs : runs[r].task \in Tasks /\ Sound(runs[r], task[runs[r].task])

\* The run that is to start is the youngest.
Youngest == \A r \in DOMAIN runs : runs[r].state = "None" /\ Busy(runs[r]) => r = Len(runs)

\* Runs of a task that started did so under different snapshots, and in their order.
Ordered ==
    \A r, q \in DOMAIN runs :
        runs[r].task = runs[q].task /\ runs[r].state # "None" /\ runs[q].state # "None" /\ r < q
        => runs[r].ready < runs[q].ready

Resumable ==
    worker.pc = "preparing" /\ worker.item.kind = "resume" =>
        runs[worker.item.run].state \in {"Paused", "Blocked", "Cancelled", "Failed"}

\* The lives of a task whose work was offered to the Owner.
Offered == {"AwaitingAcceptance", "Done"}

Judged ==
    \A t \in Tasks : task[t].life \in Offered =>
        \E r \in RunsOf(t) : runs[r].done /\ runs[r].ready = task[t].frozen.ver

AgreedInv ==
    RunInv /\ Talking /\ Versioned /\ Owned /\ Youngest /\ Ordered /\ Resumable /\ Judged

LEMMA AgreedInit == Init => AgreedInv
<1> SUFFICES ASSUME Init PROVE AgreedInv
  OBVIOUS
<1>1. task = [t \in Tasks |-> NoTask] /\ runs = <<>> /\ queue = <<>> /\ worker = Resting
  BY DEF Init
<1>2. Talking
  BY <1>1 DEF Talking, DiscussionAttended, NoTask, Resting, Executing, Underway
<1>3. Versioned /\ Judged
  BY <1>1 DEF Versioned, Judged, Offered, NoTask
<1>4. Owned /\ Youngest /\ Ordered /\ Resumable
  BY <1>1, Empty DEF Owned, Youngest, Ordered, Resumable, Resting
<1> QED
  BY <1>2, <1>3, <1>4, RunInit DEF AgreedInv

(***************************************************************************)
(* Discussions.                                                            *)
(***************************************************************************)
Waits(t) == \E k \in DOMAIN queue : queue[k] = Discussion(t)

LEMMA TalkingKept ==
    ASSUME AgreedInv, RunInv',
           \A t \in Tasks : task'[t].disc \in Underway =>
               task'[t].disc = task[t].disc /\ task'[t].life = task[t].life,
           \A t \in Tasks : ExecutingDiscussion(t) =>
               ExecutingDiscussion(t)' /\ task'[t].disc = task[t].disc,
           \A t \in Tasks : ExecutingDiscussion(t)' => ExecutingDiscussion(t),
           \A t \in Tasks : Waits(t) => Waits(t)'
    PROVE  Talking'
<1>1. DiscussionAttended'
  <2> SUFFICES ASSUME NEW t \in Tasks
               PROVE  /\ task'[t].disc = "Queued" => Waits(t)'
                      /\ task'[t].disc = "Running" => ExecutingDiscussion(t)'
    BY DEF DiscussionAttended, Waits
  <2>1. /\ task[t].disc = "Queued" => Waits(t)
        /\ task[t].disc = "Running" => ExecutingDiscussion(t)
    BY DEF AgreedInv, Talking, DiscussionAttended, Waits
  <2> QED
    BY <2>1 DEF Underway
<1>2. \A t \in Tasks : task'[t].disc \in Underway => task'[t].life = "Discussing"
  BY DEF AgreedInv, Talking
<1>3. Executing({"discuss"})' => task'[worker'.item.task].disc = "Running"
  <2> SUFFICES ASSUME Executing({"discuss"})' PROVE task'[worker'.item.task].disc = "Running"
    OBVIOUS
  <2>1. worker'.item.task \in Tasks
    BY DEF RunInv, SessionInv, Memory
  <2>2. PICK t \in Tasks : ExecutingDiscussion(t)' /\ t = worker'.item.task
    BY <2>1 DEF ExecutingDiscussion
  <2>3. ExecutingDiscussion(t) /\ task'[t].disc = task[t].disc
    BY <2>2
  <2> QED
    BY <2>2, <2>3 DEF AgreedInv, Talking, ExecutingDiscussion
<1> QED
  BY <1>1, <1>2, <1>3 DEF Talking

\* What waits goes on waiting when something is added, or something else is taken.
LEMMA WaitsAdd ==
    ASSUME RunInv, NEW e, queue' = Append(queue, e), NEW t
    PROVE  (Waits(t) \/ e = Discussion(t)) => Waits(t)'
<1>1. IsSequence(queue)
  BY DEF RunInv, SessionInv, Memory
<1>2. /\ Len(queue) \in Nat /\ DOMAIN queue = 1..Len(queue)
      /\ DOMAIN queue' = 1..(Len(queue) + 1)
      /\ queue'[Len(queue) + 1] = e
      /\ \A i \in 1..Len(queue) : queue'[i] = queue[i]
  BY ONLY <1>1, queue' = Append(queue, e), Appended
<1>3. /\ Len(queue) + 1 \in DOMAIN queue'
      /\ \A i \in DOMAIN queue : i \in DOMAIN queue' /\ queue'[i] = queue[i]
  BY <1>2
<1>4. CASE e = Discussion(t)
  BY <1>2, <1>3, <1>4 DEF Waits
<1>5. CASE Waits(t)
  BY <1>3, <1>5 DEF Waits
<1> QED
  BY <1>4, <1>5

LEMMA WaitsTake ==
    ASSUME RunInv, Taken, NEW t, Head(queue) # Discussion(t), Waits(t)
    PROVE  Waits(t)'
<1>1. IsSequence(queue) /\ queue # <<>> /\ queue' = Tail(queue)
  BY DEF RunInv, SessionInv, Memory, Taken
<1>2. /\ IsSequence(queue') /\ Len(queue) \in Nat /\ Head(queue) = queue[1]
      /\ Len(queue') = Len(queue) - 1
      /\ \A i \in 1..(Len(queue) - 1) : queue'[i] = queue[i + 1]
  BY ONLY <1>1, Tailed
<1>3. DOMAIN queue = 1..Len(queue) /\ DOMAIN queue' = 1..Len(queue')
  BY <1>1, <1>2 DEF IsSequence
<1>4. PICK k \in 1..Len(queue) : queue[k] = Discussion(t)
  BY <1>3 DEF Waits
<1>5. k # 1
  BY <1>2, <1>4
<1>6. k - 1 \in 1..(Len(queue) - 1) /\ queue'[k - 1] = queue[(k - 1) + 1]
  BY <1>2, <1>4, <1>5
<1>7. k - 1 \in DOMAIN queue' /\ queue'[k - 1] = queue[k]
  BY <1>2, <1>3, <1>4, <1>6
<1> QED
  BY <1>4, <1>7 DEF Waits

(***************************************************************************)
(* Steps that leave the runs alone.                                        *)
(***************************************************************************)

\* How the record of a task may move beside its runs.
Moves(k, m) ==
    /\ m.frozen.ver \in Nat /\ m.frozen.ver >= k.frozen.ver
    /\ m.life = "Ready" => (k.life = "Ready" /\ m.frozen = k.frozen) \/ m.frozen.ver > k.frozen.ver
    /\ m.life \in Offered => k.life \in Offered /\ m.frozen = k.frozen
    /\ m.life = "Absent" => m = k
    /\ BusyRuns # {} =>
          /\ m.frozen = k.frozen /\ m.session = k.session
          /\ k.life = "Ready" => m.life = "Ready"

LEMMA StillMoves ==
    ASSUME AgreedInv, NEW t \in Tasks
    PROVE  Moves(task[t], task[t])
  BY DEF AgreedInv, Versioned, Moves

LEMMA RunsKept ==
    ASSUME AgreedInv, RunInv', runs' = runs, profile' = profile \/ BusyRuns = {},
           \A t \in Tasks : Moves(task[t], task'[t]),
           worker'.pc = "preparing" /\ worker'.item.kind = "resume" =>
               worker.pc = "preparing" /\ worker'.item = worker.item
    PROVE  Versioned' /\ Owned' /\ Youngest' /\ Ordered' /\ Resumable' /\ Judged'
<1>1. Versioned'
  BY DEF AgreedInv, Versioned, Moves
<1>2. ASSUME NEW r \in DOMAIN runs
      PROVE  runs'[r].task \in Tasks /\ Sound(runs[r], task[runs[r].task])'
  <2> DEFINE x == runs[r]
             k == task[x.task]
             m == task'[x.task]
  <2>1. /\ x.task \in Tasks /\ Sound(x, k) /\ Moves(k, m)
        /\ k.frozen.ver \in Nat
    BY DEF AgreedInv, Owned, Versioned
  <2>2. Busy(x) => BusyRuns # {}
    BY DEF BusyRuns, Busy
  <2>3. x.state \in Active => Busy(x)
    BY DEF Busy
  <2>4. runs'[r] = x
    OBVIOUS
  <2> HIDE DEF x, k, m
  <2>5. /\ x.ready \in Nat
        /\ x.state # "None" => x.ready <= m.frozen.ver /\ (m.life = "Ready" => x.ready < m.frozen.ver)
    BY <2>1 DEF Sound, Moves
  <2>6. /\ x.state = "None" /\ Busy(x) => m.life = "Ready"
        /\ x.ticket = "Queued" => x.state \in {"None", "Paused", "Blocked", "Failed"}
        /\ x.done => x.state \notin Active \cup {"None"}
    BY <2>1, <2>2 DEF Sound, Moves
  <2>7. x.state \in Active =>
            /\ m.frozen.ver = x.ready /\ m.frozen.session = m.session
            /\ m.frozen.profile = profile' /\ m.frozen.stamp = x.stamp
    BY <2>1, <2>2, <2>3 DEF Sound, Moves
  <2> USE DEF x, k, m
  <2> QED
    BY <2>1, <2>5, <2>6, <2>7 DEF Sound, Busy
<1>3. Owned'
  BY <1>2 DEF Owned
<1>4. Youngest' /\ Ordered'
  BY DEF AgreedInv, Youngest, Ordered, Busy
<1>5. Resumable'
  BY DEF AgreedInv, Resumable
<1>6. Judged'
  <2> SUFFICES ASSUME NEW t \in Tasks, task'[t].life \in Offered
               PROVE  \E r \in RunsOf(t)' :
                          runs'[r].done /\ runs'[r].ready = task'[t].frozen.ver
    BY DEF Judged
  <2>1. task[t].life \in Offered /\ task'[t].frozen = task[t].frozen
    BY DEF Moves
  <2>2. RunsOf(t)' = RunsOf(t)
    BY DEF RunsOf
  <2> QED
    BY <2>1, <2>2 DEF AgreedInv, Judged
<1> QED
  BY <1>1, <1>3, <1>4, <1>5, <1>6

(***************************************************************************)
(* Steps that write one run.                                               *)
(***************************************************************************)
LEMMA BusyIsOne == ASSUME RunInv, NEW r \in DOMAIN runs, NEW q \in DOMAIN runs,
                          Busy(runs[r]), Busy(runs[q])
                   PROVE  r = q /\ BusyDiscussions = {}
<1>1. r \in BusyRuns /\ q \in BusyRuns
  BY DEF BusyRuns, Busy
<1> QED
  BY <1>1 DEF RunInv, Single

\* The run was written.  Its task may have moved on if the run was busy, and it may have
\* started if it was the one to start.
OneRun(r, x) ==
    /\ DOMAIN runs' = DOMAIN runs /\ runs'[r] = x /\ profile' = profile
    /\ \A q \in DOMAIN runs : q # r => runs'[q] = runs[q]
    /\ \A t \in Tasks :
          /\ t # x.task => task'[t] = task[t]
          /\ task'[t].frozen = task[t].frozen /\ task'[t].session = task[t].session
          /\ task'[t].life # task[t].life =>
                Busy(runs[r]) /\ task'[t].life \in {"Active", "AwaitingAcceptance"}
          /\ task'[t].life = "Absent" => task'[t] = task[t]

\* The run's own record beside its task's.
OwnRun(r, x, k) ==
    /\ x.task = runs[r].task /\ Sound(x, k)
    /\ x.state = "None" => runs[r].state = "None" /\ (Busy(x) => Busy(runs[r]))
    /\ x.state # "None" =>
          \/ runs[r].state # "None" /\ x.ready = runs[r].ready
          \/ runs[r].state = "None" /\ Busy(runs[r]) /\ x.ready = k.frozen.ver
    /\ runs[r].done => x.done
    /\ k.life \in Offered /\ task[x.task].life # k.life =>
          x.done /\ x.ready = k.frozen.ver

LEMMA RunWritten ==
    ASSUME AgreedInv, RunInv', NEW r \in DOMAIN runs, NEW x,
           OneRun(r, x), OwnRun(r, x, task'[x.task])
    PROVE  Versioned' /\ Owned' /\ Youngest' /\ Ordered' /\ Judged'
<1>0. /\ x.task = runs[r].task /\ x.task \in Tasks
      /\ \A q \in DOMAIN runs : runs[q].task \in Tasks /\ Sound(runs[q], task[runs[q].task])
      /\ DOMAIN runs' = DOMAIN runs /\ runs'[r] = x /\ profile' = profile
      /\ \A q \in DOMAIN runs : q # r => runs'[q] = runs[q]
  BY DEF AgreedInv, Owned, OwnRun, OneRun
<1>1. Versioned'
  BY DEF AgreedInv, Versioned, OneRun
<1>2. ASSUME NEW q \in DOMAIN runs, q # r PROVE Sound(runs[q], task[runs[q].task])'
  <2> DEFINE y == runs[q]
             k == task[y.task]
             m == task'[y.task]
  <2>1. /\ Sound(y, k) /\ runs'[q] = y
        /\ m.frozen = k.frozen /\ m.session = k.session
        /\ m.life # k.life => Busy(runs[r]) /\ m.life \in {"Active", "AwaitingAcceptance"}
    BY <1>0, <1>2 DEF OneRun
  <2>2. m.life # k.life => ~Busy(y)
    BY <1>2, <2>1, BusyIsOne DEF AgreedInv
  <2> HIDE DEF y, k, m
  <2>3. /\ y.ready \in Nat
        /\ y.state # "None" => y.ready <= m.frozen.ver /\ (m.life = "Ready" => y.ready < m.frozen.ver)
        /\ y.state = "None" /\ Busy(y) => m.life = "Ready"
        /\ y.ticket = "Queued" => y.state \in {"None", "Paused", "Blocked", "Failed"}
        /\ y.done => y.state \notin Active \cup {"None"}
    BY <2>1, <2>2 DEF Sound
  <2>4. y.state \in Active =>
            /\ m.frozen.ver = y.ready /\ m.frozen.session = m.session
            /\ m.frozen.profile = profile' /\ m.frozen.stamp = y.stamp
    BY <1>0, <2>1 DEF Sound
  <2> USE DEF y, k, m
  <2> QED
    BY <2>1, <2>3, <2>4 DEF Sound, Busy
<1>3. Sound(runs[r], task[runs[r].task])'
  BY <1>0 DEF OwnRun, Sound, Busy
<1>4. Owned'
  BY <1>0, <1>2, <1>3 DEF Owned
<1>l. Len(runs') = Len(runs) /\ DOMAIN runs = 1..Len(runs) /\ Len(runs) \in Nat
  <2>1. IsSequence(runs) /\ IsSequence(runs')
    BY DEF AgreedInv, RunInv, RunTable
  <2>2. runs' = [q \in DOMAIN runs' |-> runs'[q]] /\ DOMAIN runs = 1..Len(runs) /\ Len(runs) \in Nat
    BY <2>1 DEF IsSequence
  <2>3. runs' = [q \in DOMAIN runs |-> runs'[q]]
    BY <1>0, <2>2
  <2>4. Len(runs') = Len(runs)
    BY ONLY <2>1, <2>3, SameIndices
  <2> QED
    BY <2>2, <2>4
<1>5. Youngest'
  BY <1>0, <1>l DEF AgreedInv, Youngest, OwnRun, Busy
<1>6. ASSUME runs[r].state = "None", x.state # "None"
      PROVE  /\ r = Len(runs) /\ x.ready = task[x.task].frozen.ver
             /\ task[x.task].life = "Ready"
  <2>1. Busy(runs[r]) /\ x.ready = task'[x.task].frozen.ver
    BY <1>6 DEF OwnRun
  <2>2. r = Len(runs) /\ task[x.task].life = "Ready"
    BY <1>0, <1>6, <2>1 DEF AgreedInv, Youngest, Sound
  <2> QED
    BY <1>0, <2>1, <2>2 DEF OneRun
<1>7. Ordered'
  <2> SUFFICES ASSUME NEW p \in DOMAIN runs, NEW q \in DOMAIN runs, p < q,
                      runs'[p].task = runs'[q].task,
                      runs'[p].state # "None", runs'[q].state # "None"
               PROVE  runs'[p].ready < runs'[q].ready
    BY <1>0 DEF Ordered
  <2>1. runs'[p].task = runs[p].task /\ runs'[q].task = runs[q].task
    BY <1>0
  <2>2. CASE runs[r].state # "None" \/ x.state = "None"
    <3>1. /\ runs[p].state # "None" /\ runs'[p].ready = runs[p].ready
          /\ runs[q].state # "None" /\ runs'[q].ready = runs[q].ready
      BY <1>0, <2>2 DEF OwnRun
    <3> QED
      BY <2>1, <3>1 DEF AgreedInv, Ordered
  <2>3. CASE runs[r].state = "None" /\ x.state # "None"
    <3>1. r = Len(runs) /\ x.ready = task[x.task].frozen.ver /\ task[x.task].life = "Ready"
      BY <1>6, <2>3
    <3>2. p # r
      BY <1>l, <3>1
    <3>3. CASE q = r
      <4>1. Sound(runs[p], task[x.task]) /\ runs[p].state # "None" /\ runs'[p].ready = runs[p].ready
        BY <1>0, <2>1, <3>2, <3>3
      <4> QED
        BY <1>0, <3>1, <3>3, <4>1 DEF Sound
    <3>4. CASE q # r
      BY <1>0, <2>1, <3>2, <3>4 DEF AgreedInv, Ordered
    <3> QED
      BY <3>3, <3>4
  <2> QED
    BY <2>2, <2>3
<1>8. Judged'
  <2> SUFFICES ASSUME NEW t \in Tasks, task'[t].life \in Offered
               PROVE  \E q \in RunsOf(t)' :
                          runs'[q].done /\ runs'[q].ready = task'[t].frozen.ver
    BY DEF Judged
  <2>1. task'[t].frozen = task[t].frozen
    BY DEF OneRun
  <2>2. CASE task[t].life \in Offered
    <3>1. PICK q \in RunsOf(t) : runs[q].done /\ runs[q].ready = task[t].frozen.ver
      BY <2>2 DEF AgreedInv, Judged
    <3>2. q \in DOMAIN runs /\ runs[q].task = t /\ runs[q].state # "None"
      BY DEF RunsOf
    <3>3. /\ runs'[q].task = t /\ runs'[q].state # "None"
          /\ runs'[q].done /\ runs'[q].ready = runs[q].ready
      BY <1>0, <3>1, <3>2 DEF OwnRun
    <3> QED
      BY <1>0, <2>1, <3>1, <3>2, <3>3 DEF RunsOf
  <2>3. CASE task[t].life \notin Offered
    <3>1. t = x.task
      BY <2>3 DEF OneRun
    <3>2. x.state # "None" /\ x.done /\ x.ready = task'[t].frozen.ver
      BY <2>3, <3>1 DEF OwnRun, Sound
    <3>3. r \in RunsOf(t)'
      BY <1>0, <3>1, <3>2 DEF RunsOf
    <3> QED
      BY <1>0, <3>2, <3>3
  <2> QED
    BY <2>2, <2>3
<1> QED
  BY <1>1, <1>4, <1>5, <1>7, <1>8

(***************************************************************************)
(* The requests.                                                           *)
(***************************************************************************)
Preparing(kind) == worker.pc = "preparing" /\ worker.item.kind = kind

\* Neither a task nor a run is written.
LEMMA NothingWritten ==
    ASSUME AgreedInv, RunInv', task' = task, runs' = runs, profile' = profile \/ BusyRuns = {},
           \A t \in Tasks : Waits(t) => Waits(t)',
           \A t \in Tasks : ExecutingDiscussion(t)' <=> ExecutingDiscussion(t),
           Preparing("resume")' => Preparing("resume") /\ worker'.item = worker.item
    PROVE  AgreedInv'
<1>1. Talking'
  BY TalkingKept
<1>2. Versioned' /\ Owned' /\ Youngest' /\ Ordered' /\ Resumable' /\ Judged'
  BY RunsKept, StillMoves DEF Preparing
<1> QED
  BY <1>1, <1>2 DEF AgreedInv

\* One task is written, whose discussion does not begin.
LEMMA TaskWritten ==
    ASSUME AgreedInv, RunInv', NEW t \in Tasks, NEW x,
           SaveFusion(t, x), x = [f \in TaskFields |-> x[f]], Moves(task[t], x),
           runs' = runs, profile' = profile, queue' = queue, worker' = worker,
           x.disc \in Underway => x.disc = task[t].disc /\ x.life = task[t].life,
           ExecutingDiscussion(t) => x.disc = task[t].disc
    PROVE  AgreedInv'
<1>1. task'[t] = x /\ \A u \in Tasks : u # t => task'[u] = task[u]
  BY Saved DEF AgreedInv, RunInv
<1>2. \A u \in Tasks : Moves(task[u], task'[u])
  BY <1>1, StillMoves
<1>3. Versioned' /\ Owned' /\ Youngest' /\ Ordered' /\ Resumable' /\ Judged'
  BY <1>2, RunsKept
<1>4. Talking'
  BY <1>1, TalkingKept DEF Waits, ExecutingDiscussion, Executing
<1> QED
  BY <1>3, <1>4 DEF AgreedInv

\* What a project that is not busy does not have.
LEMMA NotBusy ==
    ASSUME AgreedInv, ~ProjectBusy
    PROVE  /\ BusyRuns = {}
           /\ \A t \in Tasks : task[t].disc \notin Underway /\ ~ExecutingDiscussion(t)
<1>1. BusyRuns = {} /\ \A t \in Tasks : task[t].disc \notin Underway
  BY DEF ProjectBusy, BusyDiscussions, Underway
<1> QED
  BY <1>1 DEF AgreedInv, Talking, ExecutingDiscussion, Underway

LEMMA AgreedRequests ==
    ASSUME AgreedInv, RunInv', NEW t \in Tasks,
           \/ CreateDiscussingTask(t) \/ RequestDiscussion(t) \/ StopDiscussion(t)
           \/ FreezeReady(t) \/ ReturnToDiscussion(t)
           \/ \E accept \in BOOLEAN : OwnerAcceptance(t, accept)
    PROVE  AgreedInv'
<1> DEFINE k == task[t]
<1>0. /\ k = [f \in TaskFields |-> k[f]] /\ k.frozen.ver \in Nat
      /\ worker = [f \in Fields |-> worker[f]]
      /\ k.disc \in Underway => k.life = "Discussing"
      /\ ExecutingDiscussion(t) => k.disc = "Running" /\ k.life = "Discussing"
  BY DEF AgreedInv, RunInv, SessionInv, Tables, Memory, Versioned, Talking, ExecutingDiscussion,
         Underway
<1>1. CASE CreateDiscussingTask(t)
  <2> DEFINE x == [NoTask EXCEPT !.life = "Discussing"]
  <2>1. /\ SaveFusion(t, x) /\ runs' = runs /\ profile' = profile /\ queue' = queue
        /\ worker' = worker /\ k.life = "Absent"
    BY <1>1 DEF CreateDiscussingTask
  <2>2. k = NoTask
    BY <2>1 DEF AgreedInv, Versioned
  <2>3. /\ x = [f \in TaskFields |-> x[f]] /\ x.disc = "Idle" /\ x.life = "Discussing"
        /\ x.frozen = NoTask.frozen /\ x.session = NoTask.session
    BY DEF NoTask, TaskFields
  <2> HIDE DEF x
  <2>4. Moves(k, x)
    BY <1>0, <2>1, <2>2, <2>3 DEF Moves, Offered
  <2> QED
    BY <1>0, <2>1, <2>3, <2>4, TaskWritten DEF Underway
<1>2. CASE RequestDiscussion(t)
  <2> DEFINE x == [k EXCEPT !.disc = "Queued"]
  <2>1. /\ SaveFusion(t, x) /\ runs' = runs /\ profile' = profile /\ worker' = worker
        /\ queue' = Append(queue, Discussion(t)) /\ ~ProjectBusy /\ k.life = "Discussing"
    BY <1>2 DEF RequestDiscussion, EditableDiscussion
  <2>2. /\ x = [f \in TaskFields |-> x[f]] /\ x.disc = "Queued"
        /\ x.life = k.life /\ x.frozen = k.frozen /\ x.session = k.session
    BY <1>0 DEF TaskFields
  <2> HIDE DEF x
  <2>3. Moves(k, x)
    BY <1>0, <2>1, <2>2 DEF Moves
  <2>4. task'[t] = x /\ \A u \in Tasks : u # t => task'[u] = task[u]
    BY <2>1, <2>2, Saved DEF AgreedInv, RunInv
  <2>5. \A u \in Tasks : Moves(task[u], task'[u])
    BY <2>3, <2>4, StillMoves
  <2>6. Versioned' /\ Owned' /\ Youngest' /\ Ordered' /\ Resumable' /\ Judged'
    BY <2>1, <2>5, RunsKept
  <2>7. /\ \A u \in Tasks : task[u].disc \notin Underway /\ ~ExecutingDiscussion(u)
        /\ ~Executing({"discuss"})
    <3>1. \A u \in Tasks : task[u].disc \notin Underway /\ ~ExecutingDiscussion(u)
      BY <2>1, NotBusy
    <3> QED
      BY <3>1 DEF AgreedInv, RunInv, SessionInv, Memory, ExecutingDiscussion
  <2>8. ~Executing({"discuss"})'
    BY <2>1, <2>7 DEF Executing
  <2>9. Waits(t)'
    BY <2>1, WaitsAdd DEF AgreedInv
  <2>10. Talking'
    BY <2>1, <2>2, <2>4, <2>7, <2>8, <2>9 DEF Talking, DiscussionAttended, Waits, Underway
  <2> QED
    BY <2>6, <2>10 DEF AgreedInv
<1>3. CASE StopDiscussion(t)
  <2>0. runs' = runs /\ profile' = profile /\ queue' = queue
    BY <1>3 DEF StopDiscussion
  <2>1. CASE ExecutingDiscussion(t)
    <3>1. worker' = [worker EXCEPT !.stop = "cancel"] /\ task' = task
      BY <1>3, <2>1 DEF StopDiscussion
    <3>2. worker'.pc = worker.pc /\ worker'.item = worker.item
      BY <1>0, <3>1 DEF Fields
    <3> QED
      BY <2>0, <3>1, <3>2, NothingWritten DEF Waits, ExecutingDiscussion, Executing, Preparing
  <2>2. CASE ~ExecutingDiscussion(t)
    <3> DEFINE x == [k EXCEPT !.disc = "Blocked"]
    <3>1. SaveFusion(t, x) /\ worker' = worker
      BY <1>3, <2>2 DEF StopDiscussion
    <3>2. /\ x = [f \in TaskFields |-> x[f]] /\ x.disc = "Blocked"
          /\ x.life = k.life /\ x.frozen = k.frozen /\ x.session = k.session
          /\ k.disc = "Queued"
      BY <1>0, <1>3, <2>2 DEF TaskFields, StopDiscussion
    <3> HIDE DEF x
    <3>3. Moves(k, x)
      BY <1>0, <3>2 DEF Moves, Underway
    <3> QED
      BY <2>0, <2>2, <3>1, <3>2, <3>3, TaskWritten DEF Underway
  <2> QED
    BY <2>1, <2>2
<1>4. CASE FreezeReady(t)
  <2> DEFINE x == [k EXCEPT !.life = "Ready",
                      !.frozen = [ver |-> @.ver + 1, session |-> k.session,
                                  profile |-> profile, stamp |-> bound[t].stamp]]
  <2>1. /\ SaveFusion(t, x) /\ runs' = runs /\ profile' = profile /\ queue' = queue
        /\ worker' = worker /\ ~ProjectBusy
    BY <1>4 DEF FreezeReady
  <2>2. /\ x = [f \in TaskFields |-> x[f]] /\ x.disc = k.disc /\ x.life = "Ready"
        /\ x.frozen.ver = k.frozen.ver + 1
    BY <1>0 DEF TaskFields
  <2> HIDE DEF x
  <2>3. BusyRuns = {} /\ k.disc \notin Underway
    BY <2>1, NotBusy
  <2>4. Moves(k, x)
    BY <1>0, <2>2, <2>3 DEF Moves, Offered
  <2> QED
    BY <2>1, <2>2, <2>3, <2>4, TaskWritten
<1>5. CASE ReturnToDiscussion(t)
  <2> DEFINE x == [k EXCEPT !.life = "Discussing", !.disc = "NeedsDiscussion"]
  <2>1. /\ SaveFusion(t, x) /\ runs' = runs /\ profile' = profile /\ queue' = queue
        /\ worker' = worker /\ ~ProjectBusy
    BY <1>5 DEF ReturnToDiscussion
  <2>2. /\ x = [f \in TaskFields |-> x[f]] /\ x.disc = "NeedsDiscussion"
        /\ x.life = "Discussing" /\ x.frozen = k.frozen /\ x.session = k.session
    BY <1>0 DEF TaskFields
  <2> HIDE DEF x
  <2>3. BusyRuns = {} /\ ~ExecutingDiscussion(t)
    BY <2>1, NotBusy
  <2>4. Moves(k, x)
    BY <1>0, <2>2, <2>3 DEF Moves, Offered
  <2> QED
    BY <2>1, <2>2, <2>3, <2>4, TaskWritten DEF Underway
<1>6. ASSUME NEW accept \in BOOLEAN, OwnerAcceptance(t, accept)
      PROVE  AgreedInv'
  <2> DEFINE x == IF accept THEN [k EXCEPT !.life = "Done"]
                  ELSE [k EXCEPT !.life = "Discussing", !.disc = "NeedsDiscussion"]
  <2>1. /\ SaveFusion(t, x) /\ runs' = runs /\ profile' = profile /\ queue' = queue
        /\ worker' = worker /\ k.life = "AwaitingAcceptance"
    BY <1>6 DEF OwnerAcceptance
  <2>2. /\ x = [f \in TaskFields |-> x[f]] /\ x.disc \in {k.disc, "NeedsDiscussion"}
        /\ x.life \in {"Done", "Discussing"} /\ x.frozen = k.frozen /\ x.session = k.session
    BY <1>0 DEF TaskFields
  <2> HIDE DEF x
  <2>3. k.disc \notin Underway /\ ~ExecutingDiscussion(t)
    BY <1>0, <2>1
  <2>4. Moves(k, x)
    BY <1>0, <2>1, <2>2 DEF Moves, Offered
  <2> QED
    BY <2>1, <2>2, <2>3, <2>4, TaskWritten DEF Underway
<1> QED
  BY <1>1, <1>2, <1>3, <1>4, <1>5, <1>6

\* A run moves its task on: nothing else of the task changes, and no discussion is under way.
LEMMA LifeMoved ==
    ASSUME AgreedInv, NEW r \in DOMAIN runs, NEW life \in {"Active", "AwaitingAcceptance"},
           \/ task' = task
           \/ Busy(runs[r]) /\ task' = [task EXCEPT ![runs[r].task].life = life]
    PROVE  /\ \A t \in Tasks :
                 /\ t # runs[r].task => task'[t] = task[t]
                 /\ task'[t].frozen = task[t].frozen /\ task'[t].session = task[t].session
                 /\ task'[t].disc = task[t].disc
                 /\ task'[t].life # task[t].life =>
                       /\ Busy(runs[r]) /\ task'[t].life = life
                       /\ task[t].disc \notin Underway
                 /\ task'[t].life = "Absent" => task'[t] = task[t]
           /\ task' # task => task'[runs[r].task].life = life
<1> DEFINE u == runs[r].task
<1>0. /\ task = [t \in Tasks |-> task[t]] /\ u \in Tasks
      /\ \A t \in Tasks : task[t] = [f \in TaskFields |-> task[t][f]]
  BY DEF AgreedInv, RunInv, SessionInv, Tables, Owned
<1>1. CASE task' = task
  BY <1>1
<1>2. CASE Busy(runs[r]) /\ task' = [task EXCEPT ![u].life = life]
  <2>1. task'[u] = [task[u] EXCEPT !.life = life] /\ \A t \in Tasks : t # u => task'[t] = task[t]
    BY <1>0, <1>2
  <2>2. /\ task'[u].frozen = task[u].frozen /\ task'[u].session = task[u].session
        /\ task'[u].disc = task[u].disc /\ task'[u].life = life
    BY <1>0, <2>1 DEF TaskFields
  <2>3. \A t \in Tasks : task[t].disc \notin Underway
    BY <1>2, BusyIsOne DEF AgreedInv, BusyDiscussions, Underway
  <2> QED
    BY <1>0, <1>2, <2>1, <2>2, <2>3
<1> QED
  BY <1>1, <1>2

LEMMA RunStepped ==
    ASSUME AgreedInv, RunInv', NEW r \in DOMAIN runs, NEW x, x = [f \in RunFields |-> x[f]],
           runs' = [runs EXCEPT ![r] = x], profile' = profile,
           NEW life \in {"Active", "AwaitingAcceptance"},
           \/ task' = task
           \/ Busy(runs[r]) /\ task' = [task EXCEPT ![runs[r].task].life = life],
           OwnRun(r, x, task'[x.task]), Resumable',
           \A t \in Tasks : Waits(t) => Waits(t)',
           \A t \in Tasks : ExecutingDiscussion(t)' <=> ExecutingDiscussion(t)
    PROVE  AgreedInv'
<1>1. /\ DOMAIN runs' = DOMAIN runs /\ runs'[r] = x
      /\ \A q \in DOMAIN runs : q # r => runs'[q] = runs[q]
  BY Changed DEF AgreedInv, RunInv
<1>2. x.task = runs[r].task
  BY DEF OwnRun
<1>3. \A t \in Tasks :
                 /\ t # runs[r].task => task'[t] = task[t]
                 /\ task'[t].frozen = task[t].frozen /\ task'[t].session = task[t].session
                 /\ task'[t].disc = task[t].disc
                 /\ task'[t].life # task[t].life =>
                       /\ Busy(runs[r]) /\ task'[t].life = life
                       /\ task[t].disc \notin Underway
                 /\ task'[t].life = "Absent" => task'[t] = task[t]
  BY LifeMoved
<1>4. OneRun(r, x)
  BY <1>1, <1>2, <1>3 DEF OneRun
<1>5. Versioned' /\ Owned' /\ Youngest' /\ Ordered' /\ Judged'
  BY <1>4, RunWritten
<1>6. Talking'
  BY <1>3, TalkingKept
<1> QED
  BY <1>5, <1>6 DEF AgreedInv

LEMMA AgreedRequestRun == ASSUME AgreedInv, RunInv', NEW t \in Tasks, RequestRun(t) PROVE AgreedInv'
<1> DEFINE r == Len(runs) + 1
           x == [task |-> t, state |-> "None", ticket |-> "Queued", ready |-> 0,
                 stamp |-> None, supported |-> TRUE, final |-> FALSE, done |-> FALSE]
<1>1. /\ runs' = Append(runs, x) /\ queue' = Append(queue, RunItem("run", r))
      /\ ~ProjectBusy /\ task' = task /\ worker' = worker /\ profile' = profile
      /\ task[t].life = "Ready"
  BY DEF RequestRun
<1>2. /\ x.task = t /\ x.state = "None" /\ x.ticket = "Queued" /\ x.ready = 0
      /\ x.done = FALSE
  OBVIOUS
<1> HIDE DEF x
<1>3. IsSequence(runs)
  BY DEF AgreedInv, RunInv, RunTable
<1>4. /\ Len(runs) \in Nat /\ Len(runs') = r /\ DOMAIN runs = 1..Len(runs)
      /\ DOMAIN runs' = 1..r /\ runs'[r] = x
      /\ \A q \in 1..Len(runs) : runs'[q] = runs[q]
  BY ONLY <1>1, <1>3, Appended
<1>5. /\ \A q \in DOMAIN runs' : q = r \/ q \in DOMAIN runs
      /\ \A q \in DOMAIN runs : q \in DOMAIN runs' /\ runs'[q] = runs[q]
  BY <1>4
<1> HIDE DEF r
<1>6. Sound(x, task[t])
  BY <1>1, <1>2 DEF Sound, Active
<1>7. Owned'
  <2> SUFFICES ASSUME NEW q \in DOMAIN runs'
               PROVE  runs'[q].task \in Tasks /\ Sound(runs[q], task[runs[q].task])'
    BY DEF Owned
  <2>1. runs'[q].task \in Tasks /\ Sound(runs'[q], task[runs'[q].task])
    BY <1>2, <1>4, <1>5, <1>6 DEF AgreedInv, Owned
  <2> QED
    BY <1>1, <2>1 DEF Sound, Busy
<1>8. Youngest' /\ Ordered'
  <2>1. BusyRuns = {}
    BY <1>1, NotBusy
  <2>2. \A q \in DOMAIN runs : ~Busy(runs[q])
    BY <2>1 DEF BusyRuns, Busy
  <2>3. Youngest'
    BY <1>4, <1>5, <2>2 DEF Youngest, Busy
  <2>4. Ordered'
    BY <1>2, <1>4, <1>5 DEF Ordered, AgreedInv
  <2> QED
    BY <2>3, <2>4
<1>9. Resumable'
  <2>1. worker.pc = "preparing" /\ worker.item.kind = "resume" => worker.item.run \in DOMAIN runs
    BY DEF AgreedInv, RunInv, AtWork, Executing, OfRuns
  <2> QED
    BY <1>1, <1>5, <2>1 DEF AgreedInv, Resumable
<1>10. Judged'
  <2> SUFFICES ASSUME NEW u \in Tasks, task'[u].life \in Offered
               PROVE  \E q \in RunsOf(u)' :
                          runs'[q].done /\ runs'[q].ready = task'[u].frozen.ver
    BY DEF Judged
  <2>1. PICK q \in RunsOf(u) : runs[q].done /\ runs[q].ready = task[u].frozen.ver
    BY <1>1 DEF AgreedInv, Judged
  <2>2. q \in DOMAIN runs /\ runs[q].task = u
    BY DEF RunsOf
  <2> QED
    BY <1>1, <1>5, <2>1, <2>2 DEF RunsOf
<1>11. Talking'
  <2>1. \A u \in Tasks : Waits(u) => Waits(u)'
    BY <1>1, WaitsAdd DEF AgreedInv
  <2> QED
    BY <1>1, <2>1, TalkingKept DEF ExecutingDiscussion, Executing
<1>12. Versioned'
  BY <1>1 DEF AgreedInv, Versioned
<1> QED
  BY <1>7, <1>8, <1>9, <1>10, <1>11, <1>12 DEF AgreedInv

LEMMA AgreedRunRequests ==
    ASSUME AgreedInv, RunInv', NEW r \in DOMAIN runs,
           \/ RequestResume(r) \/ CancelStored(r)
           \/ \E pause \in BOOLEAN : StopExecuting(r, pause)
           \/ \E approved \in BOOLEAN : RequestApproval(r, approved)
    PROVE  AgreedInv'
<1> DEFINE y == runs[r]
           k == task[y.task]
<1>0. /\ y = [f \in RunFields |-> y[f]] /\ Sound(y, k) /\ y.task \in Tasks
      /\ worker = [f \in Fields |-> worker[f]]
  BY DEF AgreedInv, RunInv, SessionInv, Memory, RunTable, Owned
<1>1. CASE RequestResume(r)
  <2> DEFINE x == [y EXCEPT !.ticket = "Queued"]
  <2>1. /\ runs' = [runs EXCEPT ![r] = x] /\ queue' = Append(queue, RunItem("resume", r))
        /\ CanResume(r) /\ task' = task /\ worker' = worker /\ profile' = profile
    BY <1>1 DEF RequestResume
  <2>2. /\ x = [f \in RunFields |-> x[f]] /\ x.state = y.state /\ x.ticket = "Queued"
        /\ x.task = y.task /\ x.ready = y.ready /\ x.stamp = y.stamp /\ x.done = y.done
        /\ y.state \in {"Paused", "Blocked"}
    BY <1>0, <2>1 DEF RunFields, CanResume
  <2> HIDE DEF x
  <2>3. /\ DOMAIN runs' = DOMAIN runs /\ runs'[r] = x
        /\ \A q \in DOMAIN runs : q # r => runs'[q] = runs[q]
    BY <2>1, <2>2, Changed DEF AgreedInv, RunInv
  <2>4. OwnRun(r, x, task'[x.task])
    BY <1>0, <2>1, <2>2 DEF OwnRun, Sound, Active
  <2>5. Resumable'
    <3>1. worker.pc = "preparing" /\ worker.item.kind = "resume" => worker.item.run \in DOMAIN runs
      BY DEF AgreedInv, RunInv, AtWork, Executing, OfRuns
    <3> QED
      BY <2>1, <2>2, <2>3, <3>1 DEF AgreedInv, Resumable
  <2>6. \A t \in Tasks : Waits(t) => Waits(t)'
    BY <2>1, WaitsAdd DEF AgreedInv
  <2>7. \A t \in Tasks : ExecutingDiscussion(t)' <=> ExecutingDiscussion(t)
    BY <2>1 DEF ExecutingDiscussion, Executing
  <2> QED
    BY <2>1, <2>2, <2>4, <2>5, <2>6, <2>7, RunStepped
<1>2. CASE CancelStored(r)
  <2> DEFINE x == [y EXCEPT !.ticket = "Cancelled",
                            !.state = IF @ = "None" THEN "None" ELSE "Cancelled"]
  <2>1. /\ runs' = [runs EXCEPT ![r] = x] /\ queue' = queue /\ profile' = profile
        /\ task' = task /\ worker' = worker
        /\ y.state # "None" => y.state \in {"Paused", "Blocked", "Waiting"}
    BY <1>2 DEF CancelStored
  <2>2. /\ x = [f \in RunFields |-> x[f]] /\ x.ticket = "Cancelled"
        /\ x.state = IF y.state = "None" THEN "None" ELSE "Cancelled"
        /\ x.task = y.task /\ x.ready = y.ready /\ x.stamp = y.stamp /\ x.done = y.done
    BY <1>0 DEF RunFields
  <2> HIDE DEF x
  <2>3. /\ DOMAIN runs' = DOMAIN runs /\ runs'[r] = x
        /\ \A q \in DOMAIN runs : q # r => runs'[q] = runs[q]
    BY <2>1, <2>2, Changed DEF AgreedInv, RunInv
  <2>4. OwnRun(r, x, task'[x.task])
    <3>1. ~Busy(x)
      BY <2>2 DEF Busy, Active
    <3> QED
      BY <1>0, <2>1, <2>2, <3>1 DEF OwnRun, Sound, Active
  <2>5. Resumable'
    <3>1. worker.pc = "preparing" /\ worker.item.kind = "resume" => worker.item.run \in DOMAIN runs
      BY DEF AgreedInv, RunInv, AtWork, Executing, OfRuns
    <3> QED
      BY <2>1, <2>2, <2>3, <3>1 DEF AgreedInv, Resumable
  <2>6. \A t \in Tasks : (Waits(t) => Waits(t)') /\ (ExecutingDiscussion(t)' <=> ExecutingDiscussion(t))
    BY <2>1 DEF Waits, ExecutingDiscussion, Executing
  <2> QED
    BY <2>1, <2>2, <2>4, <2>5, <2>6, RunStepped
<1>3. ASSUME NEW pause \in BOOLEAN, StopExecuting(r, pause) PROVE AgreedInv'
  <2> DEFINE stop == IF pause THEN "pause" ELSE "cancel"
  <2>1. /\ worker' = [worker EXCEPT !.stop = stop]
        /\ task' = task /\ queue' = queue /\ runs' = runs /\ profile' = profile
    BY <1>3 DEF StopExecuting
  <2>2. worker'.pc = worker.pc /\ worker'.item = worker.item
    BY <1>0, <2>1 DEF Fields
  <2> QED
    BY <2>1, <2>2, NothingWritten DEF Waits, ExecutingDiscussion, Executing, Preparing
<1>4. ASSUME NEW approved \in BOOLEAN, RequestApproval(r, approved) PROVE AgreedInv'
  <2>1. /\ queue' = Append(queue, Decision(r, approved)) /\ profile' = profile
        /\ task' = task /\ worker' = worker /\ runs' = runs
    BY <1>4 DEF RequestApproval
  <2>2. \A t \in Tasks : Waits(t) => Waits(t)'
    BY <2>1, WaitsAdd DEF AgreedInv
  <2> QED
    BY <2>1, <2>2, NothingWritten DEF ExecutingDiscussion, Executing, Preparing
<1> QED
  BY <1>1, <1>2, <1>3, <1>4

(***************************************************************************)
(* The worker.                                                             *)
(***************************************************************************)
LEMMA AgreedDiscussions ==
    ASSUME AgreedInv, RunInv',
           \/ TakeDiscussion \/ BindDiscussion \/ DiscussionSucceeds \/ DiscussionFails
           \/ \E s \in Sessions : ObserveSession(s)
    PROVE  AgreedInv'
<1>0. /\ \A t \in Tasks : task[t] = [f \in TaskFields |-> task[t][f]] /\ task[t].frozen.ver \in Nat
      /\ worker = [f \in Fields |-> worker[f]] /\ Memory /\ RunInv
  BY DEF AgreedInv, RunInv, SessionInv, Tables, Memory, Versioned
<1>1. CASE TakeDiscussion
  <2>1. /\ Taken /\ runs' = runs /\ profile' = profile /\ Head(queue).kind = "discuss"
        /\ worker.pc = "idle"
    BY <1>1 DEF TakeDiscussion, Taken
  <2>2. PICK t \in Tasks : t = Head(queue).task /\ task[t].frozen.ver \in Nat
    BY <1>0, <2>1, MemoryTake
  <2> DEFINE x == [task[t] EXCEPT !.disc = "Running"]
  <2>3. \A u \in Tasks : u # t => (Waits(u) => Waits(u)')
    <3>1. \A u \in Tasks : u # t => Head(queue) # Discussion(u)
      BY <2>2 DEF Discussion
    <3> QED
      BY <1>0, <2>1, <3>1, WaitsTake
  <2>4. CASE task[t].disc = "Queued"
    <3>1. /\ SaveFusion(t, x)
          /\ worker' = [Resting EXCEPT !.pc = "preparing", !.item = Head(queue)]
      BY <1>1, <2>2, <2>4 DEF TakeDiscussion
    <3>2. worker'.pc = "preparing" /\ worker'.item = Head(queue)
      BY <3>1 DEF Resting
    <3>3. /\ x = [f \in TaskFields |-> x[f]] /\ x.disc = "Running" /\ x.life = task[t].life
          /\ x.frozen = task[t].frozen /\ x.session = task[t].session
      BY <1>0, <2>2 DEF TaskFields
    <3>4. task[t].life = "Discussing"
      BY <2>2, <2>4 DEF AgreedInv, Talking, Underway
    <3> HIDE DEF x
    <3>5. task'[t] = x /\ \A u \in Tasks : u # t => task'[u] = task[u]
      BY <2>2, <3>1, <3>3, Saved DEF AgreedInv, RunInv
    <3>6. Moves(task[t], x)
      BY <2>2, <3>3, <3>4 DEF Moves
    <3>7. \A u \in Tasks : Moves(task[u], task'[u])
      BY <3>5, <3>6, StillMoves
    <3>8. Versioned' /\ Owned' /\ Youngest' /\ Ordered' /\ Resumable' /\ Judged'
      BY <2>1, <3>2, <3>7, RunsKept
    <3>9. Talking'
      <4>1. Executing({"discuss"})' /\ worker'.item.task = t /\ ExecutingDiscussion(t)'
        BY <2>1, <2>2, <3>2 DEF Executing, ExecutingDiscussion
      <4>2. \A u \in Tasks : u # t =>
                /\ task'[u].disc = "Queued" => Waits(u)'
                /\ task'[u].disc # "Running"
        <5>1. \A u \in Tasks : task[u].disc # "Running"
          BY <2>1 DEF AgreedInv, Talking, DiscussionAttended, ExecutingDiscussion, Executing
        <5>2. \A u \in Tasks : task[u].disc = "Queued" => Waits(u)
          BY DEF AgreedInv, Talking, DiscussionAttended, Waits
        <5> QED
          BY <2>3, <3>5, <5>1, <5>2
      <4>3. DiscussionAttended'
        <5> SUFFICES ASSUME NEW u \in Tasks
                     PROVE  /\ task'[u].disc = "Queued" => Waits(u)'
                            /\ task'[u].disc = "Running" => ExecutingDiscussion(u)'
          BY DEF DiscussionAttended, Waits
        <5>1. CASE u = t
          BY <3>3, <3>5, <4>1, <5>1
        <5>2. CASE u # t
          BY <4>2, <5>2
        <5> QED
          BY <5>1, <5>2
      <4>4. \A u \in Tasks : task'[u].disc \in Underway => task'[u].life = "Discussing"
        BY <3>3, <3>4, <3>5 DEF AgreedInv, Talking
      <4> QED
        BY <2>2, <3>3, <3>5, <4>1, <4>3, <4>4 DEF Talking
    <3> QED
      BY <3>8, <3>9 DEF AgreedInv
  <2>5. CASE task[t].disc # "Queued"
    <3>1. task' = task /\ worker' = worker
      BY <1>1, <2>2, <2>5 DEF TakeDiscussion
    <3>2. \A u \in Tasks : Moves(task[u], task'[u])
      BY <3>1, StillMoves
    <3>3. Versioned' /\ Owned' /\ Youngest' /\ Ordered' /\ Resumable' /\ Judged'
      BY <2>1, <3>1, <3>2, RunsKept
    <3>4. DiscussionAttended'
      <4> SUFFICES ASSUME NEW u \in Tasks
                   PROVE  /\ task'[u].disc = "Queued" => Waits(u)'
                          /\ task'[u].disc = "Running" => ExecutingDiscussion(u)'
        BY DEF DiscussionAttended, Waits
      <4>1. /\ task[u].disc = "Queued" => Waits(u)
            /\ task[u].disc = "Running" => ExecutingDiscussion(u)
        BY DEF AgreedInv, Talking, DiscussionAttended, Waits
      <4> QED
        BY <2>3, <2>5, <3>1, <4>1 DEF ExecutingDiscussion, Executing
    <3>5. Talking'
      BY <3>1, <3>4 DEF AgreedInv, Talking, Executing
    <3> QED
      BY <3>3, <3>5 DEF AgreedInv
  <2> QED
    BY <2>4, <2>5
<1>2. CASE BindDiscussion \/ \E s \in Sessions : ObserveSession(s)
  <2>1. /\ runs' = runs /\ task' = task /\ queue' = queue /\ profile' = profile
        /\ \E pc \in {"asking", "answered"} : worker' = [worker EXCEPT !.pc = pc]
        /\ worker.item.kind = "discuss" /\ worker.pc # "idle"
    BY <1>2 DEF BindDiscussion, ObserveSession, Working
  <2>2. worker'.item = worker.item /\ worker'.pc \in {"asking", "answered"}
    BY <1>0, <2>1 DEF Fields
  <2> QED
    BY <2>1, <2>2, NothingWritten DEF Waits, ExecutingDiscussion, Executing, Preparing
<1>3. CASE DiscussionSucceeds \/ DiscussionFails
  <2>1. /\ runs' = runs /\ queue' = queue /\ worker' = Resting /\ profile' = profile
        /\ Executing({"discuss"})
    BY <1>3 DEF DiscussionSucceeds, DiscussionFails, Working, Executing
  <2>2. PICK t \in Tasks : /\ t = worker.item.task /\ ExecutingDiscussion(t)
                           /\ task[t].frozen.ver \in Nat
    BY <1>0, <2>1 DEF Memory, ExecutingDiscussion
  <2>3. PICK x : /\ SaveFusion(t, x) /\ x = [f \in TaskFields |-> x[f]]
                 /\ x.disc \in {"Idle", "Blocked"}
                 /\ x.life = task[t].life /\ x.frozen = task[t].frozen
    <3>1. CASE DiscussionSucceeds
      <4> DEFINE x == [task[t] EXCEPT !.session = bound[t].session, !.disc = "Idle",
                                      !.spoken = TRUE]
      <4>1. SaveFusion(t, x)
        BY <2>2, <3>1 DEF DiscussionSucceeds
      <4>2. /\ x = [f \in TaskFields |-> x[f]] /\ x.disc = "Idle"
            /\ x.life = task[t].life /\ x.frozen = task[t].frozen
        BY <1>0 DEF TaskFields
      <4> HIDE DEF x
      <4> QED
        BY <4>1, <4>2
    <3>2. CASE DiscussionFails
      <4> DEFINE x == [task[t] EXCEPT !.session = KnownSession(t), !.disc = "Blocked"]
      <4>1. SaveFusion(t, x)
        BY <2>2, <3>2 DEF DiscussionFails
      <4>2. /\ x = [f \in TaskFields |-> x[f]] /\ x.disc = "Blocked"
            /\ x.life = task[t].life /\ x.frozen = task[t].frozen
        BY <1>0 DEF TaskFields
      <4> HIDE DEF x
      <4> QED
        BY <4>1, <4>2
    <3> QED
      BY <1>3, <3>1, <3>2
  <2>4. worker'.pc = "idle"
    BY <2>1 DEF Resting
  <2>5. task[t].disc = "Running" /\ task[t].life = "Discussing"
    BY <2>1, <2>2 DEF AgreedInv, Talking, Underway
  <2>6. BusyRuns = {}
    BY <1>0, <2>2, <2>5 DEF RunInv, Single, BusyDiscussions
  <2>7. task'[t] = x /\ \A u \in Tasks : u # t => task'[u] = task[u]
    BY <2>2, <2>3, Saved DEF AgreedInv, RunInv
  <2>8. \A u \in Tasks : u # t => task[u].disc # "Running"
    BY <2>2 DEF AgreedInv, Talking, DiscussionAttended, ExecutingDiscussion
  <2>9. Moves(task[t], x)
    BY <2>2, <2>3, <2>5, <2>6 DEF Moves
  <2>10. \A u \in Tasks : Moves(task[u], task'[u])
    BY <2>7, <2>9, StillMoves
  <2>11. Versioned' /\ Owned' /\ Youngest' /\ Ordered' /\ Resumable' /\ Judged'
    BY <2>1, <2>4, <2>10, RunsKept
  <2>12. Talking'
    BY <2>1, <2>3, <2>4, <2>7, <2>8
       DEF AgreedInv, Talking, DiscussionAttended, Executing, Underway
  <2> QED
    BY <2>11, <2>12 DEF AgreedInv
<1> QED
  BY <1>1, <1>2, <1>3

LEMMA AgreedTaken == ASSUME AgreedInv, RunInv', TakeRun \/ TakeDecision PROVE AgreedInv'
<1> DEFINE r == Head(queue).run
           y == runs[r]
           k == task[y.task]
<1>0. /\ RunInv /\ Memory /\ IsSequence(queue) /\ RunTable /\ Queued
      /\ \A q \in DOMAIN runs :
            /\ runs[q] = [f \in RunFields |-> runs[q][f]]
            /\ runs[q].task \in Tasks /\ Sound(runs[q], task[runs[q].task])
  BY DEF AgreedInv, RunInv, SessionInv, Memory, RunTable, Owned
<1>1. /\ Taken /\ task' = task /\ worker.pc = "idle" /\ profile' = profile
      /\ Head(queue).kind \in {"run", "resume", "decision"}
  BY DEF TakeRun, TakeDecision, Taken
<1>2. queue # <<>> /\ Head(queue) = queue[1] /\ 1 \in 1..Len(queue)
  BY <1>0, <1>1, Tailed DEF Taken
<1>3. /\ r \in DOMAIN runs
      /\ Head(queue).kind = "resume" => y.state # "None"
  BY <1>0, <1>1, <1>2 DEF Queued, OfRuns
<1>4. \A u \in Tasks : Waits(u) => Waits(u)'
  <2>1. \A u \in Tasks : Head(queue) # Discussion(u)
    BY <1>1 DEF Discussion
  <2> QED
    BY <1>0, <1>1, <2>1, WaitsTake
<1>5. CASE runs' = runs /\ worker' = worker
  BY <1>1, <1>4, <1>5, NothingWritten DEF ExecutingDiscussion, Executing, Preparing
<1>6. CASE TakeRun /\ y.ticket = "Queued"
  <2> DEFINE x == [y EXCEPT !.ticket = "Running"]
  <2>1. /\ runs' = [runs EXCEPT ![r] = x]
        /\ worker' = [Resting EXCEPT !.pc = "preparing", !.item = Head(queue)]
        /\ Head(queue).kind \in {"run", "resume"}
    BY <1>6 DEF TakeRun
  <2>2. /\ x = [f \in RunFields |-> x[f]]
        /\ x.state = y.state /\ x.ticket = "Running"
        /\ x.task = y.task /\ x.ready = y.ready /\ x.stamp = y.stamp /\ x.done = y.done
    BY <1>0, <1>3 DEF RunFields
  <2>3. worker'.pc = "preparing" /\ worker'.item = Head(queue)
    BY <2>1 DEF Resting
  <2>4. Sound(y, k)
    BY <1>0, <1>3
  <2>5. y.state \in {"None", "Paused", "Blocked", "Failed"}
    BY <1>6, <2>4 DEF Sound
  <2> HIDE DEF x
  <2>6. OwnRun(r, x, task'[x.task])
    BY <1>1, <1>6, <2>2, <2>4, <2>5 DEF OwnRun, Sound, Busy, Active
  <2>7. /\ DOMAIN runs' = DOMAIN runs /\ runs'[r] = x
    BY <1>0, <1>3, <2>1, <2>2, Changed
  <2>8. Resumable'
    BY <1>3, <2>2, <2>3, <2>5, <2>7 DEF Resumable
  <2>9. \A t \in Tasks : ExecutingDiscussion(t)' <=> ExecutingDiscussion(t)
    BY <1>1, <2>1, <2>3 DEF ExecutingDiscussion, Executing
  <2> QED
    BY <1>1, <1>3, <1>4, <2>1, <2>2, <2>6, <2>8, <2>9, RunStepped
<1>7. CASE TakeDecision /\ y.state = "Waiting"
  <2>1. PICK x : /\ runs' = [runs EXCEPT ![r] = x] /\ x = [f \in RunFields |-> x[f]]
                 /\ x.task = y.task /\ x.ready = y.ready /\ x.stamp = y.stamp
                 /\ x.ticket = y.ticket /\ x.done = y.done
                 /\ x.state \in {"Running", "Blocked", "Failed"}
                 /\ worker' \in {worker, [Resting EXCEPT !.pc = "calling", !.item = Head(queue)]}
    <3>1. CASE Head(queue).approved
      <4> DEFINE x == [y EXCEPT !.state = "Running"]
      <4>1. /\ runs' = [runs EXCEPT ![r] = x]
            /\ worker' \in {worker, [Resting EXCEPT !.pc = "calling", !.item = Head(queue)]}
        BY <1>7, <3>1 DEF TakeDecision
      <4>2. /\ x = [f \in RunFields |-> x[f]] /\ x.state = "Running" /\ x.ticket = y.ticket
            /\ x.task = y.task /\ x.ready = y.ready /\ x.stamp = y.stamp /\ x.done = y.done
        BY <1>0, <1>3 DEF RunFields
      <4> HIDE DEF x
      <4> QED
        BY <4>1, <4>2
    <3>2. CASE ~Head(queue).approved
      <4>1. PICK state \in {"Blocked", "Failed"} :
                runs' = [runs EXCEPT ![r].state = state, ![r].final = TRUE]
        BY <1>7, <3>2 DEF TakeDecision
      <4> DEFINE x == [y EXCEPT !.state = state, !.final = TRUE]
      <4>2. runs' = [runs EXCEPT ![r] = x] /\ worker' = worker
        BY <1>7, <3>2, <4>1 DEF TakeDecision
      <4>3. /\ x = [f \in RunFields |-> x[f]] /\ x.state = state /\ x.ticket = y.ticket
            /\ x.task = y.task /\ x.ready = y.ready /\ x.stamp = y.stamp /\ x.done = y.done
        BY <1>0, <1>3 DEF RunFields
      <4> HIDE DEF x
      <4> QED
        BY <4>2, <4>3
    <3> QED
      BY <3>1, <3>2
  <2>2. worker'.pc \in {"idle", "calling"} /\ (worker' = worker \/ worker'.item = Head(queue))
    BY <1>1, <2>1 DEF Resting
  <2>3. Sound(y, k)
    BY <1>0, <1>3
  <2>4. OwnRun(r, x, task'[x.task])
    <3>1. y.ticket # "Queued" /\ y.state = "Waiting" /\ y.state \in Active
      BY <1>7, <2>3 DEF Sound, Active
    <3> QED
      BY <1>1, <2>1, <2>3, <3>1 DEF OwnRun, Sound, Active
  <2>5. Resumable'
    BY <2>2 DEF Resumable
  <2>6. \A t \in Tasks : ExecutingDiscussion(t)' <=> ExecutingDiscussion(t)
    <3>1. Head(queue).kind = "decision"
      BY <1>7 DEF TakeDecision
    <3> QED
      BY <1>1, <2>2, <3>1 DEF ExecutingDiscussion, Executing
  <2> QED
    BY <1>1, <1>3, <1>4, <2>1, <2>4, <2>5, <2>6, RunStepped
<1>8. TakeRun /\ y.ticket # "Queued" => runs' = runs /\ worker' = worker
  BY DEF TakeRun
<1>9. TakeDecision /\ y.state # "Waiting" => runs' = runs /\ worker' = worker
  BY DEF TakeDecision
<1> QED
  BY <1>5, <1>6, <1>7, <1>8, <1>9

LEMMA AgreedRuns ==
    ASSUME AgreedInv, RunInv',
           \/ Prepared \/ NotPrepared \/ EventThrows \/ CallThrows \/ FileTicket
           \/ \E state \in {"Completed", "Waiting", "Failed", "Blocked", "Paused", "Cancelled"} :
                 RunEnds(state)
    PROVE  AgreedInv'
<1> DEFINE r == worker.item.run
           y == runs[r]
           u == y.task
           k == task[u]
<1>0. /\ RunInv /\ RunTable /\ AtWork /\ Memory /\ worker = [f \in Fields |-> worker[f]]
      /\ \A q \in DOMAIN runs :
            /\ runs[q] = [f \in RunFields |-> runs[q][f]]
            /\ runs[q].task \in Tasks /\ Sound(runs[q], task[runs[q].task])
            /\ task[runs[q].task].frozen.ver \in Nat
  BY DEF AgreedInv, RunInv, SessionInv, Memory, RunTable, Owned, Versioned
<1>d. ~Executing({"discuss"})
  <2>1. worker.item.kind # "discuss"
    BY <1>0 DEF Prepared, NotPrepared, EventThrows, CallThrows, FileTicket, RunEnds, Working,
                Memory
  <2> QED
    BY <2>1 DEF Executing
<1>w. queue' = queue /\ profile' = profile
  BY DEF Prepared, NotPrepared, EventThrows, CallThrows, FileTicket, RunEnds
<1>e. /\ \A t \in Tasks : Waits(t) => Waits(t)'
      /\ ~Executing({"discuss"})' =>
            \A t \in Tasks : ExecutingDiscussion(t)' <=> ExecutingDiscussion(t)
  BY <1>d, <1>w DEF Waits, ExecutingDiscussion
<1>p. ASSUME Working({"run", "resume"}, "preparing")
      PROVE  /\ r \in DOMAIN runs
             /\ worker.item.kind = "run" => y.state = "None" /\ y.ticket = "Running"
             /\ worker.item.kind = "resume" =>
                   y.state \in {"Paused", "Blocked", "Cancelled", "Failed"}
             /\ y.state \in {"Paused", "Blocked"} => y.ticket = "Running"
             /\ y.state = "None" => worker.item.kind = "run"
  BY <1>0, <1>p DEF AtWork, Working, Executing, OfRuns, AgreedInv, Resumable
<1>1. CASE Prepared
  <2> DEFINE x == [y EXCEPT !.state = "Running", !.stamp = stamp, !.final = FALSE,
                            !.ready = k.frozen.ver]
  <2>1. /\ runs' = [runs EXCEPT ![r] = x] /\ worker' = [worker EXCEPT !.pc = "calling"]
        /\ Working({"run", "resume"}, "preparing")
        /\ task' = IF worker.item.kind = "run" THEN [task EXCEPT ![u].life = "Active"] ELSE task
        /\ ValidateFrozen(u) /\ StampMatches(r)
        /\ worker.item.kind = "resume" =>
              FingerprintMatches(r) /\ y.state \in {"Paused", "Blocked"} /\ ~y.done
    BY <1>1 DEF Prepared
  <2>2. /\ r \in DOMAIN runs /\ y.ticket = "Running" /\ Sound(y, k) /\ u \in Tasks
        /\ k.frozen.ver \in Nat
        /\ worker.item.kind = "run" => y.state = "None"
        /\ worker.item.kind # "run" => worker.item.kind = "resume"
    BY <1>0, <1>p, <2>1 DEF Working
  <2>3. /\ x = [f \in RunFields |-> x[f]] /\ x.state = "Running" /\ x.ready = k.frozen.ver
        /\ x.task = y.task /\ x.ticket = "Running" /\ x.stamp = stamp /\ x.done = y.done
    BY <1>0, <2>2 DEF RunFields
  <2> HIDE DEF x
  <2>4. worker'.pc = "calling" /\ worker'.item = worker.item /\ worker.item.kind # "discuss"
    BY <1>0, <2>1 DEF Fields, Working
  <2>5. Busy(y)
    BY <2>2 DEF Busy
  <2>6. task' = task \/ (Busy(y) /\ task' = [task EXCEPT ![u].life = "Active"])
    BY <2>1, <2>5
  <2> HIDE DEF k
  <2>7. k.frozen.session = k.session /\ k.frozen.profile = profile /\ k.frozen.stamp = stamp
    BY <2>1 DEF ValidateFrozen, StampMatches, k
  <2>8. PICK m : /\ m = task'[u] /\ m.frozen = k.frozen /\ m.session = k.session
                 /\ m.life = k.life \/ m.life = "Active"
                 /\ worker.item.kind = "run" => m.life = "Active"
    <3>1. /\ task'[u].frozen = k.frozen /\ task'[u].session = k.session
          /\ task'[u].life = k.life \/ task'[u].life = "Active"
          /\ task' # task => task'[u].life = "Active"
      BY <2>2, <2>6, LifeMoved DEF k
    <3>2. worker.item.kind = "run" => task'[u].life = "Active"
      <4>1. task = [t \in Tasks |-> task[t]] /\ k = [f \in TaskFields |-> k[f]]
        BY <1>0, <2>2 DEF RunInv, SessionInv, Tables, k
      <4>2. worker.item.kind = "run" => task'[u] = [k EXCEPT !.life = "Active"]
        BY <2>1, <2>2, <4>1 DEF k
      <4> QED
        BY <4>1, <4>2 DEF TaskFields
    <3> QED
      BY <3>1, <3>2
  <2>9. worker.item.kind = "resume" => y.ready = k.frozen.ver /\ y.state # "None"
    BY <2>1 DEF FingerprintMatches, k
  <2> HIDE DEF y, u
  <2>n. ~x.done
    BY <2>1, <2>2, <2>3 DEF Sound, y
  <2>10. worker.item.kind = "resume" => k.life # "Ready"
    BY <2>2, <2>9 DEF Sound
  <2>11. Sound(x, m)
    BY <2>1, <2>2, <2>3, <2>7, <2>8, <2>10, <2>n DEF Sound
  <2>12. OwnRun(r, x, m)
    BY <2>1, <2>2, <2>3, <2>5, <2>8, <2>9, <2>11 DEF OwnRun, Offered, y, k, u
  <2>13. Resumable'
    BY <2>4 DEF Resumable
  <2>14. ~Executing({"discuss"})'
    BY <2>4 DEF Executing
  <2> USE DEF y, u
  <2> QED
    BY <1>e, <1>w, <2>1, <2>2, <2>3, <2>6, <2>8, <2>12, <2>13, <2>14, RunStepped
<1>2. CASE NotPrepared
  <2> DEFINE first == y.state = "None"
  <2>1. /\ worker' = Resting /\ Working({"run", "resume"}, "preparing")
        /\ task' = IF first THEN [task EXCEPT ![u].life = "Active"] ELSE task
    BY <1>2 DEF NotPrepared
  <2>2. /\ r \in DOMAIN runs /\ Sound(y, k) /\ u \in Tasks /\ k.frozen.ver \in Nat
        /\ y = [f \in RunFields |-> y[f]]
        /\ first => y.ticket = "Running"
        /\ ~first => y.state \in {"Paused", "Blocked", "Cancelled", "Failed"}
    BY <1>0, <1>p, <2>1 DEF Working
  <2>3. PICK state \in {"Blocked", "Cancelled", "Paused"}, invalid \in BOOLEAN :
            runs' = [runs EXCEPT
                ![r].state = state,
                ![r].ticket = IF state = "Cancelled" THEN "Cancelled" ELSE "Finished",
                ![r].ready = IF runs[r].state = "None" THEN task[runs[r].task].frozen.ver ELSE @,
                ![r].final = invalid, ![r].supported = @ /\ ~invalid]
    BY <1>2, ZenonT(60) DEF NotPrepared
  <2> DEFINE x == [y EXCEPT
                !.state = state,
                !.ticket = IF state = "Cancelled" THEN "Cancelled" ELSE "Finished",
                !.ready = IF y.state = "None" THEN k.frozen.ver ELSE @,
                !.final = invalid, !.supported = @ /\ ~invalid]
  <2>4. runs' = [runs EXCEPT ![r] = x]
    BY <2>3
  <2>5. /\ x = [f \in RunFields |-> x[f]]
        /\ x.state = state /\ x.ticket \in {"Cancelled", "Finished"} /\ x.task = y.task
        /\ x.ready = (IF first THEN k.frozen.ver ELSE y.ready) /\ x.done = y.done
    <3> HIDE DEF y, k
    <3> QED
      BY <2>2 DEF RunFields
  <2> HIDE DEF x
  <2>6. worker'.pc = "idle"
    BY <2>1 DEF Resting
  <2>7. first => Busy(y)
    BY <2>2 DEF Busy
  <2>8. task' = task \/ (Busy(y) /\ task' = [task EXCEPT ![u].life = "Active"])
    BY <2>1, <2>7
  <2>9. PICK m : /\ m = task'[u] /\ m.frozen = k.frozen
                 /\ m.life = k.life \/ m.life = "Active"
                 /\ first => m.life = "Active"
    <3>1. /\ task'[u].frozen = k.frozen
          /\ task'[u].life = k.life \/ task'[u].life = "Active"
      BY <2>2, <2>8, LifeMoved
    <3>2. first => task'[u].life = "Active"
      <4>1. task = [t \in Tasks |-> task[t]] /\ k = [f \in TaskFields |-> k[f]]
        BY <1>0, <2>2 DEF RunInv, SessionInv, Tables
      <4>2. first => task'[u] = [k EXCEPT !.life = "Active"]
        BY <2>1, <2>2, <4>1
      <4> QED
        BY <4>1, <4>2 DEF TaskFields
    <3> QED
      BY <3>1, <3>2
  <2> HIDE DEF y, u, k
  <2>10. Sound(x, m)
    BY <2>2, <2>5, <2>9 DEF Sound, Busy, Active
  <2>11. OwnRun(r, x, m)
    BY <2>2, <2>5, <2>7, <2>9, <2>10 DEF OwnRun, Offered, y, k, u
  <2>12. Resumable'
    BY <2>6 DEF Resumable
  <2>13. ~Executing({"discuss"})'
    BY <2>6 DEF Executing
  <2> USE DEF y, u
  <2> QED
    BY <1>e, <1>w, <2>2, <2>4, <2>5, <2>8, <2>9, <2>11, <2>12, <2>13, RunStepped
<1>3. ASSUME NEW state \in {"Completed", "Waiting", "Failed", "Blocked", "Paused", "Cancelled"},
             RunEnds(state)
      PROVE  AgreedInv'
  <2>1. /\ worker' = [worker EXCEPT !.pc = "file", !.seen = state]
        /\ worker.pc = "calling"
        /\ task' = IF state = "Completed" THEN [task EXCEPT ![u].life = "AwaitingAcceptance"]
                                          ELSE task
    BY <1>3 DEF RunEnds
  <2>2. /\ r \in DOMAIN runs /\ y.state = "Running" /\ worker.item.kind \in OfRuns
        /\ Sound(y, k) /\ u \in Tasks /\ y = [f \in RunFields |-> y[f]]
    BY <1>0, <2>1 DEF AtWork, Executing
  <2>3. PICK final \in BOOLEAN :
            runs' = [runs EXCEPT ![r].state = state, ![r].final = final /\ state = "Blocked",
                                 ![r].done = @ \/ state = "Completed"]
    BY <1>3, ZenonT(60) DEF RunEnds
  <2> DEFINE x == [y EXCEPT !.state = state, !.final = final /\ state = "Blocked",
                            !.done = @ \/ state = "Completed"]
  <2>4. runs' = [runs EXCEPT ![r] = x]
    BY <2>3
  <2>5. /\ x = [f \in RunFields |-> x[f]] /\ x.state = state
        /\ x.task = y.task /\ x.ready = y.ready /\ x.stamp = y.stamp /\ x.ticket = y.ticket
        /\ x.done = (y.done \/ state = "Completed")
    <3> HIDE DEF y
    <3> QED
      BY <2>2 DEF RunFields
  <2> HIDE DEF x
  <2>6. worker'.pc = "file" /\ worker'.item = worker.item
    BY <1>0, <2>1 DEF Fields
  <2>7. Busy(y)
    BY <2>2 DEF Busy, Active
  <2>8. task' = task \/ (Busy(y) /\ task' = [task EXCEPT ![u].life = "AwaitingAcceptance"])
    BY <2>1, <2>7
  <2>9. PICK m : /\ m = task'[u] /\ m.frozen = k.frozen /\ m.session = k.session
                 /\ m.life # k.life => m.life = "AwaitingAcceptance" /\ state = "Completed"
    <3>1. /\ task'[u].frozen = k.frozen /\ task'[u].session = k.session
          /\ task'[u].life = k.life \/ task'[u].life = "AwaitingAcceptance"
      BY <2>2, <2>8, LifeMoved
    <3>2. state # "Completed" => task'[u].life = k.life
      BY <2>1
    <3> HIDE DEF k
    <3> QED
      BY <3>1, <3>2
  <2> HIDE DEF y, u, k
  <2>10. /\ y.ticket # "Queued" /\ ~y.done /\ k.life # "Ready" /\ k.frozen.ver = y.ready /\ y.ready \in Nat
         /\ k.frozen.session = k.session /\ k.frozen.profile = profile /\ k.frozen.stamp = y.stamp
    BY <2>2 DEF Sound, Active
  <2>11. Sound(x, m)
    <3>1. x.done => x.state \notin Active \cup {"None"}
      BY <2>5, <2>10 DEF Active
    <3>2. x.ready \in Nat /\ x.ready = m.frozen.ver /\ m.life # "Ready"
      BY <2>5, <2>9, <2>10
    <3>3. x.state # "None" /\ x.ticket # "Queued"
      BY <2>5, <2>10
    <3>4. /\ m.frozen.ver = x.ready /\ m.frozen.session = m.session
          /\ m.frozen.profile = profile /\ m.frozen.stamp = x.stamp
      BY <2>5, <2>9, <2>10
    <3> QED
      BY <3>1, <3>2, <3>3, <3>4 DEF Sound
  <2>12. OwnRun(r, x, m)
    BY <2>2, <2>5, <2>7, <2>9, <2>10, <2>11 DEF OwnRun, y, k, u
  <2>13. Resumable'
    BY <2>6 DEF Resumable
  <2>14. ~Executing({"discuss"})'
    BY <2>2, <2>6 DEF Executing, OfRuns
  <2> USE DEF y, u
  <2> QED
    BY <1>e, <1>w, <2>2, <2>4, <2>5, <2>8, <2>9, <2>12, <2>13, <2>14, RunStepped
<1>4. CASE FileTicket
  <2>1. worker' = Resting /\ task' = task /\ worker.pc = "file"
    BY <1>4 DEF FileTicket
  <2>2. /\ r \in DOMAIN runs /\ worker.item.kind \in OfRuns /\ Sound(y, k)
    BY <1>0, <2>1 DEF AtWork, Executing
  <2>3. worker'.pc = "idle"
    BY <2>1 DEF Resting
  <2>4. ~Executing({"discuss"})' /\ Resumable' /\ ~Preparing("resume")'
    BY <2>3 DEF Executing, Resumable, Preparing
  <2>5. CASE worker.item.kind = "decision"
    <3>1. runs' = runs
      BY <1>4, <2>5 DEF FileTicket
    <3> QED
      BY <1>e, <1>w, <2>1, <2>4, <3>1, NothingWritten
  <2>6. CASE worker.item.kind # "decision"
    <3> DEFINE ticket == IF worker.seen = "Cancelled" THEN "Cancelled" ELSE "Finished"
               x == [y EXCEPT !.ticket = ticket]
    <3>1. runs' = [runs EXCEPT ![r] = x]
      BY <1>4, <2>6 DEF FileTicket
    <3>2. /\ x = [f \in RunFields |-> x[f]]
          /\ x.state = y.state /\ x.ticket \in {"Cancelled", "Finished"}
          /\ x.task = y.task /\ x.ready = y.ready /\ x.stamp = y.stamp /\ x.done = y.done
      BY <1>0, <2>2 DEF RunFields
    <3> HIDE DEF x
    <3>3. Sound(x, k) /\ (x.state = "None" => ~Busy(x))
      BY <2>2, <3>2 DEF Sound, Busy, Active
    <3>4. OwnRun(r, x, task'[x.task])
      BY <2>1, <3>2, <3>3 DEF OwnRun
    <3> QED
      BY <1>e, <1>w, <2>1, <2>2, <2>4, <3>1, <3>2, <3>4, RunStepped
  <2> QED
    BY <2>5, <2>6
<1>5. CASE EventThrows \/ CallThrows
  <2>1. /\ worker.pc = "file" /\ task' = task
        /\ worker' = Resting \/ worker' = [worker EXCEPT !.seen = "Failed"]
    BY <1>5 DEF EventThrows, CallThrows
  <2>2. /\ r \in DOMAIN runs /\ worker.item.kind \in OfRuns /\ Sound(y, k)
        /\ y = [f \in RunFields |-> y[f]]
    BY <1>0, <2>1 DEF AtWork, Executing
  <2>3. PICK x : /\ runs' = [runs EXCEPT ![r] = x] /\ x = [f \in RunFields |-> x[f]]
                 /\ \/ x.state = "Failed" /\ x.ticket = y.ticket
                    \/ x.state = "Blocked" /\ x.ticket = "Finished"
                 /\ x.task = y.task /\ x.ready = y.ready /\ x.done = y.done
    <3>1. CASE EventThrows
      <4> DEFINE x == [y EXCEPT !.state = "Failed", !.final = FALSE]
      <4>1. runs' = [runs EXCEPT ![r] = x]
        BY <3>1 DEF EventThrows
      <4>2. /\ x = [f \in RunFields |-> x[f]] /\ x.state = "Failed" /\ x.ticket = y.ticket
            /\ x.task = y.task /\ x.ready = y.ready /\ x.done = y.done
        BY <2>2 DEF RunFields
      <4> HIDE DEF x
      <4> QED
        BY <4>1, <4>2
    <3>2. CASE CallThrows
      <4> DEFINE x == [y EXCEPT !.state = "Blocked", !.final = FALSE, !.ticket = "Finished"]
      <4>1. runs' = [runs EXCEPT ![r] = x]
        BY <3>2 DEF CallThrows
      <4>2. /\ x = [f \in RunFields |-> x[f]] /\ x.state = "Blocked" /\ x.ticket = "Finished"
            /\ x.task = y.task /\ x.ready = y.ready /\ x.done = y.done
        BY <2>2 DEF RunFields
      <4> HIDE DEF x
      <4> QED
        BY <4>1, <4>2
    <3> QED
      BY <1>5, <3>1, <3>2
  <2>4. worker'.pc = "idle" \/ (worker'.pc = "file" /\ worker'.item = worker.item)
    BY <1>0, <2>1 DEF Resting, Fields
  <2>5. ~Executing({"discuss"})' /\ Resumable'
    BY <2>2, <2>4 DEF Executing, OfRuns, Resumable
  <2>6. y.state # "None"
    BY <1>0, <2>1 DEF AtWork
  <2>7. Sound(x, k)
    <3> HIDE DEF y, k
    <3> QED
      BY <2>2, <2>3, <2>6 DEF Sound, Active
  <2>8. OwnRun(r, x, task'[x.task])
    BY <2>1, <2>3, <2>6, <2>7 DEF OwnRun
  <2> QED
    BY <1>e, <1>w, <2>1, <2>2, <2>3, <2>5, <2>8, RunStepped
<1> QED
  BY <1>1, <1>2, <1>3, <1>4, <1>5

LEMMA AgreedRestart == ASSUME AgreedInv, RunInv', Restart PROVE AgreedInv'
<1>0. /\ IsSequence(runs)
      /\ \A t \in Tasks : task[t] = [f \in TaskFields |-> task[t][f]]
      /\ \A r \in DOMAIN runs : runs[r] = [f \in RunFields |-> runs[r][f]]
  BY DEF AgreedInv, RunInv, RunTable, SessionInv, Tables
<1>1. /\ runs' = [r \in DOMAIN runs |-> RecoverRun(runs[r])] /\ queue' = <<>> /\ worker' = Resting
      /\ task' = [t \in Tasks |-> RecoverDiscussion(t)] /\ profile' = profile
  BY DEF Restart
<1>2. worker'.pc = "idle"
  BY <1>1 DEF Resting
<1>3. ASSUME NEW t \in Tasks
      PROVE  /\ task'[t].disc \notin Underway /\ task'[t].life = task[t].life
             /\ task'[t].frozen = task[t].frozen
             /\ task[t].life = "Absent" => task'[t] = task[t]
  <2>1. task'[t] = RecoverDiscussion(t)
    BY <1>1
  <2>2. CASE task[t].disc \in Underway
    <3>1. task'[t] = [task[t] EXCEPT !.disc = "Blocked", !.session = KnownSession(t)]
      BY <2>1, <2>2 DEF RecoverDiscussion, Underway
    <3>2. task[t].life = "Discussing"
      BY <2>2 DEF AgreedInv, Talking
    <3> QED
      BY <1>0, <3>1, <3>2 DEF TaskFields, Underway
  <2>3. CASE task[t].disc \notin Underway
    BY <2>1, <2>3 DEF RecoverDiscussion, Underway
  <2> QED
    BY <2>2, <2>3
<1>4. ASSUME NEW r \in DOMAIN runs
      PROVE  /\ runs'[r].task = runs[r].task /\ runs'[r].ready = runs[r].ready
             /\ runs'[r].state = "None" <=> runs[r].state = "None"
             /\ runs'[r].done = runs[r].done
             /\ ~Busy(runs'[r])
  <2>1. runs'[r] = RecoverRun(runs[r])
    BY <1>1
  <2>2. /\ runs'[r].task = runs[r].task /\ runs'[r].ready = runs[r].ready
        /\ runs'[r].done = runs[r].done
        /\ runs'[r].state = IF runs[r].state \in Active \cup {"Paused"} THEN "Blocked"
                            ELSE runs[r].state
        /\ runs'[r].ticket = IF runs[r].ticket \in {"Queued", "Running"} THEN "Interrupted"
                             ELSE runs[r].ticket
    BY <1>0, <2>1 DEF RecoverRun, RunFields
  <2> QED
    BY <2>2 DEF Busy, Active
<1>5. DOMAIN runs' = DOMAIN runs
  BY <1>1
<1>6. Versioned'
  BY <1>3 DEF AgreedInv, Versioned
<1>7. Talking'
  BY <1>2, <1>3 DEF Talking, DiscussionAttended, Executing, Underway
<1>8. Owned'
  <2> SUFFICES ASSUME NEW r \in DOMAIN runs
               PROVE  runs'[r].task \in Tasks /\ Sound(runs[r], task[runs[r].task])'
    BY <1>5 DEF Owned
  <2>1. runs[r].task \in Tasks /\ Sound(runs[r], task[runs[r].task])
    BY DEF AgreedInv, Owned
  <2>2. runs'[r].state \notin Active /\ runs'[r].ticket # "Queued"
    BY <1>4 DEF Busy
  <2> QED
    BY <1>3, <1>4, <2>1, <2>2 DEF Sound, Busy
<1>9. Youngest' /\ Ordered'
  BY <1>4, <1>5 DEF AgreedInv, Youngest, Ordered, Busy
<1>10. Resumable'
  BY <1>2 DEF Resumable
<1>11. Judged'
  <2> SUFFICES ASSUME NEW t \in Tasks, task'[t].life \in Offered
               PROVE  \E q \in RunsOf(t)' :
                          runs'[q].done /\ runs'[q].ready = task'[t].frozen.ver
    BY DEF Judged
  <2>1. PICK q \in RunsOf(t) : runs[q].done /\ runs[q].ready = task[t].frozen.ver
    BY <1>3 DEF AgreedInv, Judged
  <2>2. q \in DOMAIN runs /\ runs[q].task = t
    BY DEF RunsOf
  <2> QED
    BY <1>3, <1>4, <1>5, <2>1, <2>2 DEF RunsOf
<1> QED
  BY <1>6, <1>7, <1>8, <1>9, <1>10, <1>11 DEF AgreedInv

LEMMA AgreedStep == ASSUME AgreedInv, [Next]_vars PROVE AgreedInv'
<1>0. RunInv'
  BY RunStep DEF AgreedInv
<1>1. CASE UNCHANGED vars
  <2>1. /\ task' = task /\ runs' = runs /\ profile' = profile /\ queue' = queue
        /\ worker' = worker
    BY <1>1 DEF vars
  <2> QED
    BY <1>0, <2>1, NothingWritten DEF Waits, ExecutingDiscussion, Executing, Preparing
<1>2. CASE SaveProject \/ ChangeStamp
  <2>1. /\ task' = task /\ runs' = runs /\ queue' = queue /\ worker' = worker
        /\ profile' = profile \/ BusyRuns = {}
    BY <1>2 DEF SaveProject, ChangeStamp, ProjectBusy
  <2> QED
    BY <1>0, <2>1, NothingWritten DEF Waits, ExecutingDiscussion, Executing, Preparing
<1>3. CASE Process
  BY <1>0, <1>3, AgreedDiscussions, AgreedTaken, AgreedRuns DEF Process
<1> QED
  BY <1>0, <1>1, <1>2, <1>3, AgreedRequests, AgreedRequestRun, AgreedRunRequests, AgreedRestart
     DEF Next

LEMMA AgreedInvariant == Spec => []AgreedInv
  BY AgreedInit, AgreedStep, PTL DEF Spec

\* A run executes under the configuration, the session, the workspace and the version of the
\* Ready snapshot it was started for, however long it was paused, queued or waiting.
THEOREM RunsExecuteAsAgreed == Spec => []ExecutesAsAgreed
<1>1. AgreedInv => ExecutesAsAgreed
  <2> SUFFICES ASSUME AgreedInv, worker.pc = "calling"
               PROVE  LET r == worker.item.run
                          f == task[runs[r].task]
                      IN  /\ f.frozen.ver = runs[r].ready /\ f.frozen.session = f.session
                          /\ f.frozen.profile = profile /\ f.frozen.stamp = runs[r].stamp
    BY DEF ExecutesAsAgreed
  <2>1. worker.item.run \in DOMAIN runs /\ runs[worker.item.run].state = "Running"
    BY DEF AgreedInv, RunInv, AtWork, Executing
  <2> QED
    BY <2>1 DEF AgreedInv, Owned, Sound, Active
<1> QED
  BY <1>1, AgreedInvariant, PTL

\* What the Owner is asked to accept, and what was accepted, is the work of the task's latest
\* run, which went through its workflow under the snapshot in force and executes no more,
\* also when events throw after that; a run that was resumed late never puts a task there.
THEOREM AcceptanceIsOfLatest == Spec => []AwaitingIsDelivered
<1>1. AgreedInv => AwaitingIsDelivered
  <2> SUFFICES ASSUME AgreedInv, NEW t \in Tasks, task[t].life \in {"AwaitingAcceptance", "Done"}
               PROVE  /\ RunsOf(t) # {}
                      /\ runs[Latest(t)].done
                      /\ runs[Latest(t)].ready = task[t].frozen.ver
                      /\ runs[Latest(t)].state \notin Active
    BY DEF AwaitingIsDelivered
  <2>1. PICK r \in RunsOf(t) : runs[r].done /\ runs[r].ready = task[t].frozen.ver
    BY DEF AgreedInv, Judged, Offered
  <2>2. DOMAIN runs = 1..Len(runs) /\ Len(runs) \in Nat
    BY DEF AgreedInv, RunInv, RunTable, IsSequence
  <2>3. \A q \in RunsOf(t) :
            /\ q \in DOMAIN runs /\ q \in Nat /\ runs[q].task = t /\ runs[q].state # "None"
            /\ runs[q].ready \in Nat /\ runs[q].ready <= task[t].frozen.ver
            /\ runs[q].done => runs[q].state \notin Active
    BY <2>2 DEF AgreedInv, Owned, Sound, RunsOf
  <2>4. \A q \in RunsOf(t) : q <= r
    <3> SUFFICES ASSUME NEW q \in RunsOf(t), r < q PROVE FALSE
      BY <2>3
    <3>1. runs[r].ready < runs[q].ready
      BY <2>3 DEF AgreedInv, Ordered
    <3> QED
      BY <2>1, <2>3, <3>1
  <2>5. Latest(t) \in RunsOf(t) /\ \A q \in RunsOf(t) : q <= Latest(t)
    BY <2>4 DEF Latest
  <2>6. Latest(t) = r
    BY <2>3, <2>4, <2>5
  <2> QED
    BY <2>1, <2>3, <2>6
<1> QED
  BY <1>1, AgreedInvariant, PTL

\* A discussion that is shown as queued waits in the queue, and one that is shown as running
\* has the worker, whatever is stopped or restarted.
THEOREM DiscussionsAreAttended == Spec => []DiscussionAttended
  BY AgreedInvariant, PTL DEF AgreedInv, Talking
=============================================================================
