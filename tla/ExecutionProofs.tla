-------------------------- MODULE ExecutionProofs ---------------------------
(***************************************************************************)
(* Proofs about the way of a task to its execution, for every workflow,    *)
(* any number of workers and any combination of faults: a task is at one   *)
(* place at a time (the queue, a handler's hand, a message, an execution,  *)
(* the report of its end), it gets there only after the end of its last    *)
(* execution has been handled, and it does not get lost as long as no      *)
(* process dies.                                                           *)
(*                                                                         *)
(* The inductive invariant Execution says of each node where it can be.    *)
(* Most steps leave every place alone (QuietStep); the others move one     *)
(* node from one place to the next and leave those of the other nodes      *)
(* alone (NodeStays).                                                      *)
(***************************************************************************)
EXTENDS SchedulerProofs

\* The places of a node, as sets with one member for each of its tokens.
InQueue(n) == {i \in 1..Len(queue) : queue[i] = n}

InHand(n) == {j \in jobs : j.task = n}

Sent(n) ==
    UNION {{<<w, i>> : i \in {i \in 1..Len(mailbox[w]) : mailbox[w][i] = n}} : w \in Worker}

RunBy(n) == {w \in Worker : executing[w] = n /\ uploading[w] = {}}

IsEndReport(j) == j.op \in {"taskCompleted", "taskFailed"} /\ j.at = "mark"

Reported(n) == {j \in jobs : IsEndReport(j) /\ j.node = n}

\* Node n will be executed (again), whatever happens to its status.
Waiting(n) == InQueue(n) # {} \/ InHand(n) # {} \/ Sent(n) # {} \/ RunBy(n) # {}

\* The report of the start of n, and reports of failures that may be n's, have
\* not been handled.
StartReported(n) == \E j \in jobs : j.op = "taskStarted" /\ j.node = n

FailReported(n) == \E j \in jobs : j.op = "taskFailed" /\ j.at = "mark" /\ j.node \in {n, None}

AtMostOne(S) == \A x, y \in S : x = y

\* One of five sets has one member at most, the others are empty.
OneOf(a, b, c, d, e) ==
    /\ AtMostOne(a) /\ AtMostOne(b) /\ AtMostOne(c) /\ AtMostOne(d) /\ AtMostOne(e)
    /\ a = {} \/ (b = {} /\ c = {} /\ d = {} /\ e = {})
    /\ b = {} \/ (c = {} /\ d = {} /\ e = {})
    /\ c = {} \/ (d = {} /\ e = {})
    /\ d = {} \/ e = {}

OnePlace(n) == OneOf(InQueue(n), InHand(n), Sent(n), RunBy(n), Reported(n))

NobodyDied == ~crashed /\ \A w \in Worker : alive[w]

\* An artifact that completes n and that no other task produces is there.
OwnArtifactStored(n) ==
    \E a \in ArtifactCriteria[n] : a \in stored /\ \A m \in Node \ {n} : a \notin Results[m]

\* A node at any place is on its way or completed, not to be queued again.
PlacedIsActive(n) ==
    Waiting(n) \/ Reported(n) # {} => status[n] \in {"queued", "running", "succeeded"}

\* An execution that has produced n's own artifact was the last one.
FinishedIsFinal(n) ==
    OwnArtifactStored(n) =>
        /\ status[n] \in {"queued", "running", "succeeded"}
        /\ ~Waiting(n)
        /\ \A j \in Reported(n) : j.op = "taskCompleted"

\* Where a queued node is.
Accounted(n) ==
    NobodyDied /\ status[n] = "queued" =>
        /\ Waiting(n) \/ StartReported(n) \/ FailReported(n)
        /\ RunBy(n) # {} => StartReported(n)

\* With completion criteria of its own, a node succeeds after its execution.
NotAheadOfExecution(n) == OwnCriteria /\ status[n] = "succeeded" => ~Waiting(n)

NodeInv(n) ==
    /\ OnePlace(n)
    /\ PlacedIsActive(n)
    /\ FinishedIsFinal(n)
    /\ Accounted(n)
    /\ NotAheadOfExecution(n)

\* The operations of handlers that give work to a worker.
SchedulingPoints == {"take", "assign", "send", "requeue"}

\* Which handlers have a task in hand and which know their worker; what a
\* handler completes nodes for.
HandShape(j) ==
    /\ j.task \in Node <=> j.at \in {"enqueue", "assign", "send", "requeue"}
    /\ j.at \in SchedulingPoints => j.op \in {"scheduleNext", "scheduleFree"} /\ j.worker \in Worker
    /\ j.at \in {"find", "getWorker", "clearWorker"} => j.op \in {"scheduleNext", "scheduleFree"}
    /\ j.op = "taskStarted" => j.at = "mark"
    /\ j.op = "checkForStaleWorkers" => j.at = "scan"
    /\ j.at = "complete" =>
         \A n \in j.todo : /\ ArtifactCriteria[n] \cup TaskCriteria[n] # {}
                           /\ ArtifactCriteria[n] \subseteq j.store

\* A worker that has no task has nothing left to report.
IdleIsIdle == \A w \in Worker : executing[w] = None => uploading[w] = {}

\* The inductive invariant, on top of Inv and IdleIsIdle.
Execution ==
    /\ \A j \in jobs : HandShape(j)
    /\ \A n \in Node : NodeInv(n)

-----------------------------------------------------------------------------
(* Steps that leave the places of a node alone.                            *)

\* No token of n appears.  The queue may have moved up.
NoMore(n) ==
    /\ InQueue(n) = {} => InQueue(n)' = {}
    /\ AtMostOne(InQueue(n)) => AtMostOne(InQueue(n)')
    /\ InHand(n)' \subseteq InHand(n)
    /\ Sent(n) = {} => Sent(n)' = {}
    /\ AtMostOne(Sent(n)) => AtMostOne(Sent(n)')
    /\ RunBy(n)' \subseteq RunBy(n)
    /\ Reported(n)' \subseteq Reported(n)

\* No token of n disappears, unless a process dies.
NoneLost(n) ==
    NobodyDied' => /\ NobodyDied
                   /\ Waiting(n) => Waiting(n)'
                   /\ StartReported(n) => StartReported(n)'
                   /\ FailReported(n) => FailReported(n)'

\* The status changes that say nothing of where n is.
StatusStays(n) ==
    \/ status'[n] = status[n]
    \/ status[n] = "pending" /\ status'[n] = "canceled"
    \/ status[n] = "running" /\ status'[n] = "succeeded" /\ (OwnCriteria => ~Waiting(n))

OwnArtifactStays(n) == OwnArtifactStored(n)' => OwnArtifactStored(n)

\* What is known of a node stays so if its tokens stay where they are.
LEMMA NodeStays ==
    ASSUME NEW n \in Node, NodeInv(n), NoMore(n), NoneLost(n), StatusStays(n),
           OwnArtifactStays(n)
    PROVE  NodeInv(n)'
<1>1. /\ OnePlace(n) /\ PlacedIsActive(n) /\ FinishedIsFinal(n) /\ Accounted(n)
      /\ NotAheadOfExecution(n)
  BY DEF NodeInv
<1>2. OnePlace(n)'
  BY <1>1 DEF OnePlace, OneOf, AtMostOne, NoMore
<1>3. Waiting(n)' => Waiting(n)
  BY DEF NoMore, Waiting
<1>4. Reported(n)' \subseteq Reported(n)
  BY DEF NoMore
<1>5. PlacedIsActive(n)'
  BY <1>1, <1>3, <1>4 DEF PlacedIsActive, StatusStays
<1>6. FinishedIsFinal(n)'
  BY <1>1, <1>3, <1>4 DEF FinishedIsFinal, StatusStays, OwnArtifactStays
<1>7. Accounted(n)'
  BY <1>1 DEF Accounted, StatusStays, NoneLost, NoMore
<1>8. NotAheadOfExecution(n)'
  BY <1>1, <1>3 DEF NotAheadOfExecution, StatusStays, OwnCriteria
<1>9. QED
  BY <1>2, <1>5, <1>6, <1>7, <1>8 DEF NodeInv

\* The members of Sent(n) are positions in mailboxes.
LEMMA SentMembers ==
    ASSUME NEW n
    PROVE  /\ \A p \in Sent(n) : \E w \in Worker : \E i \in 1..Len(mailbox[w]) :
                p = <<w, i>> /\ mailbox[w][i] = n
           /\ \A w \in Worker : \A i \in 1..Len(mailbox[w]) :
                mailbox[w][i] = n => <<w, i>> \in Sent(n)
BY DEF Sent

\* Places that depend on variables a step leaves alone.
LEMMA PlacesStay ==
    ASSUME NEW n
    PROVE  /\ UNCHANGED queue => InQueue(n)' = InQueue(n)
           /\ UNCHANGED mailbox => Sent(n)' = Sent(n)
           /\ UNCHANGED <<executing, uploading>> => RunBy(n)' = RunBy(n)
           /\ UNCHANGED stored => (OwnArtifactStored(n)' <=> OwnArtifactStored(n))
           /\ UNCHANGED <<alive, crashed>> => (NobodyDied' <=> NobodyDied)
BY DEF InQueue, Sent, RunBy, OwnArtifactStored, NobodyDied

\* A handler that has no task in hand and reports no end of an execution.
Plain(i) ==
    /\ i.task = None
    /\ i.at \notin {"mark", "enqueue", "assign", "send", "requeue"}
    /\ HandShape(i)

\* A handler whose end says nothing of any node.
Idle(i) ==
    /\ i.task = None
    /\ i.op # "taskStarted"
    /\ i.op = "taskFailed" => i.at # "mark"

\* The handlers in flight, when only plain ones appear.
LEMMA PlainJobs ==
    ASSUME \A i \in jobs' : i \in jobs \/ Plain(i), NEW n \in Node
    PROVE  InHand(n)' \subseteq InHand(n) /\ Reported(n)' \subseteq Reported(n)
BY SchedulerAssumption DEF InHand, Reported, IsEndReport, Plain

\* ... and only idle ones go.
LEMMA IdleJobs ==
    ASSUME \A i \in jobs : i \in jobs' \/ Idle(i), NEW n \in Node
    PROVE  /\ InHand(n) \subseteq InHand(n)'
           /\ StartReported(n) => StartReported(n)'
           /\ FailReported(n) => FailReported(n)'
BY SchedulerAssumption DEF InHand, StartReported, FailReported, Idle

\* A step that takes nothing from a place and brings nothing to one.
LEMMA QuietStep ==
    ASSUME Execution,
           \A i \in jobs' : i \in jobs \/ Plain(i),
           \A i \in jobs : i \in jobs' \/ Idle(i),
           UNCHANGED <<queue, mailbox, stored, alive, crashed>>,
           \A n \in Node : RunBy(n)' = RunBy(n),
           \A n \in Node : StatusStays(n)
    PROVE  Execution'
<1>1. \A i \in jobs' : HandShape(i)
  BY DEF Execution, Plain
<1>2. ASSUME NEW n \in Node
      PROVE  NodeInv(n)'
  <2>1. /\ InQueue(n)' = InQueue(n) /\ Sent(n)' = Sent(n) /\ RunBy(n)' = RunBy(n)
        /\ OwnArtifactStays(n) /\ (NobodyDied' <=> NobodyDied)
    BY PlacesStay DEF OwnArtifactStays
  <2>2. InHand(n)' \subseteq InHand(n) /\ Reported(n)' \subseteq Reported(n)
    BY PlainJobs
  <2>3. /\ InHand(n) \subseteq InHand(n)'
        /\ StartReported(n) => StartReported(n)'
        /\ FailReported(n) => FailReported(n)'
    BY IdleJobs
  <2>4. NoMore(n)
    BY <2>1, <2>2 DEF NoMore
  <2>5. NoneLost(n)
    BY <2>1, <2>3 DEF NoneLost, Waiting
  <2>6. QED
    BY <2>1, <2>4, <2>5, NodeStays DEF Execution
<1>3. QED
  BY <1>1, <1>2 DEF Execution, HandShape

-----------------------------------------------------------------------------
(* What follows an operation is plain.                                     *)

\* Most operations leave a handler that is plain whatever its variables are.
LEMMA PlainAt ==
    ASSUME NEW i, i.task = None, i.op # "taskStarted",
           i.op = "checkForStaleWorkers" => i.at = "scan",
           i.at \in {"queue", "write", "free", "clear", "cancel", "unhold", "read", "add", "scan"}
    PROVE  Plain(i)
BY SchedulerAssumption DEF Plain, HandShape, SchedulingPoints

\* A handler between two operations that give work to a worker is plain.
LEMMA PlainSchedule ==
    ASSUME NEW i, i.task = None, i.op \in {"scheduleNext", "scheduleFree"},
           i.at \in {"find", "getWorker", "take", "clearWorker"},
           i.at = "take" => i.worker \in Worker
    PROVE  Plain(i)
BY SchedulerAssumption DEF Plain, HandShape, SchedulingPoints

\* The update of the workflow's status, and the search of the worker whose task
\* has ended.
LEMMA FollowersPlain ==
    ASSUME NEW n
    PROVE  /\ Plain(scheduleNextJob(n))
           /\ \A dag, store : \A i \in checkCompletionCriteria(n, dag, store) : Plain(i)
<1>1. Plain(scheduleNextJob(n))
  <2>1. PICK i : i = scheduleNextJob(n)
    OBVIOUS
  <2>2. i.task = None /\ i.op = "scheduleNext" /\ i.at = "find"
    BY <2>1 DEF scheduleNextJob, Job
  <2>3. QED
    BY <2>1, <2>2, PlainSchedule
<1>2. ASSUME NEW dag, NEW store, NEW i \in checkCompletionCriteria(n, dag, store)
      PROVE  Plain(i)
  <2>1. i = [Job("finishWorkflow", "write", n) EXCEPT !.store = store]
    BY <1>2 DEF checkCompletionCriteria
  <2>2. i.task = None /\ i.op = "finishWorkflow" /\ i.at = "write"
    BY <2>1 DEF Job
  <2>3. QED
    BY <2>2, PlainAt
<1>3. QED
  BY <1>1, <1>2

\* What follows the queueing of tasks is plain.
LEMMA AfterQueueingPlain ==
    ASSUME NEW k \in JobType, k.task = None, k.op \in QueueingOps, NEW i \in AfterQueueing(k)
    PROVE  Plain(i)
<1>1. \A at \in {"free", "clear", "unhold"} : Plain([k EXCEPT !.at = at])
  <2>. TAKE at \in {"free", "clear", "unhold"}
  <2>1. PICK c : c = [k EXCEPT !.at = at]
    OBVIOUS
  <2>2. c.task = None /\ c.op \in QueueingOps /\ c.at = at
    BY <2>1 DEF JobType
  <2>3. QED
    BY <2>1, <2>2, PlainAt DEF QueueingOps
<1>2. CASE k.op \in {"create", "taskFailed", "onWorkerStale"}
  BY <1>1, <1>2 DEF AfterQueueing
<1>3. CASE k.op = "taskCompleted"
  BY <1>3, FollowersPlain DEF AfterQueueing
<1>4. CASE k.op = "onArtifactUploaded"
  BY <1>4, FollowersPlain DEF AfterQueueing
<1>5. QED
  BY <1>2, <1>3, <1>4 DEF QueueingOps

\* So is a handler that queues a set of tasks.
LEMMA QueueAllPlain ==
    ASSUME NEW k \in JobType, k.task = None, k.op \in QueueingOps,
           NEW todo \in SUBSET Node, NEW i \in QueueAll(k, todo)
    PROVE  Plain(i)
<1>1. CASE todo = {}
  <2>1. PICK c : c = [k EXCEPT !.todo = {}]
    OBVIOUS
  <2>2. c \in JobType /\ c.task = None /\ c.op \in QueueingOps
    BY <2>1 DEF JobType
  <2>3. i \in AfterQueueing(c)
    BY <1>1, <2>1 DEF QueueAll
  <2>4. QED
    BY <2>2, <2>3, AfterQueueingPlain
<1>2. CASE todo # {}
  <2>1. i = [k EXCEPT !.at = "queue", !.todo = todo]
    BY <1>2 DEF QueueAll
  <2>2. i.task = None /\ i.op \in QueueingOps /\ i.at = "queue"
    BY <2>1 DEF JobType
  <2>3. QED
    BY <2>2, PlainAt DEF QueueingOps
<1>3. QED
  BY <1>1, <1>2

LEMMA QueueOutstandingPlain ==
    ASSUME NEW k \in JobType, k.task = None, k.op \in QueueingOps, NEW dag, NEW store,
           NEW i \in queueOutStandingTasks(k, dag, store)
    PROVE  Plain(i)
BY QueueAllPlain DEF queueOutStandingTasks, getOutstandingTasksOfDag

\* The nodes an artifact completes meet their criteria with the store the
\* handler was given.
LEMMA CompleteAllPlain ==
    ASSUME NEW k \in JobType, k.task = None, k.op = "onArtifactUploaded",
           NEW todo \in SUBSET Node,
           \A n \in todo : /\ ArtifactCriteria[n] \cup TaskCriteria[n] # {}
                           /\ ArtifactCriteria[n] \subseteq k.store,
           NEW i \in CompleteAll(k, todo)
    PROVE  Plain(i)
<1>1. CASE todo = {}
  <2>1. PICK c : c = [k EXCEPT !.dag = NewDag, !.todo = {}]
    OBVIOUS
  <2>2. c \in JobType /\ c.task = None /\ c.op \in QueueingOps
    BY <2>1 DEF JobType, QueueingOps, NewDag, DagNodeStatus
  <2>3. i \in queueOutStandingTasks(c, k.dag, k.store)
    BY <1>1, <2>1 DEF CompleteAll
  <2>4. QED
    BY <2>2, <2>3, QueueOutstandingPlain
<1>2. CASE todo # {}
  <2>1. i = [k EXCEPT !.at = "complete", !.todo = todo]
    BY <1>2 DEF CompleteAll
  <2>2. /\ i.task = None /\ i.op = "onArtifactUploaded" /\ i.at = "complete"
        /\ i.todo = todo /\ i.store = k.store
    BY <2>1 DEF JobType
  <2>3. QED
    BY <2>2, SchedulerAssumption DEF Plain, HandShape, SchedulingPoints
<1>3. QED
  BY <1>1, <1>2

-----------------------------------------------------------------------------
(* Operations of handlers that move no node.                               *)

\* What is known of a handler in flight.
LEMMA HandlerFacts ==
    ASSUME Inv, Execution, NEW j \in jobs
    PROVE  /\ j \in JobType /\ JobShape(j) /\ JobSound(j) /\ HandShape(j)
           /\ j.task \in Node \cup {None}
           /\ j.at \notin {"enqueue", "assign", "send", "requeue"} => j.task = None
           /\ j.op \notin QueueingOps \cup {"scheduleNext", "scheduleFree"} => j.task = None
BY JobInFlight DEF GoodJob, Execution, HandShape, JobShape, QueueingOps, SchedulingPoints

\* A handler goes on to plain successors.
LEMMA QuietHandler ==
    ASSUME Execution, NEW j \in jobs, Idle(j), NEW S, Become(j, S), \A i \in S : Plain(i),
           UNCHANGED <<queue, processVars, crashed>>,
           \A n \in Node : StatusStays(n)
    PROVE  Execution'
<1>1. \A i \in jobs' : i \in jobs \/ Plain(i)
  BY DEF Become
<1>2. \A i \in jobs : i \in jobs' \/ Idle(i)
  BY DEF Become
<1>3. \A n \in Node : RunBy(n)' = RunBy(n)
  BY PlacesStay DEF processVars
<1>4. QED
  BY <1>1, <1>2, <1>3, QuietStep DEF processVars

LEMMA AbandonQueueingMoves ==
    ASSUME Inv, Execution, NEW j \in jobs, AbandonQueueing(j)
    PROVE  Execution'
BY HandlerFacts, QuietHandler DEF AbandonQueueing, QueueingRefused, Idle, StatusStays, dagVars

LEMMA ScheduleTasksForAllFreeWorkersMoves ==
    ASSUME Inv, Execution, NEW j \in jobs, ScheduleTasksForAllFreeWorkers(j)
    PROVE  Execution'
<1>. DEFINE S == {scheduleFreeJob(w, j.op, j.node, j.tries) : w \in findFreeWorkers}
<1>1. Become(j, S) /\ j.at = "free" /\ UNCHANGED <<dagVars, processVars, queue, crashed>>
  BY DEF ScheduleTasksForAllFreeWorkers
<1>2. ASSUME NEW i \in S
      PROVE  Plain(i)
    <2>1. PICK w \in Worker : i = scheduleFreeJob(w, j.op, j.node, j.tries)
      BY DEF findFreeWorkers
    <2>2. i.task = None /\ i.op = "scheduleFree" /\ i.at = "take" /\ i.worker = w
      BY <2>1 DEF scheduleFreeJob, Job
    <2>3. QED
      BY <2>2, PlainSchedule
<1>. HIDE DEF S
<1>3. QED
  BY <1>1, <1>2, HandlerFacts, QuietHandler DEF Idle, HandShape, StatusStays, dagVars

LEMMA FinishWorkflowMoves ==
    ASSUME Inv, Execution, NEW j \in jobs, FinishWorkflow(j) \/ OnDagFailed(j)
    PROVE  Execution'
<1>1. /\ j.op \in {"finishWorkflow", "onDagFailed"} /\ Become(j, {})
      /\ UNCHANGED <<dagVars, processVars, queue, crashed>>
  BY DEF FinishWorkflow, OnDagFailed
<1>2. Idle(j)
  BY <1>1, HandlerFacts DEF Idle, QueueingOps
<1>3. QED
  BY <1>1, <1>2, QuietHandler DEF StatusStays, dagVars

\* A pending node is canceled: it is at no place.
LEMMA CancelPendingTasksMoves ==
    ASSUME Inv, Execution, NEW j \in jobs, CancelPendingTasks(j)
    PROVE  Execution'
<1>1. /\ j.at = "cancel" /\ cancelAllPendingTasksOf
      /\ Become(j, {[j EXCEPT !.at = "clear"]})
      /\ UNCHANGED <<retryCount, processVars, queue, crashed>>
  BY DEF CancelPendingTasks
<1>2. /\ j \in JobType /\ j.task = None /\ j.op = "taskFailed"
  BY <1>1, HandlerFacts DEF JobShape
<1>3. PICK i : i = [j EXCEPT !.at = "clear"]
  OBVIOUS
<1>4. Plain(i)
  <2>1. i.task = None /\ i.op = "taskFailed" /\ i.at = "clear"
    BY <1>2, <1>3 DEF JobType
  <2>2. QED
    BY <2>1, PlainAt
<1>5. \A n \in Node : StatusStays(n)
  BY <1>1 DEF cancelAllPendingTasksOf, StatusStays, Inv, TypeOK, DagTypeOK
<1>6. QED
  BY <1>1, <1>2, <1>3, <1>4, <1>5, QuietHandler DEF Idle

LEMMA ClearWorkOfFailedTaskMoves ==
    ASSUME Inv, Execution, NEW j \in jobs, ClearWorkOfFailedTask(j)
    PROVE  Execution'
<1>1. /\ j.at = "clear" /\ UNCHANGED <<dagVars, processVars, queue, crashed>>
  BY DEF ClearWorkOfFailedTask
<1>2. /\ j \in JobType /\ j.task = None /\ j.op = "taskFailed"
  BY <1>1, HandlerFacts DEF JobShape
<1>3. PICK f : f = [Job("onDagFailed", "write", j.node) EXCEPT !.tries = j.tries]
  OBVIOUS
<1>4. PICK g : g = [j EXCEPT !.at = "free"]
  OBVIOUS
<1>5. Plain(f) /\ Plain(g)
  <2>1. /\ f.task = None /\ f.op = "onDagFailed" /\ f.at = "write"
        /\ g.task = None /\ g.op = "taskFailed" /\ g.at = "free"
    BY <1>2, <1>3, <1>4 DEF Job, JobType
  <2>2. QED
    BY <2>1, PlainAt
<1>6. Become(j, {f}) \/ Become(j, {g})
  BY <1>3, <1>4 DEF ClearWorkOfFailedTask
<1>7. QED
  BY <1>1, <1>2, <1>5, <1>6, QuietHandler DEF Idle, StatusStays, dagVars

LEMMA AddArtifactMoves ==
    ASSUME Inv, Execution, NEW j \in jobs, AddArtifact(j)
    PROVE  Execution'
<1>. DEFINE k == [j EXCEPT !.at = "read", !.store = findForDag \cup @]
<1>1. PICK f, g : f = [k EXCEPT !.op = "onArtifactUploaded"] /\ g = [k EXCEPT !.op = "onArtifactAdded"]
  OBVIOUS
<1>2. /\ j.op = "addArtifact" /\ Become(j, {f, g})
      /\ UNCHANGED <<dagVars, processVars, queue, crashed>>
  BY <1>1 DEF AddArtifact
<1>3. j \in JobType /\ j.task = None
  BY <1>2, HandlerFacts DEF QueueingOps
<1>4. /\ f.task = None /\ f.op = "onArtifactUploaded" /\ f.at = "read"
      /\ g.task = None /\ g.op = "onArtifactAdded" /\ g.at = "read"
  BY <1>1, <1>3 DEF JobType
<1>5. Plain(f) /\ Plain(g)
  BY <1>4, PlainAt
<1>6. QED
  BY <1>2, <1>3, <1>5, QuietHandler DEF Idle, StatusStays, dagVars

LEMMA OnArtifactAddedMoves ==
    ASSUME Inv, Execution, NEW j \in jobs, OnArtifactAdded(j)
    PROVE  Execution'
<1>1. /\ j.op = "onArtifactAdded"
      /\ Become(j, checkCompletionCriteria(j.node, status, j.store))
      /\ UNCHANGED <<dagVars, processVars, queue, crashed>>
  BY DEF OnArtifactAdded
<1>2. Idle(j)
  BY <1>1, HandlerFacts DEF Idle, QueueingOps
<1>3. QED
  BY <1>1, <1>2, FollowersPlain, QuietHandler DEF StatusStays, dagVars

LEMMA OnArtifactUploadedMoves ==
    ASSUME Inv, Execution, NEW j \in jobs, OnArtifactUploaded(j)
    PROVE  Execution'
<1>1. /\ j.op = "onArtifactUploaded" /\ j.at = "read"
      /\ Become(j, CompleteAll([j EXCEPT !.dag = status], nodesMeetingCriteria(status, j.store)))
      /\ UNCHANGED <<dagVars, processVars, queue, crashed>>
  BY DEF OnArtifactUploaded
<1>2. PICK k : k = [j EXCEPT !.dag = status]
  OBVIOUS
<1>3. PICK todo : todo = nodesMeetingCriteria(status, j.store)
  OBVIOUS
<1>4. j \in JobType /\ j.task = None /\ status \in [Node -> DagNodeStatus]
  BY <1>1, HandlerFacts DEF Inv, TypeOK, DagTypeOK
<1>5. k \in JobType /\ k.task = None /\ k.op = "onArtifactUploaded" /\ k.store = j.store
  BY <1>1, <1>2, <1>4 DEF JobType
<1>6. /\ todo \subseteq Node
      /\ \A n \in todo : /\ ArtifactCriteria[n] \cup TaskCriteria[n] # {}
                         /\ ArtifactCriteria[n] \subseteq k.store
  BY <1>3, <1>5 DEF nodesMeetingCriteria
<1>7. \A i \in CompleteAll(k, todo) : Plain(i)
  BY <1>5, <1>6, CompleteAllPlain
<1>8. Become(j, CompleteAll(k, todo))
  BY <1>1, <1>2, <1>3
<1>9. QED
  BY <1>1, <1>4, <1>7, <1>8, QuietHandler DEF Idle, StatusStays, dagVars

\* A node completed by an artifact of its own is not on its way to an execution.
LEMMA UpdateDagNodeStatiMoves ==
    ASSUME Inv, Execution, NEW j \in jobs, UpdateDagNodeStati(j)
    PROVE  Execution'
<1>1. /\ j.at = "complete" /\ UNCHANGED <<processVars, queue, crashed>>
  BY DEF UpdateDagNodeStati
<1>2. /\ j \in JobType /\ j.task = None /\ j.op = "onArtifactUploaded"
      /\ j.store \subseteq stored /\ j.todo \subseteq Node
      /\ \A n \in j.todo : /\ ArtifactCriteria[n] \cup TaskCriteria[n] # {}
                           /\ ArtifactCriteria[n] \subseteq j.store
  BY <1>1, HandlerFacts, JobInFlight DEF JobShape, JobSound, HandShape
<1>3. PICK n \in j.todo :
        \/ /\ setNodeStatus(n, "succeeded")
           /\ Become(j, CompleteAll([j EXCEPT !.dag[n] = "succeeded", !.done = @ \cup {n}],
                                    j.todo \ {n}))
        \/ /\ UNCHANGED status
           /\ Become(j, CompleteAll(j, j.todo \ {n}))
  BY DEF UpdateDagNodeStati
<1>4. CASE /\ setNodeStatus(n, "succeeded")
           /\ Become(j, CompleteAll([j EXCEPT !.dag[n] = "succeeded", !.done = @ \cup {n}],
                                    j.todo \ {n}))
  <2>1. PICK k : k = [j EXCEPT !.dag[n] = "succeeded", !.done = @ \cup {n}]
    OBVIOUS
  <2>2. /\ k \in JobType /\ k.task = None /\ k.op = "onArtifactUploaded" /\ k.store = j.store
    BY <1>2, <2>1 DEF JobType, DagNodeStatus
  <2>3. \A i \in CompleteAll(k, j.todo \ {n}) : Plain(i)
    BY <1>2, <2>2, CompleteAllPlain
  <2>4. OwnCriteria => ~Waiting(n)
    <3>1. FinishedIsFinal(n)
      BY <1>2 DEF Execution, NodeInv
    <3>2. OwnCriteria => OwnArtifactStored(n)
      BY <1>2 DEF OwnCriteria, OwnArtifactStored
    <3>3. QED
      BY <3>1, <3>2 DEF FinishedIsFinal
  <2>5. \A m \in Node : StatusStays(m)
    BY <1>2, <1>4, <2>4 DEF StatusStays, setNodeStatus, MayBecome, proceedingStatuses,
       Inv, TypeOK, DagTypeOK
  <2>6. Become(j, CompleteAll(k, j.todo \ {n}))
    BY <1>4, <2>1
  <2>7. QED
    BY <1>1, <1>2, <2>3, <2>5, <2>6, QuietHandler DEF Idle
<1>5. CASE /\ UNCHANGED status
           /\ Become(j, CompleteAll(j, j.todo \ {n}))
  <2>1. \A i \in CompleteAll(j, j.todo \ {n}) : Plain(i)
    BY <1>2, CompleteAllPlain
  <2>2. QED
    BY <1>1, <1>2, <1>5, <2>1, QuietHandler DEF Idle, StatusStays
<1>6. QED
  BY <1>3, <1>4, <1>5

LEMMA FindWorkerWorkingOnNodeMoves ==
    ASSUME Inv, Execution, NEW j \in jobs, FindWorkerWorkingOnNode(j)
    PROVE  Execution'
<1>1. /\ j.at = "find" /\ UNCHANGED <<dagVars, processVars, queue, crashed>>
  BY DEF FindWorkerWorkingOnNode
<1>2. /\ j \in JobType /\ j.task = None /\ j.op \in {"scheduleNext", "scheduleFree"}
  BY <1>1, HandlerFacts DEF HandShape
<1>3. PICK w \in Worker :
        \/ Become(j, {[j EXCEPT !.at = "take", !.worker = w, !.held = nodesOnHold[w]]})
        \/ Become(j, {})
  BY DEF FindWorkerWorkingOnNode, findWorkerWorkingOn
<1>4. PICK i : i = [j EXCEPT !.at = "take", !.worker = w, !.held = nodesOnHold[w]]
  OBVIOUS
<1>5. Plain(i)
  <2>1. i.task = None /\ i.op = j.op /\ i.at = "take" /\ i.worker = w
    BY <1>2, <1>4 DEF JobType
  <2>2. QED
    BY <1>2, <2>1, PlainSchedule
<1>6. Become(j, {i}) \/ Become(j, {})
  BY <1>3, <1>4
<1>7. QED
  BY <1>1, <1>2, <1>5, <1>6, QuietHandler DEF Idle, StatusStays, dagVars

LEMMA NothingToTakeMoves ==
    ASSUME Inv, Execution, NEW j \in jobs, NothingToTake(j)
    PROVE  Execution'
<1>1. /\ j.at = "take" /\ UNCHANGED <<dagVars, processVars, queue, crashed>>
  BY DEF NothingToTake
<1>2. j \in JobType /\ j.task = None /\ j.op \in {"scheduleNext", "scheduleFree"}
  BY <1>1, HandlerFacts DEF HandShape, SchedulingPoints
<1>3. PICK i : i = [j EXCEPT !.at = "clearWorker"]
  OBVIOUS
<1>4. Plain(i)
  <2>1. i.task = None /\ i.op = j.op /\ i.at = "clearWorker"
    BY <1>2, <1>3 DEF JobType
  <2>2. QED
    BY <1>2, <2>1, PlainSchedule
<1>5. Become(j, {i}) \/ Become(j, {})
  BY <1>3 DEF NothingToTake
<1>6. QED
  BY <1>1, <1>2, <1>4, <1>5, QuietHandler DEF Idle, StatusStays, dagVars

LEMMA GetWorkerMoves ==
    ASSUME Inv, Execution, NEW j \in jobs, GetWorker(j)
    PROVE  Execution'
<1>1. /\ j.at = "getWorker" /\ UNCHANGED <<dagVars, processVars, queue, crashed>>
      /\ Become(j, {[j EXCEPT !.at = "take", !.held = nodesOnHold[j.worker]]})
  BY DEF GetWorker
<1>2. /\ j \in JobType /\ j.task = None /\ j.op \in {"scheduleNext", "scheduleFree"}
      /\ j.worker \in Worker
  BY <1>1, HandlerFacts DEF HandShape, JobShape
<1>3. PICK i : i = [j EXCEPT !.at = "take", !.held = nodesOnHold[j.worker]]
  OBVIOUS
<1>4. Plain(i)
  <2>1. i.task = None /\ i.op = j.op /\ i.at = "take" /\ i.worker = j.worker
    BY <1>2, <1>3 DEF JobType
  <2>2. QED
    BY <1>2, <2>1, PlainSchedule
<1>5. QED
  BY <1>1, <1>2, <1>3, <1>4, QuietHandler DEF Idle, StatusStays, dagVars

\* Operations on worker documents after which the handler ends.
LEMMA HandlerEnds ==
    ASSUME Inv, Execution, NEW j \in jobs, ClearWorkOfWorker(j) \/ UnholdTaskOfStaleWorker(j)
    PROVE  Execution'
<1>1. /\ j.at \in {"clearWorker", "unhold"} /\ Become(j, {})
      /\ UNCHANGED <<dagVars, processVars, queue, crashed>>
  BY DEF ClearWorkOfWorker, UnholdTaskOfStaleWorker
<1>2. Idle(j)
  BY <1>1, HandlerFacts DEF Idle, HandShape
<1>3. QED
  BY <1>1, <1>2, QuietHandler DEF StatusStays, dagVars

\* A stale worker holds nothing that would be queued again.
LEMMA MarkWorkerStaleMoves ==
    ASSUME Inv, Execution, NEW j \in jobs, MarkWorkerStale(j)
    PROVE  Execution'
<1>1. /\ j.op = "checkForStaleWorkers" /\ UNCHANGED <<dagVars, processVars, queue, crashed>>
  BY DEF MarkWorkerStale
<1>2. PICK w \in j.workers :
        LET rest == j.workers \ {w}
            held == {nodesOnHold[w][i] : i \in 1..Len(nodesOnHold[w])}
        IN  Become(j, (IF rest = {} THEN {} ELSE {[j EXCEPT !.workers = rest]})
                      \cup {[Job("onWorkerStale", "queue", n) EXCEPT
                                 !.worker = w, !.todo = {n}] : n \in held})
  BY DEF MarkWorkerStale
<1>3. j \in JobType /\ j.task = None /\ w \in Worker
  BY <1>1, HandlerFacts, JobInFlight DEF QueueingOps
<1>4. nodesOnHold[w] = <<>>
  BY <1>3 DEF Inv, NothingRunsAhead, WorkersSound
<1>5. PICK held : held = {nodesOnHold[w][i] : i \in 1..Len(nodesOnHold[w])}
  OBVIOUS
<1>6. held = {}
  BY <1>4, <1>5
<1>7. PICK k : k = [j EXCEPT !.workers = j.workers \ {w}]
  OBVIOUS
<1>8. Plain(k)
  <2>1. k.task = None /\ k.op = j.op /\ k.at = j.at
    BY <1>3, <1>7 DEF JobType
  <2>2. j.at = "scan"
    BY <1>1, HandlerFacts DEF HandShape
  <2>3. QED
    BY <1>1, <2>1, <2>2, PlainAt
<1>9. Become(j, {k}) \/ Become(j, {})
  <2>1. Become(j, (IF j.workers \ {w} = {} THEN {} ELSE {k})
                  \cup {[Job("onWorkerStale", "queue", n) EXCEPT
                             !.worker = w, !.todo = {n}] : n \in held})
    BY <1>2, <1>5, <1>7
  <2>2. {[Job("onWorkerStale", "queue", n) EXCEPT !.worker = w, !.todo = {n}] : n \in held} = {}
    BY <1>6
  <2>3. Become(j, IF j.workers \ {w} = {} THEN {} ELSE {k})
    BY <2>1, <2>2
  <2>4. QED
    BY <2>3
<1>10. Idle(j)
  BY <1>1, <1>3 DEF Idle
<1>11. QED
  BY <1>1, <1>8, <1>9, <1>10, QuietHandler DEF StatusStays, dagVars

-----------------------------------------------------------------------------
(* Steps of nobody's handler that move no node.                            *)

\* New handlers start and nothing else happens.
LEMMA QuietStart ==
    ASSUME Execution, NEW S, jobs' = jobs \cup S, \A i \in S : Plain(i),
           UNCHANGED <<status, queue, processVars, crashed>>
    PROVE  Execution'
<1>1. \A n \in Node : RunBy(n)' = RunBy(n) /\ StatusStays(n)
  BY PlacesStay DEF processVars, StatusStays
<1>2. QED
  BY <1>1, QuietStep DEF processVars

\* Nothing happens that this module knows of.
LEMMA QuietNothing ==
    ASSUME Execution, UNCHANGED <<status, queue, processVars, jobs, crashed>>
    PROVE  Execution'
<1>1. PICK S : S = {}
  OBVIOUS
<1>2. jobs' = jobs \cup S /\ \A i \in S : Plain(i)
  BY <1>1
<1>3. QED
  BY <1>2, QuietStart

LEMMA CreateWorkflowMoves ==
    ASSUME Inv, Execution, CreateWorkflow
    PROVE  Execution'
<1>1. PICK k : k = Job("create", "queue", None)
  OBVIOUS
<1>2. k \in JobType /\ k.task = None /\ k.op = "create"
  BY <1>1, FreshJob, HandlerNames
<1>3. \A i \in queueOutStandingTasks(k, NewDag, findForDag) : Plain(i)
  BY <1>2, QueueOutstandingPlain DEF QueueingOps
<1>4. /\ jobs' = jobs \cup queueOutStandingTasks(k, NewDag, findForDag)
      /\ UNCHANGED <<dagVars, processVars, queue, crashed>>
  BY <1>1 DEF CreateWorkflow
<1>5. QED
  BY <1>3, <1>4, QuietStart DEF dagVars

LEMMA HeartbeatMoves ==
    ASSUME Inv, Execution, NEW w \in Worker, Heartbeat(w)
    PROVE  Execution'
<1>1. PICK i : i = heartbeatJob(w)
  OBVIOUS
<1>2. i.task = None /\ i.op = "scheduleFree" /\ i.at = "getWorker"
  BY <1>1 DEF heartbeatJob, Job
<1>3. Plain(i)
  BY <1>2, PlainSchedule
<1>4. PICK S : S = IF HasNoWork(w) THEN {i} ELSE {}
  OBVIOUS
<1>5. jobs' = jobs \cup S /\ UNCHANGED <<dagVars, processVars, queue, crashed>>
  BY <1>1, <1>4 DEF Heartbeat
<1>6. QED
  BY <1>3, <1>4, <1>5, QuietStart DEF dagVars

LEMMA HeartbeatExpiresMoves ==
    ASSUME Inv, Execution, NEW w \in Worker, HeartbeatExpires(w)
    PROVE  Execution'
BY QuietNothing DEF HeartbeatExpires, dagVars

LEMMA CheckForStaleWorkersMoves ==
    ASSUME Inv, Execution, CheckForStaleWorkers
    PROVE  Execution'
<1>1. PICK i : i = [Job("checkForStaleWorkers", "scan", None) EXCEPT
                         !.workers = {w \in Worker : overdue[w]}]
  OBVIOUS
<1>2. i.task = None /\ i.op = "checkForStaleWorkers" /\ i.at = "scan"
  BY <1>1 DEF Job
<1>3. Plain(i)
  BY <1>2, PlainAt
<1>4. PICK S : S = {i}
  OBVIOUS
<1>5. jobs' = jobs \cup S /\ UNCHANGED <<dagVars, processVars, queue, crashed>>
  BY <1>1, <1>4 DEF CheckForStaleWorkers
<1>6. QED
  BY <1>3, <1>4, <1>5, QuietStart DEF dagVars

LEMMA StutterMoves ==
    ASSUME Execution, UNCHANGED vars
    PROVE  Execution'
BY QuietNothing DEF vars, dagVars

-----------------------------------------------------------------------------
(* Steps that move a node from one place to another.                       *)

\* Handlers that may appear or go when node n is moved.
Appears(i, n) ==
    /\ i.task \in {n, None}
    /\ IsEndReport(i) => i.node \notin Node \ {n}

Goes(i, n) ==
    /\ i.task \in {n, None}
    /\ i.op = "taskStarted" => i.node = n
    /\ i.op = "taskFailed" /\ i.at = "mark" => i.node = n

\* The place of m in the queue and in the mailboxes stays as it is.
QueueKeeps(m) ==
    /\ InQueue(m) = {} <=> InQueue(m)' = {}
    /\ AtMostOne(InQueue(m)) => AtMostOne(InQueue(m)')

MailboxesKeep(m) ==
    /\ Sent(m) = {} <=> Sent(m)' = {}
    /\ AtMostOne(Sent(m)) => AtMostOne(Sent(m)')

LEMMA KeptPlaces ==
    ASSUME NEW m
    PROVE  /\ UNCHANGED queue => QueueKeeps(m)
           /\ UNCHANGED mailbox => MailboxesKeep(m)
BY PlacesStay DEF QueueKeeps, MailboxesKeep

\* A step that moves node n and leaves the others alone.
LEMMA MoveStep ==
    ASSUME Execution, NEW n \in Node,
           \A i \in jobs' : i \in jobs \/ (Appears(i, n) /\ HandShape(i)),
           \A i \in jobs : i \in jobs' \/ Goes(i, n),
           \A m \in Node \ {n} : /\ QueueKeeps(m) /\ MailboxesKeep(m)
                                 /\ RunBy(m)' = RunBy(m)
                                 /\ OwnArtifactStays(m)
                                 /\ status'[m] = status[m],
           NobodyDied' => NobodyDied,
           NodeInv(n)'
    PROVE  Execution'
<1>1. \A i \in jobs' : HandShape(i)
  BY DEF Execution
<1>2. ASSUME NEW m \in Node \ {n}
      PROVE  NodeInv(m)'
  <2>1. InHand(m)' \subseteq InHand(m) /\ Reported(m)' \subseteq Reported(m)
    BY SchedulerAssumption DEF InHand, Reported, Appears
  <2>2. /\ InHand(m) \subseteq InHand(m)'
        /\ StartReported(m) => StartReported(m)'
    BY SchedulerAssumption DEF InHand, StartReported, Goes
  <2>3. FailReported(m) => FailReported(m)'
    BY SchedulerAssumption DEF FailReported, Goes
  <2>4. NoMore(m)
    BY <2>1 DEF NoMore, QueueKeeps, MailboxesKeep
  <2>5. NoneLost(m)
    BY <2>2, <2>3 DEF NoneLost, Waiting, QueueKeeps, MailboxesKeep
  <2>6. NodeInv(m) /\ StatusStays(m) /\ OwnArtifactStays(m)
    BY DEF Execution, StatusStays
  <2>7. QED
    BY <2>4, <2>5, <2>6, NodeStays
<1>3. QED
  BY <1>1, <1>2 DEF Execution, HandShape

\* What is known of a node on its way when it gets on.
LEMMA WaitingMoves ==
    ASSUME NEW n \in Node, NodeInv(n), Waiting(n), OnePlace(n)',
           NobodyDied' => Waiting(n)' /\ (RunBy(n)' # {} => StartReported(n)'),
           status'[n] = status[n], OwnArtifactStays(n)
    PROVE  NodeInv(n)'
<1>1. /\ PlacedIsActive(n) /\ FinishedIsFinal(n) /\ Accounted(n) /\ NotAheadOfExecution(n)
  BY DEF NodeInv
<1>2. PlacedIsActive(n)'
  BY <1>1 DEF PlacedIsActive
<1>3. FinishedIsFinal(n)'
  BY <1>1 DEF FinishedIsFinal, OwnArtifactStays
<1>4. Accounted(n)'
  BY DEF Accounted
<1>5. NotAheadOfExecution(n)'
  BY <1>1 DEF NotAheadOfExecution, OwnCriteria
<1>6. QED
  BY <1>2, <1>3, <1>4, <1>5 DEF NodeInv

\* A node at one place is at no other.
LEMMA OnlyPlace ==
    ASSUME NEW n, OnePlace(n)
    PROVE  /\ InQueue(n) # {} => InHand(n) = {} /\ Sent(n) = {} /\ RunBy(n) = {} /\ Reported(n) = {}
           /\ InHand(n) # {} => InQueue(n) = {} /\ Sent(n) = {} /\ RunBy(n) = {} /\ Reported(n) = {}
           /\ Sent(n) # {} => InQueue(n) = {} /\ InHand(n) = {} /\ RunBy(n) = {} /\ Reported(n) = {}
           /\ RunBy(n) # {} => InQueue(n) = {} /\ InHand(n) = {} /\ Sent(n) = {} /\ Reported(n) = {}
           /\ Reported(n) # {} => ~Waiting(n)
           /\ AtMostOne(InQueue(n)) /\ AtMostOne(InHand(n)) /\ AtMostOne(Sent(n))
           /\ AtMostOne(RunBy(n)) /\ AtMostOne(Reported(n))
BY DEF OnePlace, OneOf, Waiting

\* The queue grows by n.
LEMMA EnqueueNodeQueue ==
    ASSUME queue \in Seq(Node), NEW n \in Node, enqueueNode(n)
    PROVE  /\ \A m \in Node \ {n} : QueueKeeps(m)
           /\ InQueue(n)' # {}
           /\ InQueue(n) = {} => AtMostOne(InQueue(n)')
<1>1. /\ Len(queue) \in Nat /\ Len(queue') = Len(queue) + 1
      /\ queue'[Len(queue) + 1] = n
      /\ \A i \in 1..Len(queue) : queue'[i] = queue[i]
  BY DEF enqueueNode
<1>2. \A m \in Node \ {n} : InQueue(m)' = InQueue(m)
  BY <1>1 DEF InQueue
<1>3. Len(queue) + 1 \in InQueue(n)'
  BY <1>1 DEF InQueue
<1>4. InQueue(n) = {} => InQueue(n)' \subseteq {Len(queue) + 1}
  BY <1>1 DEF InQueue
<1>5. QED
  BY <1>2, <1>3, <1>4 DEF QueueKeeps, AtMostOne

\* What is left of a sequence without its i-th element.
LEMMA RemoveAtElements ==
    ASSUME NEW S, NEW q \in Seq(S), NEW i \in 1..Len(q)
    PROVE  /\ Len(RemoveAt(q, i)) = Len(q) - 1
           /\ \A k \in 1..(Len(q) - 1) : RemoveAt(q, i)[k] = q[IF k < i THEN k ELSE k + 1]
<1>. DEFINE a == SubSeq(q, 1, i - 1)
            b == SubSeq(q, i + 1, Len(q))
<1>1. a \in Seq(S) /\ Len(a) = i - 1 /\ \A k \in 1..(i - 1) : a[k] = q[k]
  OBVIOUS
<1>2. b \in Seq(S) /\ Len(b) = Len(q) - i /\ \A k \in 1..(Len(q) - i) : b[k] = q[i + k]
  OBVIOUS
<1>3. RemoveAt(q, i) = a \o b
  BY DEF RemoveAt
<1>. HIDE DEF a, b
<1>4. Len(q) \in Nat /\ i \in Nat
  OBVIOUS
<1>5. Len(a \o b) = Len(q) - 1
  <2>1. Len(a \o b) = Len(a) + Len(b)
    BY <1>1, <1>2, ConcatProperties
  <2>2. QED
    BY <1>1, <1>2, <1>4, <2>1
<1>6. ASSUME NEW k \in 1..(Len(q) - 1)
      PROVE  (a \o b)[k] = q[IF k < i THEN k ELSE k + 1]
  <2>1. CASE k <= i - 1
    BY <1>1, <1>2, <1>4, <2>1
  <2>2. CASE k > i - 1
    <3>1. (a \o b)[k] = b[k - (i - 1)]
      BY <1>1, <1>2, <2>2
    <3>2. k - (i - 1) \in 1..(Len(q) - i)
      BY <1>4, <2>2
    <3>3. b[k - (i - 1)] = q[i + (k - (i - 1))]
      BY <1>2, <3>2
    <3>4. i + (k - (i - 1)) = k + 1 /\ ~(k < i)
      BY <1>4, <2>2
    <3>5. QED
      BY <3>1, <3>3, <3>4
  <2>3. k <= i - 1 \/ k > i - 1
    BY <1>4
  <2>4. QED
    BY <2>1, <2>2, <2>3
<1>7. QED
  BY <1>3, <1>5, <1>6

\* The next task in line is taken off the queue.
LEMMA DequeueQueue ==
    ASSUME queue \in Seq(Node), NEW n, dequeue(n)
    PROVE  /\ \A m \in Node \ {n} : QueueKeeps(m)
           /\ InQueue(n) # {}
           /\ AtMostOne(InQueue(n)) => InQueue(n)' = {}
<1>1. PICK i \in 1..Len(queue) : n = queue[i] /\ queue' = RemoveAt(queue, i)
  BY DEF dequeue
<1>2. /\ Len(queue) \in Nat /\ i \in Nat
      /\ Len(queue') = Len(queue) - 1
      /\ \A k \in 1..(Len(queue) - 1) : queue'[k] = queue[IF k < i THEN k ELSE k + 1]
  <2>1. PICK q : q = queue
    OBVIOUS
  <2>2. q \in Seq(Node) /\ i \in 1..Len(q) /\ queue' = RemoveAt(q, i)
    BY <1>1, <2>1
  <2>3. /\ Len(RemoveAt(q, i)) = Len(q) - 1
        /\ \A k \in 1..(Len(q) - 1) : RemoveAt(q, i)[k] = q[IF k < i THEN k ELSE k + 1]
    BY <2>2, RemoveAtElements
  <2>4. Len(q) \in Nat /\ i \in Nat
    BY <2>2
  <2>5. QED
    BY <2>1, <2>2, <2>3, <2>4
<1>3. i \in InQueue(n)
  BY <1>1 DEF InQueue
<1>4. ASSUME NEW m, NEW k \in InQueue(m)'
      PROVE  /\ (IF k < i THEN k ELSE k + 1) \in InQueue(m)
             /\ (IF k < i THEN k ELSE k + 1) # i
  <2>1. k \in 1..(Len(queue) - 1) /\ queue'[k] = m
    BY <1>2, <1>4 DEF InQueue
  <2>2. (IF k < i THEN k ELSE k + 1) \in 1..Len(queue)
    BY <1>2, <2>1
  <2>3. (IF k < i THEN k ELSE k + 1) # i
    BY <1>2, <2>1
  <2>4. QED
    BY <1>2, <2>1, <2>2, <2>3 DEF InQueue
<1>5. ASSUME AtMostOne(InQueue(n))
      PROVE  InQueue(n)' = {}
  BY <1>3, <1>4, <1>5 DEF AtMostOne
<1>6. ASSUME NEW m \in Node \ {n}
      PROVE  QueueKeeps(m)
  <2>1. InQueue(m) = {} => InQueue(m)' = {}
    BY <1>4
  <2>2. ASSUME NEW k \in InQueue(m)
        PROVE  (IF k < i THEN k ELSE k - 1) \in InQueue(m)'
    <3>1. k \in 1..Len(queue) /\ queue[k] = m /\ k # i
      BY <1>1, <2>2 DEF InQueue
    <3>2. PICK l : l = IF k < i THEN k ELSE k - 1
      OBVIOUS
    <3>3. l \in 1..(Len(queue) - 1) /\ (IF l < i THEN l ELSE l + 1) = k
      BY <1>2, <3>1, <3>2
    <3>4. queue'[l] = m
      BY <1>2, <3>1, <3>3
    <3>5. QED
      BY <1>2, <3>2, <3>3, <3>4 DEF InQueue
  <2>3. ASSUME AtMostOne(InQueue(m)), NEW k \in InQueue(m)', NEW l \in InQueue(m)'
        PROVE  k = l
    <3>1. (IF k < i THEN k ELSE k + 1) = (IF l < i THEN l ELSE l + 1)
      BY <1>4, <2>3 DEF AtMostOne
    <3>2. k \in Nat /\ l \in Nat
      BY <1>2, <2>3 DEF InQueue
    <3>3. QED
      BY <1>2, <3>1, <3>2
  <2>4. QED
    BY <2>1, <2>2, <2>3 DEF QueueKeeps, AtMostOne
<1>7. QED
  BY <1>3, <1>5, <1>6

-----------------------------------------------------------------------------
(* Through the queue and the hands of the handlers.                        *)

\* The handler that has a task in hand, and what that says of the task.
LEMMA TaskInHand ==
    ASSUME Inv, Execution, NEW j \in jobs, j.at \in {"enqueue", "assign", "send", "requeue"}
    PROVE  /\ j.task \in Node
           /\ NodeInv(j.task) /\ InHand(j.task) = {j} /\ Waiting(j.task)
           /\ InQueue(j.task) = {} /\ Sent(j.task) = {} /\ RunBy(j.task) = {}
           /\ Reported(j.task) = {}
<1>1. j.task \in Node
  BY HandlerFacts DEF HandShape
<1>2. NodeInv(j.task) /\ OnePlace(j.task) /\ j \in InHand(j.task)
  BY <1>1 DEF Execution, NodeInv, InHand
<1>3. AtMostOne(InHand(j.task))
  BY <1>2, OnlyPlace
<1>4. QED
  BY <1>1, <1>2, <1>3, OnlyPlace DEF Waiting, AtMostOne

\* A pending or failed node is at no place: it may be put in a handler's hand.
LEMMA MarkNodeAsQueuedMoves ==
    ASSUME Inv, Execution, NEW j \in jobs, MarkNodeAsQueued(j)
    PROVE  Execution'
<1>1. PICK n \in j.todo : /\ setNodeStatus(n, "queued")
                          /\ Become(j, {[j EXCEPT !.at = "enqueue", !.task = n]})
  BY DEF MarkNodeAsQueued
<1>2. j.at = "queue" /\ UNCHANGED <<processVars, queue, crashed>>
  BY DEF MarkNodeAsQueued
<1>3. /\ n \in Node /\ j \in JobType /\ j.task = None /\ j.op \in QueueingOps
      /\ status \in [Node -> DagNodeStatus]
  BY <1>1, <1>2, HandlerFacts, JobInFlight DEF JobShape, QueueingOps, Inv, TypeOK, DagTypeOK
<1>4. PICK i : i = [j EXCEPT !.at = "enqueue", !.task = n]
  OBVIOUS
<1>5. jobs' = (jobs \ {j}) \cup {i}
  BY <1>1, <1>4 DEF Become
<1>6. i.op = j.op /\ i.at = "enqueue" /\ i.task = n
  BY <1>3, <1>4 DEF JobType
<1>7. HandShape(i) /\ Appears(i, n) /\ Goes(j, n)
  BY <1>2, <1>3, <1>6 DEF HandShape, Appears, Goes, IsEndReport, SchedulingPoints, QueueingOps
<1>8. /\ status[n] \in {"pending", "failed"} /\ status'[n] = "queued"
      /\ \A m \in Node \ {n} : status'[m] = status[m]
  BY <1>1, <1>3 DEF setNodeStatus, MayBecome, proceedingStatuses
<1>9. ~Waiting(n) /\ Reported(n) = {} /\ ~OwnArtifactStored(n)
  BY <1>3, <1>8 DEF Execution, NodeInv, PlacedIsActive, FinishedIsFinal
<1>10. /\ InQueue(n)' = {} /\ Sent(n)' = {} /\ RunBy(n)' = {} /\ ~OwnArtifactStored(n)'
  BY <1>2, <1>9, PlacesStay DEF Waiting, processVars
<1>11. InHand(n)' = {i} /\ Reported(n)' = {}
  BY <1>5, <1>6, <1>9 DEF InHand, Waiting, Reported, IsEndReport
<1>12. NodeInv(n)'
  <2>1. OnePlace(n)' /\ Waiting(n)'
    BY <1>10, <1>11 DEF OnePlace, OneOf, AtMostOne, Waiting
  <2>2. QED
    BY <1>8, <1>10, <2>1 DEF NodeInv, PlacedIsActive, FinishedIsFinal, Accounted,
       NotAheadOfExecution
<1>13. \A m \in Node \ {n} : /\ QueueKeeps(m) /\ MailboxesKeep(m)
                             /\ RunBy(m)' = RunBy(m) /\ OwnArtifactStays(m)
  BY <1>2, PlacesStay, KeptPlaces DEF processVars, OwnArtifactStays
<1>14. NobodyDied' => NobodyDied
  BY <1>2, PlacesStay DEF processVars
<1>15. QED
  BY <1>3, <1>5, <1>7, <1>8, <1>12, <1>13, <1>14, MoveStep

\* The task in hand is put into the queue, where it was not.
LEMMA HandToQueue ==
    ASSUME Inv, Execution, NEW j \in jobs, j.at \in {"enqueue", "requeue"},
           enqueueNode(j.task), NEW S, Become(j, S), \A i \in S : Plain(i),
           UNCHANGED <<dagVars, processVars, crashed>>
    PROVE  Execution'
<1>1. PICK n \in Node : n = j.task
  BY TaskInHand
<1>2. /\ NodeInv(n) /\ InHand(n) = {j} /\ Waiting(n)
      /\ InQueue(n) = {} /\ Sent(n) = {} /\ RunBy(n) = {} /\ Reported(n) = {}
  BY <1>1, TaskInHand
<1>3. queue \in Seq(Node)
  BY DEF Inv, TypeOK
<1>4. /\ \A m \in Node \ {n} : QueueKeeps(m)
      /\ InQueue(n)' # {} /\ AtMostOne(InQueue(n)')
  BY <1>1, <1>2, <1>3, EnqueueNodeQueue
<1>5. /\ \A i \in jobs' : i \in jobs \/ Plain(i)
      /\ \A i \in jobs : i = j \/ i \in jobs'
      /\ \A i \in jobs' : i # j \/ Plain(i)
  BY DEF Become
<1>6. InHand(n)' = {} /\ Reported(n)' = {}
  BY <1>2, <1>5, SchedulerAssumption DEF InHand, Reported, IsEndReport, Plain
<1>7. Sent(n)' = {} /\ RunBy(n)' = {} /\ OwnArtifactStays(n)
  BY <1>2, PlacesStay DEF processVars, OwnArtifactStays
<1>8. OnePlace(n)' /\ Waiting(n)'
  BY <1>4, <1>6, <1>7 DEF OnePlace, OneOf, AtMostOne, Waiting
<1>9. NodeInv(n)'
  BY <1>2, <1>7, <1>8, WaitingMoves DEF dagVars
<1>10. \A i \in jobs' : i \in jobs \/ (Appears(i, n) /\ HandShape(i))
  BY <1>5 DEF Plain, Appears, IsEndReport
<1>11. Goes(j, n)
  BY <1>1, HandlerFacts DEF Goes, HandShape
<1>12. \A m \in Node \ {n} : /\ MailboxesKeep(m) /\ RunBy(m)' = RunBy(m)
                             /\ OwnArtifactStays(m) /\ status'[m] = status[m]
  BY PlacesStay, KeptPlaces DEF processVars, OwnArtifactStays, dagVars
<1>13. NobodyDied' => NobodyDied
  BY PlacesStay DEF processVars
<1>14. \A i \in jobs : i \in jobs' \/ Goes(i, n)
  BY <1>5, <1>11
<1>15. QED
  BY <1>4, <1>9, <1>10, <1>12, <1>13, <1>14, MoveStep

LEMMA EnqueueNodeMoves ==
    ASSUME Inv, Execution, NEW j \in jobs, EnqueueNode(j)
    PROVE  Execution'
<1>1. /\ j.at = "enqueue" /\ enqueueNode(j.task)
      /\ Become(j, QueueAll([j EXCEPT !.task = None], j.todo \ {j.task}))
      /\ UNCHANGED <<dagVars, processVars, crashed>>
  BY DEF EnqueueNode
<1>2. j \in JobType /\ j.op \in QueueingOps /\ j.todo \subseteq Node
  BY <1>1, HandlerFacts, JobInFlight DEF JobShape, QueueingOps
<1>3. PICK k : k = [j EXCEPT !.task = None]
  OBVIOUS
<1>4. k \in JobType /\ k.task = None /\ k.op \in QueueingOps
  BY <1>2, <1>3 DEF JobType
<1>5. \A i \in QueueAll(k, j.todo \ {j.task}) : Plain(i)
  BY <1>2, <1>4, QueueAllPlain
<1>6. QED
  BY <1>1, <1>3, <1>5, HandToQueue

LEMMA RequeueTaskMoves ==
    ASSUME Inv, Execution, NEW j \in jobs, RequeueTask(j)
    PROVE  Execution'
<1>1. PICK S : S = {}
  OBVIOUS
<1>2. /\ j.at = "requeue" /\ enqueueNode(j.task) /\ Become(j, S)
      /\ UNCHANGED <<dagVars, processVars, crashed>>
  BY <1>1 DEF RequeueTask
<1>3. QED
  BY <1>1, <1>2, HandToQueue

\* The task next in line is taken off the queue, where it was once.
LEMMA TakeQueuedTaskMoves ==
    ASSUME Inv, Execution, NEW j \in jobs, TakeQueuedTask(j)
    PROVE  Execution'
<1>1. PICK n \in Node : /\ dequeue(n)
                        /\ Become(j, {[j EXCEPT !.at = "assign", !.task = n]})
  BY DEF TakeQueuedTask
<1>2. j.at = "take" /\ UNCHANGED <<dagVars, processVars, crashed>>
  BY DEF TakeQueuedTask
<1>3. /\ j \in JobType /\ j.task = None /\ j.op \in {"scheduleNext", "scheduleFree"}
      /\ j.worker \in Worker
  BY <1>2, HandlerFacts DEF HandShape, SchedulingPoints
<1>4. PICK i : i = [j EXCEPT !.at = "assign", !.task = n]
  OBVIOUS
<1>5. jobs' = (jobs \ {j}) \cup {i}
  BY <1>1, <1>4 DEF Become
<1>6. i.op = j.op /\ i.at = "assign" /\ i.task = n /\ i.worker = j.worker
  BY <1>3, <1>4 DEF JobType
<1>7. HandShape(i) /\ Appears(i, n) /\ Goes(j, n)
  BY <1>2, <1>3, <1>6 DEF HandShape, Appears, Goes, IsEndReport, SchedulingPoints
<1>8. queue \in Seq(Node) /\ NodeInv(n) /\ OnePlace(n)
  BY DEF Inv, TypeOK, Execution, NodeInv
<1>9. /\ \A m \in Node \ {n} : QueueKeeps(m)
      /\ InQueue(n) # {} /\ InQueue(n)' = {}
  BY <1>1, <1>8, DequeueQueue, OnlyPlace
<1>10. /\ Waiting(n) /\ InHand(n) = {} /\ Sent(n) = {} /\ RunBy(n) = {} /\ Reported(n) = {}
  BY <1>8, <1>9, OnlyPlace DEF Waiting
<1>11. InHand(n)' = {i} /\ Reported(n)' = {}
  BY <1>5, <1>6, <1>10 DEF InHand, Reported, IsEndReport
<1>12. Sent(n)' = {} /\ RunBy(n)' = {} /\ OwnArtifactStays(n)
  BY <1>2, <1>10, PlacesStay DEF processVars, OwnArtifactStays
<1>13. OnePlace(n)' /\ Waiting(n)'
  BY <1>9, <1>11, <1>12 DEF OnePlace, OneOf, AtMostOne, Waiting
<1>14. NodeInv(n)'
  BY <1>2, <1>8, <1>10, <1>12, <1>13, WaitingMoves DEF dagVars
<1>15. \A m \in Node \ {n} : /\ MailboxesKeep(m) /\ RunBy(m)' = RunBy(m)
                             /\ OwnArtifactStays(m) /\ status'[m] = status[m]
  BY <1>2, PlacesStay, KeptPlaces DEF processVars, OwnArtifactStays, dagVars
<1>16. NobodyDied' => NobodyDied
  BY <1>2, PlacesStay DEF processVars
<1>17. QED
  BY <1>5, <1>7, <1>9, <1>14, <1>15, <1>16, MoveStep

\* The task stays in the handler's hand, whether the worker's document could be
\* updated or not.
LEMMA AssignTaskMoves ==
    ASSUME Inv, Execution, NEW j \in jobs, AssignTask(j) \/ AssignmentRefused(j)
    PROVE  Execution'
<1>1. PICK at \in {"send", "requeue"} : Become(j, {[j EXCEPT !.at = at]})
  BY DEF AssignTask, AssignmentRefused
<1>2. j.at = "assign" /\ UNCHANGED <<dagVars, processVars, queue, crashed>>
  BY DEF AssignTask, AssignmentRefused
<1>3. PICK n \in Node : n = j.task
  BY <1>2, TaskInHand
<1>4. /\ NodeInv(n) /\ InHand(n) = {j} /\ Waiting(n)
      /\ InQueue(n) = {} /\ Sent(n) = {} /\ RunBy(n) = {} /\ Reported(n) = {}
  BY <1>2, <1>3, TaskInHand
<1>5. PICK i : i = [j EXCEPT !.at = at]
  OBVIOUS
<1>6. /\ j \in JobType /\ j.op \in {"scheduleNext", "scheduleFree"} /\ j.worker \in Worker
  BY <1>2, HandlerFacts DEF HandShape, SchedulingPoints
<1>7. i.op = j.op /\ i.at = at /\ i.task = n /\ i.worker = j.worker
  BY <1>3, <1>5, <1>6 DEF JobType
<1>8. jobs' = (jobs \ {j}) \cup {i}
  BY <1>1, <1>5 DEF Become
<1>9. HandShape(i) /\ Appears(i, n) /\ Goes(j, n)
  BY <1>2, <1>3, <1>6, <1>7 DEF HandShape, Appears, Goes, IsEndReport, SchedulingPoints
<1>10. InHand(n)' = {i} /\ Reported(n)' = {}
  BY <1>4, <1>7, <1>8 DEF InHand, Reported, IsEndReport
<1>11. /\ InQueue(n)' = {} /\ Sent(n)' = {} /\ RunBy(n)' = {} /\ OwnArtifactStays(n)
  BY <1>2, <1>4, PlacesStay DEF processVars, OwnArtifactStays
<1>12. OnePlace(n)' /\ Waiting(n)'
  BY <1>10, <1>11 DEF OnePlace, OneOf, AtMostOne, Waiting
<1>13. NodeInv(n)'
  BY <1>2, <1>4, <1>11, <1>12, WaitingMoves DEF dagVars
<1>14. \A m \in Node \ {n} : /\ QueueKeeps(m) /\ MailboxesKeep(m) /\ RunBy(m)' = RunBy(m)
                             /\ OwnArtifactStays(m) /\ status'[m] = status[m]
  BY <1>2, PlacesStay, KeptPlaces DEF processVars, OwnArtifactStays, dagVars
<1>15. NobodyDied' => NobodyDied
  BY <1>2, PlacesStay DEF processVars
<1>16. QED
  BY <1>8, <1>9, <1>13, <1>14, <1>15, MoveStep

-----------------------------------------------------------------------------
(* Through the mailboxes and the workers.                                  *)

\* Where a node is in the mailboxes, before and after a step.
LEMMA SentPositions ==
    ASSUME NEW n, NEW w \in Worker, NEW i
    PROVE  /\ <<w, i>> \in Sent(n) <=> i \in 1..Len(mailbox[w]) /\ mailbox[w][i] = n
           /\ <<w, i>> \in Sent(n)' <=> i \in 1..Len(mailbox'[w]) /\ mailbox'[w][i] = n
BY DEF Sent

LEMMA SentPairs ==
    ASSUME NEW n
    PROVE  /\ \A p \in Sent(n) : \E w \in Worker : \E i \in 1..Len(mailbox[w]) : p = <<w, i>>
           /\ \A p \in Sent(n)' : \E w \in Worker : \E i \in 1..Len(mailbox'[w]) : p = <<w, i>>
BY DEF Sent

\* The message goes to the end of the mailbox of a worker that is alive.
LEMMA DeliverMailboxes ==
    ASSUME Inv, NEW w \in Worker, NEW n \in Node, deliver(w, n), Sent(n) = {}
    PROVE  /\ \A m \in Node \ {n} : MailboxesKeep(m)
           /\ AtMostOne(Sent(n)')
           /\ alive[w] => Sent(n)' # {}
<1>1. mailbox \in [Worker -> Seq(Node)] /\ mailbox[w] \in Seq(Node)
  BY ProcessFacts
<1>2. PICK q : q = mailbox[w]
  OBVIOUS
<1>3. q \in Seq(Node) /\ Len(q) \in Nat
  BY <1>1, <1>2
<1>4. \A v \in Worker : v # w => mailbox'[v] = mailbox[v]
  BY <1>1 DEF deliver
<1>5. CASE alive[w]
  <2>1. mailbox'[w] = Append(q, n)
    BY <1>1, <1>2, <1>5 DEF deliver
  <2>2. /\ Len(mailbox'[w]) = Len(q) + 1 /\ mailbox'[w][Len(q) + 1] = n
        /\ \A i \in 1..Len(q) : mailbox'[w][i] = q[i]
    BY <1>3, <2>1
  <2>3. ASSUME NEW m \in Node \ {n}, NEW v \in Worker, NEW i
        PROVE  <<v, i>> \in Sent(m)' <=> <<v, i>> \in Sent(m)
    <3>1. CASE v # w
      BY <1>4, <3>1, SentPositions
    <3>2. CASE v = w
      <4>1. i \in 1..Len(mailbox'[w]) /\ mailbox'[w][i] = m <=> i \in 1..Len(q) /\ q[i] = m
        BY <1>3, <2>2
      <4>2. QED
        BY <1>2, <3>2, <4>1, SentPositions
    <3>3. QED
      BY <3>1, <3>2
  <2>4. \A m \in Node \ {n} : Sent(m)' = Sent(m)
    BY <2>3, SentPairs
  <2>5. \A v \in Worker : \A i : <<v, i>> \in Sent(n)' => v = w /\ i = Len(q) + 1
    <3>. SUFFICES ASSUME NEW v \in Worker, NEW i, <<v, i>> \in Sent(n)'
                  PROVE  v = w /\ i = Len(q) + 1
      OBVIOUS
    <3>1. i \in 1..Len(mailbox'[v]) /\ mailbox'[v][i] = n /\ <<v, i>> \notin Sent(n)
      BY SentPositions
    <3>2. v = w
      BY <1>4, <3>1, SentPositions
    <3>3. i \in 1..(Len(q) + 1) /\ ~(i \in 1..Len(q))
      BY <1>2, <2>2, <3>1, <3>2, SentPositions
    <3>4. QED
      BY <1>3, <3>2, <3>3
  <2>6. AtMostOne(Sent(n)')
    BY <2>5, SentPairs DEF AtMostOne
  <2>7. <<w, Len(q) + 1>> \in Sent(n)'
    BY <1>3, <2>2, SentPositions
  <2>8. QED
    BY <2>4, <2>6, <2>7 DEF MailboxesKeep
<1>6. CASE ~alive[w]
  <2>1. mailbox' = mailbox
    BY <1>1, <1>6 DEF deliver
  <2>2. QED
    BY <1>6, <2>1, PlacesStay, KeptPlaces DEF AtMostOne
<1>7. QED
  BY <1>5, <1>6

\* The worker takes the first message of its mailbox.
LEMMA ReceivedMailboxes ==
    ASSUME Inv, NEW w \in Worker, NEW n \in Node, MessageReceived(w, n)
    PROVE  /\ \A m \in Node \ {n} : MailboxesKeep(m)
           /\ Sent(n) # {}
           /\ AtMostOne(Sent(n)) => Sent(n)' = {}
<1>1. mailbox \in [Worker -> Seq(Node)] /\ mailbox[w] \in Seq(Node) /\ mailbox[w] # <<>>
  BY ProcessFacts DEF MessageReceived
<1>2. PICK q : q = mailbox[w]
  OBVIOUS
<1>3. /\ q \in Seq(Node) /\ Len(q) \in Nat /\ Len(q) >= 1 /\ n = q[1]
      /\ mailbox'[w] = Tail(q)
  BY <1>1, <1>2 DEF MessageReceived
<1>4. /\ Len(mailbox'[w]) = Len(q) - 1
      /\ \A i \in 1..(Len(q) - 1) : mailbox'[w][i] = q[i + 1]
  BY <1>3
<1>5. \A v \in Worker : v # w => mailbox'[v] = mailbox[v]
  BY <1>1 DEF MessageReceived
<1>6. <<w, 1>> \in Sent(n)
  BY <1>2, <1>3, SentPositions
<1>7. ASSUME NEW m, NEW v \in Worker, NEW i
      PROVE  /\ v # w => (<<v, i>> \in Sent(m)' <=> <<v, i>> \in Sent(m))
             /\ v = w /\ <<v, i>> \in Sent(m)' => i \in Nat /\ <<v, i + 1>> \in Sent(m) /\ i + 1 # 1
             /\ v = w /\ <<v, i>> \in Sent(m) /\ m # n => i \in Nat /\ <<v, i - 1>> \in Sent(m)'
  <2>1. CASE v # w
    BY <1>5, <2>1, SentPositions
  <2>2. CASE v = w
    <3>1. ASSUME <<v, i>> \in Sent(m)'
          PROVE  i \in Nat /\ <<v, i + 1>> \in Sent(m) /\ i + 1 # 1
      <4>1. i \in 1..(Len(q) - 1) /\ q[i + 1] = m
        <5>1. <<w, i>> \in Sent(m)'
          BY <2>2, <3>1
        <5>2. i \in 1..Len(mailbox'[w]) /\ mailbox'[w][i] = m
          BY <5>1, SentPositions
        <5>3. i \in 1..(Len(q) - 1)
          BY <1>4, <5>2
        <5> QED BY <1>4, <5>2, <5>3
      <4>2. i \in Nat /\ i + 1 \in 1..Len(q) /\ i + 1 # 1
        BY <1>3, <4>1
      <4>3. i + 1 \in 1..Len(mailbox[w]) /\ mailbox[w][i + 1] = m
        BY <1>2, <4>1, <4>2
      <4>4. <<w, i + 1>> \in Sent(m)
        BY <4>3, SentPositions
      <4>5. QED
        BY <2>2, <4>2, <4>4
    <3>2. ASSUME <<v, i>> \in Sent(m), m # n
          PROVE  i \in Nat /\ <<v, i - 1>> \in Sent(m)'
      <4>1. i \in 1..Len(q) /\ q[i] = m
        BY <1>2, <2>2, <3>2, SentPositions
      <4>2. i \in Nat /\ i - 1 \in 1..(Len(q) - 1) /\ (i - 1) + 1 = i
        BY <1>3, <3>2, <4>1
      <4>3. mailbox'[w][i - 1] = m
        BY <1>4, <4>1, <4>2
      <4>4. QED
        BY <1>4, <2>2, <4>2, <4>3, SentPositions
    <3>3. QED
      BY <2>2, <3>1, <3>2
  <2>3. QED
    BY <2>1, <2>2
<1>8. ASSUME AtMostOne(Sent(n))
      PROVE  Sent(n)' = {}
  <2>. SUFFICES ASSUME NEW v \in Worker, NEW i, <<v, i>> \in Sent(n)'
                PROVE  FALSE
    BY SentPairs
  <2>1. v = w
    BY <1>6, <1>7, <1>8 DEF AtMostOne
  <2>2. <<w, i + 1>> \in Sent(n) /\ i + 1 # 1
    BY <1>7, <2>1
  <2>3. <<w, i + 1>> = <<w, 1>>
    BY <1>6, <1>8, <2>2 DEF AtMostOne
  <2>4. QED
    BY <2>2, <2>3
<1>9. ASSUME NEW m \in Node \ {n}
      PROVE  MailboxesKeep(m)
  <2>1. ASSUME Sent(m)' # {}
        PROVE  Sent(m) # {}
    <3>1. PICK v \in Worker, i \in Nat : <<v, i>> \in Sent(m)'
      BY <2>1, SentPairs
    <3>2. QED
      BY <1>7, <3>1
  <2>2. ASSUME Sent(m) # {}
        PROVE  Sent(m)' # {}
    <3>1. PICK v \in Worker, i \in Nat : <<v, i>> \in Sent(m)
      BY <2>2, SentPairs
    <3>2. QED
      BY <1>7, <3>1
  <2>3. ASSUME AtMostOne(Sent(m)), NEW p \in Sent(m)', NEW r \in Sent(m)'
        PROVE  p = r
    <3>1. PICK v \in Worker, i \in Nat : p = <<v, i>>
      BY <2>3, SentPairs
    <3>2. PICK u \in Worker, k \in Nat : r = <<u, k>>
      BY <2>3, SentPairs
    <3>3. PICK x : x = IF v = w THEN i + 1 ELSE i
      OBVIOUS
    <3>4. PICK y : y = IF u = w THEN k + 1 ELSE k
      OBVIOUS
    <3>5. <<v, x>> \in Sent(m) /\ <<u, y>> \in Sent(m)
      BY <1>7, <2>3, <3>1, <3>2, <3>3, <3>4
    <3>6. <<v, x>> = <<u, y>>
      BY <2>3, <3>5 DEF AtMostOne
    <3>7. v = u /\ x = y
      BY <3>6
    <3>8. i = k
      BY <3>3, <3>4, <3>7
    <3>9. QED
      BY <3>1, <3>2, <3>7, <3>8
  <2>4. QED
    BY <2>1, <2>2, <2>3 DEF MailboxesKeep, AtMostOne
<1>10. QED
  BY <1>6, <1>8, <1>9

\* The task leaves the handler's hand with the message; it is lost when the
\* worker's queue went with its process.
LEMMA SendTaskMoves ==
    ASSUME Inv, Execution, NEW j \in jobs, SendTask(j)
    PROVE  Execution'
<1>1. /\ j.at = "send" /\ deliver(j.worker, j.task) /\ Become(j, {})
      /\ UNCHANGED <<dagVars, queue, crashed>>
  BY DEF SendTask
<1>2. PICK n \in Node : n = j.task
  BY <1>1, TaskInHand
<1>3. /\ NodeInv(n) /\ InHand(n) = {j} /\ Waiting(n)
      /\ InQueue(n) = {} /\ Sent(n) = {} /\ RunBy(n) = {} /\ Reported(n) = {}
  BY <1>1, <1>2, TaskInHand
<1>4. PICK w \in Worker : w = j.worker
  BY <1>1, HandlerFacts DEF HandShape, SchedulingPoints
<1>5. deliver(w, n) /\ UNCHANGED <<alive, executing, uploading, stored>>
  BY <1>1, <1>2, <1>4 DEF deliver
<1>6. /\ \A m \in Node \ {n} : MailboxesKeep(m)
      /\ AtMostOne(Sent(n)')
      /\ alive[w] => Sent(n)' # {}
  BY <1>3, <1>5, DeliverMailboxes
<1>7. jobs' = jobs \ {j}
  BY <1>1 DEF Become
<1>8. InHand(n)' = {} /\ Reported(n)' = {}
  BY <1>3, <1>7 DEF InHand, Reported
<1>9. InQueue(n)' = {} /\ RunBy(n)' = {} /\ OwnArtifactStays(n)
  BY <1>1, <1>3, <1>5, PlacesStay DEF OwnArtifactStays
<1>10. OnePlace(n)'
  BY <1>6, <1>8, <1>9 DEF OnePlace, OneOf, AtMostOne
<1>11. NobodyDied' => NobodyDied /\ alive[w]
  BY <1>1, <1>5 DEF NobodyDied
<1>12. NobodyDied' => Waiting(n)' /\ (RunBy(n)' # {} => StartReported(n)')
  BY <1>6, <1>9, <1>11 DEF Waiting
<1>13. NodeInv(n)'
  BY <1>1, <1>3, <1>9, <1>10, <1>12, WaitingMoves DEF dagVars
<1>14. Goes(j, n)
  BY <1>1, <1>2, HandlerFacts DEF Goes, HandShape
<1>15. \A m \in Node \ {n} : /\ QueueKeeps(m) /\ RunBy(m)' = RunBy(m)
                             /\ OwnArtifactStays(m) /\ status'[m] = status[m]
  BY <1>1, <1>5, PlacesStay, KeptPlaces DEF OwnArtifactStays, dagVars
<1>16. QED
  BY <1>6, <1>7, <1>11, <1>13, <1>14, <1>15, MoveStep

\* A report says nothing of a task in hand.
LEMMA ReportFields ==
    ASSUME NEW op \in Op, NEW at \in Point, NEW n, NEW w
    PROVE  LET i == Report(op, at, n, w)
           IN  /\ i.op = op /\ i.at = at /\ i.node = n /\ i.worker = w /\ i.task = None
BY DEF Report, Job

LEMMA ReportShape ==
    ASSUME NEW op \in {"taskStarted", "taskCompleted", "taskFailed"}, NEW n, NEW w
    PROVE  LET i == Report(op, "mark", n, w)
           IN  /\ i.op = op /\ i.at = "mark" /\ i.node = n /\ i.task = None
               /\ HandShape(i)
<1>1. PICK i : i = Report(op, "mark", n, w)
  OBVIOUS
<1>2. i.op = op /\ i.at = "mark" /\ i.node = n /\ i.task = None
  BY <1>1, ReportFields DEF Op, Point
<1>3. HandShape(i)
  BY <1>2, SchedulerAssumption DEF HandShape, SchedulingPoints
<1>4. QED
  BY <1>1, <1>2, <1>3

\* The message becomes an execution, and its start is reported.
LEMMA WorkerStartsMoves ==
    ASSUME Inv, IdleIsIdle, Execution, NEW w \in Worker, WorkerStarts(w)
    PROVE  Execution'
<1>1. PICK n \in Node : /\ StartTask(w, n)
                        /\ jobs' = jobs \cup {Report("taskStarted", "mark", n, w)}
  BY DEF WorkerStarts
<1>2. /\ MessageReceived(w, n) /\ executing' = [executing EXCEPT ![w] = n]
      /\ UNCHANGED <<alive, uploading, stored>> /\ UNCHANGED <<dagVars, queue, crashed>>
  BY <1>1 DEF WorkerStarts, StartTask
<1>3. PICK i : i = Report("taskStarted", "mark", n, w)
  OBVIOUS
<1>4. i.op = "taskStarted" /\ i.at = "mark" /\ i.node = n /\ i.task = None /\ HandShape(i)
  BY <1>3, ReportShape
<1>5. /\ \A m \in Node \ {n} : MailboxesKeep(m)
      /\ Sent(n) # {}
      /\ AtMostOne(Sent(n)) => Sent(n)' = {}
  BY <1>2, ReceivedMailboxes
<1>6. NodeInv(n) /\ OnePlace(n)
  BY DEF Execution, NodeInv
<1>7. /\ Waiting(n) /\ Sent(n)' = {}
      /\ InQueue(n) = {} /\ InHand(n) = {} /\ RunBy(n) = {} /\ Reported(n) = {}
  BY <1>5, <1>6, OnlyPlace DEF Waiting
<1>8. executing \in [Worker -> Node \cup {None}] /\ executing[w] = None
  BY <1>2, ProcessFacts DEF MessageReceived
<1>9. uploading[w] = {}
  BY <1>8 DEF IdleIsIdle
<1>10. RunBy(n)' = {w} /\ \A m \in Node \ {n} : RunBy(m)' = RunBy(m)
  BY <1>2, <1>7, <1>8, <1>9, SchedulerAssumption DEF RunBy
<1>11. jobs' = jobs \cup {i}
  BY <1>1, <1>3
<1>12. InHand(n)' = {} /\ Reported(n)' = {} /\ StartReported(n)'
  BY <1>4, <1>7, <1>11, SchedulerAssumption DEF InHand, Reported, IsEndReport, StartReported
<1>13. InQueue(n)' = {} /\ OwnArtifactStays(n)
  BY <1>2, <1>7, PlacesStay DEF OwnArtifactStays
<1>14. OnePlace(n)' /\ Waiting(n)'
  BY <1>7, <1>10, <1>12, <1>13 DEF OnePlace, OneOf, AtMostOne, Waiting
<1>15. NodeInv(n)'
  BY <1>2, <1>6, <1>7, <1>12, <1>13, <1>14, WaitingMoves DEF dagVars
<1>16. Appears(i, n)
  BY <1>4 DEF Appears
<1>17. \A m \in Node \ {n} : QueueKeeps(m) /\ OwnArtifactStays(m) /\ status'[m] = status[m]
  BY <1>2, PlacesStay, KeptPlaces DEF OwnArtifactStays, dagVars
<1>18. NobodyDied' => NobodyDied
  BY <1>2, PlacesStay
<1>19. QED
  BY <1>4, <1>5, <1>10, <1>11, <1>15, <1>16, <1>17, <1>18, MoveStep

\* The message becomes the report of a failure, under the task's id or none.
LEMMA WorkerRejectsMoves ==
    ASSUME Inv, Execution, NEW w \in Worker, WorkerRejects(w)
    PROVE  Execution'
<1>1. PICK n \in Node :
        /\ RejectTask(w, n)
        /\ \E k \in {n, None} : jobs' = jobs \cup {Report("taskFailed", "mark", k, w)}
  BY DEF WorkerRejects
<1>2. PICK k \in {n, None} : jobs' = jobs \cup {Report("taskFailed", "mark", k, w)}
  BY <1>1
<1>3. /\ MessageReceived(w, n)
      /\ UNCHANGED <<alive, executing, uploading, stored>> /\ UNCHANGED <<dagVars, queue, crashed>>
  BY <1>1 DEF WorkerRejects, RejectTask
<1>4. PICK i : i = Report("taskFailed", "mark", k, w)
  OBVIOUS
<1>5. i.op = "taskFailed" /\ i.at = "mark" /\ i.node = k /\ i.task = None /\ HandShape(i)
  BY <1>4, ReportShape
<1>6. /\ \A m \in Node \ {n} : MailboxesKeep(m)
      /\ Sent(n) # {}
      /\ AtMostOne(Sent(n)) => Sent(n)' = {}
  BY <1>3, ReceivedMailboxes
<1>7. NodeInv(n) /\ OnePlace(n) /\ PlacedIsActive(n) /\ FinishedIsFinal(n) /\ NotAheadOfExecution(n)
  BY DEF Execution, NodeInv
<1>8. /\ Waiting(n) /\ Sent(n)' = {}
      /\ InQueue(n) = {} /\ InHand(n) = {} /\ RunBy(n) = {} /\ Reported(n) = {}
  BY <1>6, <1>7, OnlyPlace DEF Waiting
<1>9. jobs' = jobs \cup {i}
  BY <1>2, <1>4
<1>10. InHand(n)' = {} /\ Reported(n)' \subseteq {i} /\ FailReported(n)'
  BY <1>5, <1>8, <1>9, SchedulerAssumption DEF InHand, Reported, FailReported
<1>11. /\ InQueue(n)' = {} /\ RunBy(n)' = {} /\ OwnArtifactStays(n)
  BY <1>3, <1>8, PlacesStay DEF OwnArtifactStays
<1>12. OnePlace(n)' /\ ~Waiting(n)'
  BY <1>8, <1>10, <1>11 DEF OnePlace, OneOf, AtMostOne, Waiting
<1>13. NodeInv(n)'
  <2>1. status'[n] = status[n]
    BY <1>3 DEF dagVars
  <2>2. PlacedIsActive(n)'
    BY <1>7, <1>8, <2>1 DEF PlacedIsActive
  <2>3. FinishedIsFinal(n)'
    BY <1>7, <1>8, <1>11 DEF FinishedIsFinal, OwnArtifactStays
  <2>4. Accounted(n)'
    BY <1>10, <1>11 DEF Accounted
  <2>5. NotAheadOfExecution(n)'
    BY <1>12 DEF NotAheadOfExecution
  <2>6. QED
    BY <1>12, <2>2, <2>3, <2>4, <2>5 DEF NodeInv
<1>14. Appears(i, n)
  BY <1>5, SchedulerAssumption DEF Appears
<1>15. \A m \in Node \ {n} : /\ QueueKeeps(m) /\ RunBy(m)' = RunBy(m)
                             /\ OwnArtifactStays(m) /\ status'[m] = status[m]
  BY <1>3, PlacesStay, KeptPlaces DEF OwnArtifactStays, dagVars
<1>16. NobodyDied' => NobodyDied
  BY <1>3, PlacesStay
<1>17. QED
  BY <1>5, <1>6, <1>9, <1>13, <1>14, <1>15, <1>16, MoveStep

\* The execution becomes the report of its end.
LEMMA ExecutionEnds ==
    ASSUME Inv, Execution, NEW w \in Worker, NEW n \in Node,
           NEW op \in {"taskCompleted", "taskFailed"},
           executing[w] = n, uploading[w] = {},
           jobs' = jobs \cup {Report(op, "mark", n, w)},
           executing' = [executing EXCEPT ![w] = executing'[w]],
           uploading' = [uploading EXCEPT ![w] = uploading'[w]],
           executing'[w] = None \/ (executing'[w] = n /\ uploading'[w] # {}),
           \/ UNCHANGED stored
           \/ stored' = stored \cup Results[n] /\ op = "taskCompleted",
           UNCHANGED <<dagVars, alive, mailbox, queue, crashed>>
    PROVE  Execution'
<1>1. /\ executing \in [Worker -> Node \cup {None}] /\ uploading \in [Worker -> SUBSET Artifact]
  BY ProcessFacts
<1>2. PICK i : i = Report(op, "mark", n, w)
  OBVIOUS
<1>3. i.op = op /\ i.at = "mark" /\ i.node = n /\ i.task = None /\ HandShape(i)
  BY <1>2, ReportShape
<1>4. /\ NodeInv(n) /\ OnePlace(n) /\ PlacedIsActive(n) /\ FinishedIsFinal(n) /\ Accounted(n)
      /\ NotAheadOfExecution(n)
  BY DEF Execution, NodeInv
<1>5. w \in RunBy(n)
  BY DEF RunBy
<1>6. /\ Waiting(n) /\ RunBy(n) = {w}
      /\ InQueue(n) = {} /\ InHand(n) = {} /\ Sent(n) = {} /\ Reported(n) = {}
  BY <1>4, <1>5, OnlyPlace DEF Waiting, AtMostOne
<1>7. \A v \in Worker \ {w} : executing'[v] = executing[v] /\ uploading'[v] = uploading[v]
  BY <1>1
<1>8. RunBy(n)' = {} /\ \A m \in Node \ {n} : RunBy(m)' = RunBy(m)
  BY <1>6, <1>7, SchedulerAssumption DEF RunBy
<1>9. jobs' = jobs \cup {i}
  BY <1>2
<1>10. /\ InHand(n)' = {} /\ Reported(n)' = {i}
       /\ StartReported(n) => StartReported(n)'
       /\ op = "taskFailed" => FailReported(n)'
  BY <1>3, <1>6, <1>9, SchedulerAssumption
     DEF InHand, Reported, IsEndReport, FailReported, StartReported
<1>11. InQueue(n)' = {} /\ Sent(n)' = {}
  BY <1>6, PlacesStay
<1>12. OnePlace(n)' /\ ~Waiting(n)'
  BY <1>8, <1>10, <1>11 DEF OnePlace, OneOf, AtMostOne, Waiting
<1>13. (NobodyDied' <=> NobodyDied) /\ status' = status
  BY PlacesStay DEF dagVars
<1>14. NodeInv(n)'
  <2>1. status[n] \in {"queued", "running", "succeeded"}
    BY <1>4, <1>6 DEF PlacedIsActive
  <2>2. PlacedIsActive(n)'
    BY <1>13, <2>1 DEF PlacedIsActive
  <2>3. FinishedIsFinal(n)'
    <3>1. ~OwnArtifactStored(n)
      BY <1>4, <1>6 DEF FinishedIsFinal
    <3>2. OwnArtifactStored(n)' => op = "taskCompleted"
      BY <3>1 DEF OwnArtifactStored
    <3>3. QED
      BY <1>3, <1>10, <1>12, <1>13, <2>1, <3>2 DEF FinishedIsFinal
  <2>4. Accounted(n)'
    BY <1>4, <1>6, <1>8, <1>10, <1>13 DEF Accounted
  <2>5. NotAheadOfExecution(n)'
    BY <1>12 DEF NotAheadOfExecution
  <2>6. QED
    BY <1>12, <2>2, <2>3, <2>4, <2>5 DEF NodeInv
<1>15. \A m \in Node \ {n} : OwnArtifactStays(m)
  BY DEF OwnArtifactStays, OwnArtifactStored
<1>16. Appears(i, n)
  BY <1>3 DEF Appears
<1>17. \A m \in Node \ {n} : QueueKeeps(m) /\ MailboxesKeep(m) /\ status'[m] = status[m]
  BY <1>13, KeptPlaces
<1>18. QED
  BY <1>3, <1>8, <1>9, <1>13, <1>14, <1>15, <1>16, <1>17, MoveStep

LEMMA WorkerCompletesMoves ==
    ASSUME Inv, Execution, NEW w \in Worker, WorkerCompletes(w)
    PROVE  Execution'
<1>1. PICK n \in Node : /\ CompleteTask(w, n)
                        /\ jobs' = jobs \cup {Report("taskCompleted", "mark", n, w)}
  BY DEF WorkerCompletes
<1>2. /\ executing[w] = n /\ uploading[w] = {} /\ stored' = stored \cup Results[n]
      /\ uploading' = [uploading EXCEPT ![w] = Results[n]]
      /\ executing' = [executing EXCEPT ![w] = IF Results[n] = {} THEN None ELSE n]
      /\ UNCHANGED <<dagVars, alive, mailbox, queue, crashed>>
  BY <1>1 DEF WorkerCompletes, CompleteTask
<1>3. executing \in [Worker -> Node \cup {None}] /\ uploading \in [Worker -> SUBSET Artifact]
  BY ProcessFacts
<1>4. /\ executing' = [executing EXCEPT ![w] = executing'[w]]
      /\ uploading' = [uploading EXCEPT ![w] = uploading'[w]]
      /\ executing'[w] = None \/ (executing'[w] = n /\ uploading'[w] # {})
  BY <1>2, <1>3
<1>5. QED
  BY <1>1, <1>2, <1>4, ExecutionEnds

LEMMA WorkerFailsMoves ==
    ASSUME Inv, Execution, NEW w \in Worker, WorkerFails(w)
    PROVE  Execution'
<1>1. PICK n \in Node : /\ FailTask(w, n)
                        /\ jobs' = jobs \cup {Report("taskFailed", "mark", n, w)}
  BY DEF WorkerFails
<1>2. /\ executing[w] = n /\ uploading[w] = {}
      /\ executing' = [executing EXCEPT ![w] = None]
      /\ UNCHANGED <<dagVars, alive, mailbox, uploading, stored, queue, crashed>>
  BY <1>1 DEF WorkerFails, FailTask
<1>3. executing \in [Worker -> Node \cup {None}] /\ uploading \in [Worker -> SUBSET Artifact]
  BY ProcessFacts
<1>4. /\ executing' = [executing EXCEPT ![w] = executing'[w]]
      /\ uploading' = [uploading EXCEPT ![w] = uploading'[w]]
      /\ executing'[w] = None
  BY <1>2, <1>3
<1>5. QED
  BY <1>1, <1>2, <1>4, ExecutionEnds

\* A worker that reports the artifacts of a task no longer executes it.
LEMMA WorkerReportsArtifactMoves ==
    ASSUME Inv, Execution, NEW w \in Worker, WorkerReportsArtifact(w)
    PROVE  Execution'
<1>1. PICK a \in uploading[w] :
        /\ ReportArtifact(w, a)
        /\ jobs' = jobs \cup {[Report("addArtifact", "add", executing[w], w) EXCEPT !.store = {a}]}
  BY DEF WorkerReportsArtifact
<1>2. UNCHANGED <<dagVars, queue, crashed, alive, mailbox, stored>>
  BY <1>1 DEF WorkerReportsArtifact, ReportArtifact
<1>3. PICK r : r = Report("addArtifact", "add", executing[w], w)
  OBVIOUS
<1>4. r.task = None /\ r.op = "addArtifact" /\ r.at = "add"
  BY <1>3, ReportFields DEF Op, Point
<1>5. PICK i : i = [r EXCEPT !.store = {a}]
  OBVIOUS
<1>6. i.task = None /\ i.op = "addArtifact" /\ i.at = "add"
  <2>1. r.task = None /\ r.op = "addArtifact" /\ r.at = "add"
    BY <1>4
  <2>2. QED
    BY <1>3, <1>5 DEF Report, Job
<1>7. Plain(i) /\ jobs' = jobs \cup {i}
  BY <1>1, <1>3, <1>5, <1>6, PlainAt
<1>8. /\ executing \in [Worker -> Node \cup {None}] /\ uploading \in [Worker -> SUBSET Artifact]
      /\ uploading' = [uploading EXCEPT ![w] = uploading[w] \ {a}]
      /\ executing' = [executing EXCEPT ![w] = IF uploading[w] = {a} THEN None ELSE executing[w]]
  BY <1>1, ProcessFacts DEF ReportArtifact
<1>9. ASSUME NEW n \in Node
      PROVE  RunBy(n)' = RunBy(n)
  <2>1. w \notin RunBy(n)
    BY DEF RunBy
  <2>2. uploading'[w] = {} => executing'[w] = None
    BY <1>8
  <2>3. w \notin RunBy(n)'
    BY <2>2, SchedulerAssumption DEF RunBy
  <2>4. \A v \in Worker \ {w} : executing'[v] = executing[v] /\ uploading'[v] = uploading[v]
    BY <1>8
  <2>5. QED
    BY <2>1, <2>3, <2>4 DEF RunBy
<1>10. \A n \in Node : StatusStays(n)
  BY <1>2 DEF StatusStays, dagVars
<1>11. (\A x \in jobs' : x \in jobs \/ Plain(x)) /\ (\A x \in jobs : x \in jobs' \/ Idle(x))
  BY <1>7
<1>12. QED
  BY <1>2, <1>9, <1>10, <1>11, QuietStep

\* What a worker has goes with its process.
LEMMA WorkerStopsMoves ==
    ASSUME Inv, Execution, NEW w \in Worker, WorkerStops(w)
    PROVE  Execution'
<1>1. /\ alive' = [alive EXCEPT ![w] = FALSE] /\ alive[w]
      /\ mailbox' = [mailbox EXCEPT ![w] = <<>>]
      /\ executing' = [executing EXCEPT ![w] = None]
      /\ uploading' = [uploading EXCEPT ![w] = {}]
      /\ UNCHANGED <<stored, dagVars, queue, jobs, crashed>>
  BY DEF WorkerStops, StopWorker
<1>2. /\ alive \in [Worker -> BOOLEAN] /\ mailbox \in [Worker -> Seq(Node)]
      /\ executing \in [Worker -> Node \cup {None}] /\ uploading \in [Worker -> SUBSET Artifact]
  BY ProcessFacts
<1>3. ~NobodyDied'
  BY <1>1, <1>2 DEF NobodyDied
<1>4. ASSUME NEW n \in Node
      PROVE  NodeInv(n)'
  <2>1. Sent(n)' \subseteq Sent(n)
    <3>. SUFFICES ASSUME NEW v \in Worker, NEW i, <<v, i>> \in Sent(n)'
                  PROVE  <<v, i>> \in Sent(n)
      BY SentPairs
    <3>1. i \in 1..Len(mailbox'[v]) /\ mailbox'[v][i] = n
      BY SentPositions
    <3>2. v # w
      BY <1>1, <1>2, <3>1
    <3>3. mailbox'[v] = mailbox[v]
      BY <1>1, <1>2, <3>2
    <3>4. QED
      BY <3>1, <3>3, SentPositions
  <2>2. RunBy(n)' \subseteq RunBy(n)
    BY <1>1, <1>2, SchedulerAssumption DEF RunBy
  <2>3. InQueue(n)' = InQueue(n) /\ OwnArtifactStays(n) /\ StatusStays(n)
    BY <1>1, PlacesStay DEF OwnArtifactStays, StatusStays, dagVars
  <2>4. InHand(n)' = InHand(n) /\ Reported(n)' = Reported(n)
    BY <1>1 DEF InHand, Reported
  <2>5. NoMore(n)
    BY <2>1, <2>2, <2>3, <2>4 DEF NoMore, AtMostOne
  <2>6. QED
    BY <1>3, <2>3, <2>5, NodeStays DEF NoneLost, Execution
<1>5. QED
  BY <1>1, <1>4 DEF Execution, HandShape

\* What the handlers have goes with the process of the task manager.
LEMMA ProcessDiesMoves ==
    ASSUME Inv, Execution, NEW lost, ProcessDies(lost)
    PROVE  Execution'
<1>1. crashed' = TRUE /\ jobs' \subseteq jobs /\ UNCHANGED <<dagVars, processVars, queue>>
  BY DEF ProcessDies
<1>2. ASSUME NEW n \in Node
      PROVE  NodeInv(n)'
  <2>1. /\ InQueue(n)' = InQueue(n) /\ Sent(n)' = Sent(n) /\ RunBy(n)' = RunBy(n)
        /\ OwnArtifactStays(n) /\ StatusStays(n)
    BY <1>1, PlacesStay DEF OwnArtifactStays, StatusStays, dagVars, processVars
  <2>2. InHand(n)' \subseteq InHand(n) /\ Reported(n)' \subseteq Reported(n)
    BY <1>1 DEF InHand, Reported
  <2>3. NoMore(n) /\ NoneLost(n)
    BY <1>1, <2>1, <2>2 DEF NoMore, NoneLost, NobodyDied
  <2>4. QED
    BY <2>1, <2>3, NodeStays DEF Execution
<1>3. QED
  BY <1>1, <1>2 DEF Execution, HandShape

-----------------------------------------------------------------------------
(* The reports of the workers.                                             *)

\* The node runs; nothing else is said of it than before.
LEMMA TaskStartedMoves ==
    ASSUME Inv, Execution, NEW j \in jobs, TaskStarted(j)
    PROVE  Execution'
<1>1. /\ j.op = "taskStarted" /\ setNodeStatus(j.node, "running") /\ Become(j, {})
      /\ UNCHANGED <<processVars, queue, crashed>>
  BY DEF TaskStarted
<1>2. PICK n \in Node : n = j.node
  BY <1>1 DEF setNodeStatus, MayBecome
<1>3. /\ status \in [Node -> DagNodeStatus] /\ j.task = None
      /\ \A m \in Node : status[m] # "on-hold"
  BY <1>1, HandlerFacts DEF Inv, TypeOK, DagTypeOK, NothingRunsAhead, DagSound, QueueingOps
<1>4. /\ status[n] = "queued" /\ status'[n] = "running"
      /\ \A m \in Node \ {n} : status'[m] = status[m]
  BY <1>1, <1>2, <1>3 DEF setNodeStatus, MayBecome, proceedingStatuses
<1>5. jobs' = jobs \ {j}
  BY <1>1 DEF Become
<1>6. /\ NodeInv(n) /\ OnePlace(n) /\ PlacedIsActive(n) /\ FinishedIsFinal(n)
  BY DEF Execution, NodeInv
<1>7. /\ InQueue(n)' = InQueue(n) /\ Sent(n)' = Sent(n) /\ RunBy(n)' = RunBy(n)
      /\ (OwnArtifactStored(n)' <=> OwnArtifactStored(n))
  BY <1>1, PlacesStay DEF processVars
<1>8. InHand(n)' = InHand(n) /\ Reported(n)' = Reported(n)
  BY <1>1, <1>3, <1>5, SchedulerAssumption DEF InHand, Reported, IsEndReport
<1>9. NodeInv(n)'
  <2>1. OnePlace(n)' /\ (Waiting(n)' <=> Waiting(n))
    BY <1>6, <1>7, <1>8 DEF OnePlace, Waiting
  <2>2. QED
    BY <1>4, <1>6, <1>7, <1>8, <2>1 DEF NodeInv, PlacedIsActive, FinishedIsFinal, Accounted,
       NotAheadOfExecution
<1>10. Goes(j, n)
  BY <1>1, <1>2, <1>3 DEF Goes
<1>11. \A m \in Node \ {n} : /\ QueueKeeps(m) /\ MailboxesKeep(m)
                             /\ RunBy(m)' = RunBy(m) /\ OwnArtifactStays(m)
  BY <1>1, PlacesStay, KeptPlaces DEF processVars, OwnArtifactStays
<1>12. NobodyDied' => NobodyDied
  BY <1>1, PlacesStay DEF processVars
<1>13. QED
  BY <1>4, <1>5, <1>9, <1>10, <1>11, <1>12, MoveStep

\* A reported completion is the end of the only execution.
LEMMA TaskCompletedMoves ==
    ASSUME Inv, Execution, NEW j \in jobs, TaskCompleted(j)
    PROVE  Execution'
<1>1. /\ j.op = "taskCompleted" /\ j.at = "mark" /\ setNodeStatus(j.node, "succeeded")
      /\ Become(j, queueOutStandingTasks([j EXCEPT !.dag = status'], status', findForDag))
      /\ UNCHANGED <<processVars, queue, crashed>>
  BY DEF TaskCompleted
<1>2. PICK n \in Node : n = j.node
  BY <1>1 DEF setNodeStatus, MayBecome
<1>3. j \in JobType /\ j.task = None /\ status \in [Node -> DagNodeStatus]
  BY <1>1, HandlerFacts DEF Inv, TypeOK, DagTypeOK
<1>4. PICK dag : dag = status'
  OBVIOUS
<1>5. dag \in [Node -> DagNodeStatus]
  BY <1>1, <1>3, <1>4 DEF setNodeStatus, DagNodeStatus
<1>6. PICK k : k = [j EXCEPT !.dag = dag]
  OBVIOUS
<1>7. k \in JobType /\ k.task = None /\ k.op \in QueueingOps
  BY <1>1, <1>3, <1>5, <1>6 DEF JobType, QueueingOps
<1>8. \A i \in queueOutStandingTasks(k, dag, findForDag) : Plain(i)
  BY <1>7, QueueOutstandingPlain
<1>9. Become(j, queueOutStandingTasks(k, dag, findForDag))
  BY <1>1, <1>4, <1>6
<1>10. ~Waiting(n)
  <2>1. j \in Reported(n)
    BY <1>1, <1>2 DEF Reported, IsEndReport
  <2>2. QED
    BY <2>1, OnlyPlace DEF Execution, NodeInv
<1>11. \A m \in Node : StatusStays(m)
  BY <1>1, <1>2, <1>3, <1>10 DEF StatusStays, setNodeStatus, MayBecome, proceedingStatuses
<1>12. QED
  BY <1>1, <1>3, <1>8, <1>9, <1>11, QuietHandler DEF Idle

\* A reported failure is the end of the only execution, too: the node is at no
\* place when it is queued again.
LEMMA TaskFailedMoves ==
    ASSUME Inv, Execution, NEW j \in jobs, TaskFailed(j)
    PROVE  Execution'
<1>1. /\ j.op = "taskFailed" /\ j.at = "mark" /\ setNodeStatus(j.node, "failed")
      /\ UNCHANGED <<processVars, queue, crashed>>
  BY DEF TaskFailed, increaseRetryCountOfNodeAndSetStatusFailed
<1>2. PICK n \in Node : n = j.node
  BY <1>1 DEF setNodeStatus, MayBecome
<1>3. /\ j \in JobType /\ j.task = None /\ status \in [Node -> DagNodeStatus]
      /\ retryCount[n] \in Nat
  BY <1>1, <1>2, HandlerFacts DEF Inv, TypeOK, DagTypeOK
<1>4. PICK k : k = [j EXCEPT !.tries = retryCount[j.node] + 1]
  OBVIOUS
<1>5. k \in JobType /\ k.task = None /\ k.op = "taskFailed"
  <2>1. PICK tries : tries = retryCount[j.node] + 1
    OBVIOUS
  <2>2. tries \in Nat /\ k = [j EXCEPT !.tries = tries]
    BY <1>2, <1>3, <1>4, <2>1
  <2>3. QED
    BY <1>1, <1>3, <2>2 DEF JobType
<1>6. PICK c : c = [k EXCEPT !.at = "cancel"]
  OBVIOUS
<1>7. c.task = None /\ c.op = "taskFailed" /\ c.at = "cancel"
  BY <1>5, <1>6 DEF JobType
<1>8. PICK S : S = IF k.tries > MaxRetryCount[j.node] THEN {c} ELSE QueueAll(k, {j.node})
  OBVIOUS
<1>9. jobs' = (jobs \ {j}) \cup S
  BY <1>4, <1>6, <1>8 DEF TaskFailed, Become
<1>10. \A i \in S : Plain(i)
  <2>1. Plain(c)
    BY <1>7, PlainAt
  <2>2. \A i \in QueueAll(k, {n}) : Plain(i)
    BY <1>5, QueueAllPlain DEF QueueingOps
  <2>3. QED
    BY <1>2, <1>8, <2>1, <2>2
<1>11. /\ NodeInv(n) /\ OnePlace(n) /\ PlacedIsActive(n) /\ FinishedIsFinal(n)
  BY DEF Execution, NodeInv
<1>12. j \in Reported(n)
  BY <1>1, <1>2 DEF Reported, IsEndReport
<1>13. ~Waiting(n) /\ AtMostOne(Reported(n)) /\ ~OwnArtifactStored(n)
  BY <1>1, <1>11, <1>12, OnlyPlace DEF FinishedIsFinal
<1>14. /\ status'[n] = "failed" /\ \A m \in Node \ {n} : status'[m] = status[m]
  BY <1>1, <1>2, <1>3 DEF setNodeStatus
<1>15. InHand(n)' = {} /\ Reported(n)' = {}
  BY <1>9, <1>10, <1>12, <1>13, SchedulerAssumption
     DEF InHand, Reported, Waiting, IsEndReport, Plain, AtMostOne
<1>16. /\ InQueue(n)' = {} /\ Sent(n)' = {} /\ RunBy(n)' = {} /\ ~OwnArtifactStored(n)'
  BY <1>1, <1>13, PlacesStay DEF processVars, Waiting
<1>17. NodeInv(n)'
  <2>1. OnePlace(n)' /\ ~Waiting(n)'
    BY <1>15, <1>16 DEF OnePlace, OneOf, AtMostOne, Waiting
  <2>2. QED
    BY <1>14, <1>15, <1>16, <2>1 DEF NodeInv, PlacedIsActive, FinishedIsFinal, Accounted,
       NotAheadOfExecution
<1>18. Goes(j, n)
  BY <1>1, <1>2, <1>3 DEF Goes
<1>19. \A i \in jobs' : i \in jobs \/ (Appears(i, n) /\ HandShape(i))
  BY <1>9, <1>10 DEF Plain, Appears, IsEndReport
<1>20. \A m \in Node \ {n} : /\ QueueKeeps(m) /\ MailboxesKeep(m)
                             /\ RunBy(m)' = RunBy(m) /\ OwnArtifactStays(m)
  BY <1>1, PlacesStay, KeptPlaces DEF processVars, OwnArtifactStays
<1>21. NobodyDied' => NobodyDied
  BY <1>1, PlacesStay DEF processVars
<1>22. QED
  BY <1>9, <1>14, <1>17, <1>18, <1>19, <1>20, <1>21, MoveStep

-----------------------------------------------------------------------------
(* The invariant holds in every state.                                     *)

\* What workers do keeps idle workers idle; nothing else touches them.
LEMMA IdleStaysIdle ==
    ASSUME Inv, IdleIsIdle, [Next]_vars
    PROVE  IdleIsIdle'
<1>1. executing \in [Worker -> Node \cup {None}] /\ uploading \in [Worker -> SUBSET Artifact]
  BY ProcessFacts
<1>2. CASE UNCHANGED <<executing, uploading>>
  BY <1>2 DEF IdleIsIdle
<1>3. ASSUME NEW w \in Worker, WorkerStep(w) \/ WorkerStops(w)
      PROVE  IdleIsIdle'
  <2>1. CASE WorkerRejects(w)
    BY <1>2, <2>1 DEF WorkerRejects, RejectTask
  <2>2. ASSUME /\ executing' = [executing EXCEPT ![w] = executing'[w]]
               /\ uploading' = [uploading EXCEPT ![w] = uploading'[w]]
               /\ executing'[w] = None => uploading'[w] = {}
        PROVE  IdleIsIdle'
    <3>1. \A v \in Worker \ {w} : executing'[v] = executing[v] /\ uploading'[v] = uploading[v]
      BY <1>1, <2>2
    <3>2. QED
      BY <2>2, <3>1 DEF IdleIsIdle
  <2>3. CASE WorkerStarts(w)
    <3>1. PICK n \in Node : executing' = [executing EXCEPT ![w] = n] /\ uploading' = uploading
      BY <2>3 DEF WorkerStarts, StartTask
    <3>2. QED
      BY <1>1, <2>2, <3>1, SchedulerAssumption
  <2>4. CASE WorkerCompletes(w)
    <3>1. PICK n \in Node :
            /\ uploading' = [uploading EXCEPT ![w] = Results[n]]
            /\ executing' = [executing EXCEPT ![w] = IF Results[n] = {} THEN None ELSE n]
      BY <2>4 DEF WorkerCompletes, CompleteTask
    <3>2. QED
      BY <1>1, <2>2, <3>1, SchedulerAssumption
  <2>5. CASE WorkerReportsArtifact(w)
    <3>1. PICK a \in uploading[w] :
            /\ uploading' = [uploading EXCEPT ![w] = uploading[w] \ {a}]
            /\ executing' = [executing EXCEPT ![w] = IF uploading[w] = {a} THEN None
                                                     ELSE executing[w]]
      BY <1>1, <2>5 DEF WorkerReportsArtifact, ReportArtifact
    <3>2. executing[w] # None
      BY <3>1 DEF IdleIsIdle
    <3>3. QED
      BY <1>1, <2>2, <3>1, <3>2
  <2>6. CASE WorkerFails(w)
    <3>1. /\ executing' = [executing EXCEPT ![w] = None]
          /\ uploading' = uploading /\ uploading[w] = {}
      BY <2>6 DEF WorkerFails, FailTask
    <3>2. QED
      BY <1>1, <2>2, <3>1
  <2>7. CASE WorkerStops(w)
    <3>1. /\ executing' = [executing EXCEPT ![w] = None]
          /\ uploading' = [uploading EXCEPT ![w] = {}]
      BY <2>7 DEF WorkerStops, StopWorker
    <3>2. QED
      BY <1>1, <2>2, <3>1
  <2>8. QED
    BY <1>3, <2>1, <2>3, <2>4, <2>5, <2>6, <2>7 DEF WorkerStep
<1>4. ASSUME NEW j \in jobs, HandlerStep(j)
      PROVE  UNCHANGED <<executing, uploading>>
  <2>1. CASE SendTask(j)
    BY <2>1 DEF SendTask, deliver
  <2>2. CASE Reject(j)
    BY <2>2 DEF Reject, ProcessDies, processVars
  <2>3. CASE MarkNodeAsQueued(j) \/ EnqueueNode(j) \/ AbandonQueueing(j)
             \/ ScheduleTasksForAllFreeWorkers(j) \/ FinishWorkflow(j) \/ OnDagFailed(j)
             \/ TaskStarted(j) \/ TaskCompleted(j) \/ TaskFailed(j)
    BY <2>3 DEF MarkNodeAsQueued, EnqueueNode, AbandonQueueing, ScheduleTasksForAllFreeWorkers,
       FinishWorkflow, OnDagFailed, TaskStarted, TaskCompleted, TaskFailed, processVars
  <2>4. CASE CancelPendingTasks(j) \/ ClearWorkOfFailedTask(j)
             \/ AddArtifact(j) \/ OnArtifactAdded(j) \/ OnArtifactUploaded(j)
             \/ UpdateDagNodeStati(j)
    BY <2>4 DEF CancelPendingTasks, ClearWorkOfFailedTask, AddArtifact, OnArtifactAdded,
       OnArtifactUploaded, UpdateDagNodeStati, processVars
  <2>5. CASE FindWorkerWorkingOnNode(j) \/ TakeHeldTask(j) \/ TakeQueuedTask(j)
             \/ NothingToTake(j) \/ ClearWorkOfWorker(j) \/ AssignTask(j)
             \/ AssignmentRefused(j) \/ RequeueTask(j) \/ GetWorker(j)
             \/ MarkWorkerStale(j) \/ UnholdTaskOfStaleWorker(j)
    BY <2>5 DEF FindWorkerWorkingOnNode, TakeHeldTask, TakeQueuedTask, NothingToTake,
       ClearWorkOfWorker, AssignTask, AssignmentRefused, RequeueTask, GetWorker,
       MarkWorkerStale, UnholdTaskOfStaleWorker, processVars
  <2>6. QED
    BY <1>4, <2>1, <2>2, <2>3, <2>4, <2>5 DEF HandlerStep
<1>5. CASE CreateWorkflow \/ CheckForStaleWorkers \/ Restart \/ UNCHANGED vars
  BY <1>2, <1>5 DEF CreateWorkflow, CheckForStaleWorkers, Restart, ProcessDies, vars, processVars
<1>6. ASSUME NEW w \in Worker, Heartbeat(w) \/ HeartbeatExpires(w)
      PROVE  IdleIsIdle'
  BY <1>2, <1>6 DEF Heartbeat, HeartbeatExpires, processVars
<1>7. QED
  BY <1>2, <1>3, <1>4, <1>5, <1>6 DEF Next

\* Nothing is on hold: no handler takes a held task.
LEMMA NoHeldTask ==
    ASSUME Inv, NEW j \in jobs
    PROVE  ~TakeHeldTask(j)
BY DEF Inv, NothingRunsAhead, JobShape, TakeHeldTask

LEMMA HandlerStepMoves ==
    ASSUME Inv, Execution, NEW j \in jobs, HandlerStep(j)
    PROVE  Execution'
<1>1. CASE MarkNodeAsQueued(j) \/ EnqueueNode(j) \/ AbandonQueueing(j)
           \/ ScheduleTasksForAllFreeWorkers(j) \/ FinishWorkflow(j) \/ OnDagFailed(j)
  BY <1>1, MarkNodeAsQueuedMoves, EnqueueNodeMoves, AbandonQueueingMoves,
     ScheduleTasksForAllFreeWorkersMoves, FinishWorkflowMoves
<1>2. CASE TaskStarted(j) \/ TaskCompleted(j) \/ TaskFailed(j)
           \/ CancelPendingTasks(j) \/ ClearWorkOfFailedTask(j)
  BY <1>2, TaskStartedMoves, TaskCompletedMoves, TaskFailedMoves, CancelPendingTasksMoves,
     ClearWorkOfFailedTaskMoves
<1>3. CASE AddArtifact(j) \/ OnArtifactAdded(j) \/ OnArtifactUploaded(j) \/ UpdateDagNodeStati(j)
  BY <1>3, AddArtifactMoves, OnArtifactAddedMoves, OnArtifactUploadedMoves,
     UpdateDagNodeStatiMoves
<1>4. CASE FindWorkerWorkingOnNode(j) \/ TakeHeldTask(j) \/ TakeQueuedTask(j) \/ NothingToTake(j)
  BY <1>4, FindWorkerWorkingOnNodeMoves, NoHeldTask, TakeQueuedTaskMoves, NothingToTakeMoves
<1>5. CASE ClearWorkOfWorker(j) \/ AssignTask(j) \/ AssignmentRefused(j)
           \/ RequeueTask(j) \/ SendTask(j) \/ GetWorker(j)
  BY <1>5, HandlerEnds, AssignTaskMoves, RequeueTaskMoves, SendTaskMoves, GetWorkerMoves
<1>6. CASE MarkWorkerStale(j) \/ UnholdTaskOfStaleWorker(j)
  BY <1>6, MarkWorkerStaleMoves, HandlerEnds
<1>7. CASE Reject(j)
  BY <1>7, ProcessDiesMoves DEF Reject
<1>8. QED
  BY <1>1, <1>2, <1>3, <1>4, <1>5, <1>6, <1>7 DEF HandlerStep

LEMMA NextMoves ==
    ASSUME Inv, IdleIsIdle, Execution, [Next]_vars
    PROVE  Execution'
<1>1. CASE CreateWorkflow \/ CheckForStaleWorkers \/ UNCHANGED vars
  BY <1>1, CreateWorkflowMoves, CheckForStaleWorkersMoves, StutterMoves
<1>2. CASE \E j \in jobs : HandlerStep(j)
  BY <1>2, HandlerStepMoves
<1>3. ASSUME NEW w \in Worker, Heartbeat(w) \/ HeartbeatExpires(w) \/ WorkerStep(w) \/ WorkerStops(w)
      PROVE  Execution'
  BY <1>3, HeartbeatMoves, HeartbeatExpiresMoves, WorkerStartsMoves, WorkerRejectsMoves,
     WorkerCompletesMoves, WorkerReportsArtifactMoves, WorkerFailsMoves, WorkerStopsMoves
     DEF WorkerStep
<1>4. CASE Restart
  BY <1>4, ProcessDiesMoves DEF Restart
<1>5. QED
  BY <1>1, <1>2, <1>3, <1>4 DEF Next

LEMMA InitExecution ==
    ASSUME Init
    PROVE  IdleIsIdle /\ Execution
<1>1. /\ status = NewDag /\ queue = <<>> /\ jobs = {} /\ stored = {}
      /\ mailbox = [w \in Worker |-> <<>>] /\ executing = [w \in Worker |-> None]
      /\ uploading = [w \in Worker |-> {}]
  BY DEF Init, DagInit, ProcessInit
<1>2. ASSUME NEW n \in Node
      PROVE  NodeInv(n)
  <2>1. InQueue(n) = {} /\ InHand(n) = {} /\ RunBy(n) = {} /\ Reported(n) = {}
    BY <1>1, SchedulerAssumption DEF InQueue, InHand, RunBy, Reported
  <2>2. Sent(n) = {}
    BY <1>1, SentPairs
  <2>3. status[n] = "pending" /\ ~OwnArtifactStored(n)
    BY <1>1 DEF NewDag, OwnArtifactStored
  <2>4. OnePlace(n) /\ ~Waiting(n)
    BY <2>1, <2>2 DEF OnePlace, OneOf, AtMostOne, Waiting
  <2>5. QED
    BY <2>1, <2>3, <2>4 DEF NodeInv, PlacedIsActive, FinishedIsFinal, Accounted,
       NotAheadOfExecution
<1>3. QED
  BY <1>1, <1>2 DEF Execution, IdleIsIdle

\* The invariant holds in every state of the scheduler.
THEOREM ExecutionAlways == Spec => [](Inv /\ IdleIsIdle /\ Execution)
<1>1. Init => Inv /\ IdleIsIdle /\ Execution
  BY InitInv, InitExecution
<1>2. Inv /\ IdleIsIdle /\ Execution /\ [Next]_vars => (Inv /\ IdleIsIdle /\ Execution)'
  BY NextPreserves, IdleStaysIdle, NextMoves
<1>3. QED
  BY <1>1, <1>2, PTL DEF Spec

-----------------------------------------------------------------------------
(* What it means for the executions of a task.                             *)

\* No task is on its way to two executions at once, and none is on its way to
\* one while it is pending, failed or canceled, whatever completes it.
AtMostOneCopy ==
    \A n \in Node :
        /\ \A c, d \in Copies(n) : c = d
        /\ Copies(n) # {} => status[n] \in {"queued", "running", "succeeded"}

\* The copies of a node are the tokens at its places.
LEMMA CopiesByPlace ==
    ASSUME NEW n
    PROVE  /\ \A i \in InQueue(n) : <<"queue", i>> \in Copies(n)
           /\ \A j \in InHand(n) : <<"handler", j>> \in Copies(n)
           /\ \A w \in Worker : \A i \in 1..Len(mailbox[w]) :
                  mailbox[w][i] = n => <<"message", w, i>> \in Copies(n)
           /\ \A w \in RunBy(n) : <<"execution", w>> \in Copies(n)
           /\ \A c \in Copies(n) : \/ \E i \in InQueue(n) : c = <<"queue", i>>
                                   \/ \E j \in InHand(n) : c = <<"handler", j>>
                                   \/ \E w \in Worker : \E i \in 1..Len(mailbox[w]) :
                                          mailbox[w][i] = n /\ c = <<"message", w, i>>
                                   \/ \E w \in RunBy(n) : c = <<"execution", w>>
<1>. DEFINE M(w) == {<<"message", w, i>> : i \in {i \in 1..Len(mailbox[w]) : mailbox[w][i] = n}}
            Q == {<<"queue", i>> : i \in InQueue(n)}
            H == {<<"handler", j>> : j \in InHand(n)}
            U == UNION {M(w) : w \in Worker}
            E == {<<"execution", w>> : w \in RunBy(n)}
<1>1. Copies(n) = Q \cup H \cup E \cup U
  BY Zenon DEF Copies, InQueue, InHand, RunBy
<1>2. /\ \A c : c \in Q <=> \E i \in InQueue(n) : c = <<"queue", i>>
      /\ \A c : c \in H <=> \E j \in InHand(n) : c = <<"handler", j>>
      /\ \A c : c \in E <=> \E w \in RunBy(n) : c = <<"execution", w>>
  <2>1. \A c : c \in Q <=> \E i \in InQueue(n) : c = <<"queue", i>>
    OBVIOUS
  <2>2. \A c : c \in H <=> \E j \in InHand(n) : c = <<"handler", j>>
    OBVIOUS
  <2>3. \A c : c \in E <=> \E w \in RunBy(n) : c = <<"execution", w>>
    OBVIOUS
  <2>4. QED
    BY <2>1, <2>2, <2>3
<1>3. ASSUME NEW w \in Worker
      PROVE  \A c : c \in M(w) <=>
                 \E i \in 1..Len(mailbox[w]) : mailbox[w][i] = n /\ c = <<"message", w, i>>
  <2>1. PICK I : I = {i \in 1..Len(mailbox[w]) : mailbox[w][i] = n}
    OBVIOUS
  <2>2. \A c : c \in {<<"message", w, i>> : i \in I} <=> \E i \in I : c = <<"message", w, i>>
    OBVIOUS
  <2>3. \A i : i \in I <=> i \in 1..Len(mailbox[w]) /\ mailbox[w][i] = n
    BY <2>1
  <2>4. M(w) = {<<"message", w, i>> : i \in I}
    BY <2>1
  <2>5. QED
    BY <2>2, <2>3, <2>4, Zenon
<1>. HIDE DEF M
<1>4. \A c : c \in U <=> \E w \in Worker : c \in M(w)
  OBVIOUS
<1>. HIDE DEF Q, H, U, E
<1>5. \A c : c \in Copies(n) <=> c \in Q \/ c \in H \/ c \in U \/ c \in E
  BY <1>1
<1>6. /\ \A i \in InQueue(n) : <<"queue", i>> \in Copies(n)
      /\ \A j \in InHand(n) : <<"handler", j>> \in Copies(n)
      /\ \A w \in RunBy(n) : <<"execution", w>> \in Copies(n)
  BY <1>2, <1>5, Zenon
<1>7. \A w \in Worker : \A i \in 1..Len(mailbox[w]) :
          mailbox[w][i] = n => <<"message", w, i>> \in Copies(n)
  BY <1>3, <1>4, <1>5, Zenon
<1>8. ASSUME NEW c \in Copies(n)
      PROVE  \/ \E i \in InQueue(n) : c = <<"queue", i>>
             \/ \E j \in InHand(n) : c = <<"handler", j>>
             \/ \E w \in Worker : \E i \in 1..Len(mailbox[w]) :
                    mailbox[w][i] = n /\ c = <<"message", w, i>>
             \/ \E w \in RunBy(n) : c = <<"execution", w>>
  <2>1. CASE c \in U
    BY <2>1, <1>3, <1>4, Zenon
  <2>2. QED
    BY <1>2, <1>5, <1>8, <2>1, Zenon
<1>9. QED
  BY <1>6, <1>7, <1>8

\* A node at one place has one copy, a node that does not wait has none.
LEMMA CopiesOfNode ==
    ASSUME NEW n, OnePlace(n)
    PROVE  /\ \A c, d \in Copies(n) : c = d
           /\ Copies(n) # {} <=> Waiting(n)
<1>1. ASSUME NEW c \in Copies(n)
      PROVE  \/ \E i \in InQueue(n) : c = <<"queue", i>>
             \/ \E j \in InHand(n) : c = <<"handler", j>>
             \/ \E p \in Sent(n) : c = <<"message", p[1], p[2]>>
             \/ \E w \in RunBy(n) : c = <<"execution", w>>
  <2>1. ASSUME NEW w \in Worker, NEW i \in 1..Len(mailbox[w]), mailbox[w][i] = n,
               c = <<"message", w, i>>
        PROVE  \E p \in Sent(n) : c = <<"message", p[1], p[2]>>
    <3>1. <<w, i>> \in Sent(n)
      BY <2>1, SentPositions
    <3>2. c = <<"message", <<w, i>>[1], <<w, i>>[2]>>
      BY <2>1
    <3>3. QED
      BY <3>1, <3>2
  <2>2. QED
    BY <1>1, <2>1, CopiesByPlace
<1>2. \A c, d \in Copies(n) : c = d
  <2>. SUFFICES ASSUME NEW c \in Copies(n), NEW d \in Copies(n)
                PROVE  c = d
    OBVIOUS
  <2>1. CASE InQueue(n) # {}
    BY <2>1, <1>1, OnlyPlace DEF AtMostOne
  <2>2. CASE InHand(n) # {}
    BY <2>2, <1>1, OnlyPlace DEF AtMostOne
  <2>3. CASE Sent(n) # {}
    BY <2>3, <1>1, OnlyPlace DEF AtMostOne
  <2>4. CASE RunBy(n) # {}
    BY <2>4, <1>1, OnlyPlace DEF AtMostOne
  <2>5. QED
    BY <2>1, <2>2, <2>3, <2>4, <1>1
<1>3. Copies(n) # {} => Waiting(n)
  BY <1>1 DEF Waiting
<1>4. Waiting(n) => Copies(n) # {}
  <2>1. ASSUME NEW p \in Sent(n)
        PROVE  Copies(n) # {}
    <3>1. PICK w \in Worker : \E i \in 1..Len(mailbox[w]) : p = <<w, i>>
      BY SentPairs
    <3>2. PICK i \in 1..Len(mailbox[w]) : p = <<w, i>>
      BY <3>1
    <3>3. mailbox[w][i] = n
      BY <3>2, SentPositions
    <3>4. <<"message", w, i>> \in Copies(n)
      BY <3>3, CopiesByPlace
    <3>5. QED
      BY <3>4
  <2>2. QED
    BY <2>1, CopiesByPlace DEF Waiting
<1>5. QED
  BY <1>2, <1>3, <1>4

\* A task is never on its way to two executions at once, whatever fails, stops,
\* is late or is restarted.
THEOREM NeverTwoExecutions == Spec => []AtMostOneCopy
<1>1. Execution => AtMostOneCopy
  BY CopiesOfNode DEF Execution, NodeInv, PlacedIsActive, AtMostOneCopy
<1>2. QED
  BY <1>1, ExecutionAlways, PTL

\* ... nor is it on its way to one after it has succeeded, if what completes a
\* task is an artifact of its own.
THEOREM ExecutedOnce ==
    ASSUME OwnCriteria
    PROVE  Spec => []AtMostOneExecution
<1>1. Execution => AtMostOneExecution
  <2>. SUFFICES ASSUME Execution, NEW n \in Node
                PROVE  /\ \A c, d \in Copies(n) : c = d
                       /\ Copies(n) # {} => status[n] \in {"queued", "running"}
    BY DEF AtMostOneExecution
  <2>1. OnePlace(n) /\ PlacedIsActive(n) /\ NotAheadOfExecution(n)
    BY DEF Execution, NodeInv
  <2>2. QED
    BY <2>1, CopiesOfNode DEF PlacedIsActive, NotAheadOfExecution
<1>2. QED
  BY <1>1, ExecutionAlways, PTL

\* A queued task is on its way to an execution, or has left its traces in a
\* report, as long as no process has died.
THEOREM QueuedTasksAreKept == Spec => []NoQueuedTaskLost
<1>1. Execution => NoQueuedTaskLost
  <2>. SUFFICES ASSUME Execution, ~crashed, \A w \in Worker : alive[w],
                       NEW n \in Node, status[n] = "queued"
                PROVE  \/ Copies(n) # {}
                       \/ \E j \in jobs : j.op \in {"taskStarted", "taskFailed"}
                                        /\ j.node \in {n, None}
    BY DEF NoQueuedTaskLost
  <2>1. OnePlace(n) /\ Accounted(n)
    BY DEF Execution, NodeInv
  <2>2. Waiting(n) \/ StartReported(n) \/ FailReported(n)
    BY <2>1 DEF Accounted, NobodyDied
  <2>3. QED
    BY <2>1, <2>2, CopiesOfNode DEF StartReported, FailReported
<1>2. QED
  BY <1>1, ExecutionAlways, PTL
=============================================================================
