-------------------------- MODULE SchedulerProofs ---------------------------
(***************************************************************************)
(* Proofs about module Scheduler, for every workflow, any number of        *)
(* workers and any combination of faults.                                  *)
(*                                                                         *)
(* The handlers decide on copies of the DAG and of the artifact store that *)
(* may be old when they act.  That is safe because what a copy allows      *)
(* stays allowed: success is final and artifacts are never taken away      *)
(* (Forward).  The inductive invariant Inv says so of every place where a  *)
(* task or a verdict waits.  One lemma per step shows that it is kept; the *)
(* theorems at the end follow from it.                                     *)
(***************************************************************************)
EXTENDS SchedulerProperties, SequenceTheorems, TLAPS

\* The inductive invariant.
Inv == TypeOK /\ NothingRunsAhead

\* What the invariant says of a handler in flight.
GoodJob(j) == j \in JobType /\ JobShape(j) /\ JobSound(j)

\* Success is final, a released task stays released, artifacts stay.
Forward ==
    /\ \A m \in Node : status[m] = "succeeded" => status'[m] = "succeeded"
    /\ \A m \in Node : Released(m) => Released(m)'
    /\ stored \subseteq stored'

\* The handlers that queue tasks.
QueueingOps == {"create", "taskCompleted", "onArtifactUploaded", "taskFailed", "onWorkerStale"}

-----------------------------------------------------------------------------

\* What a task depends on stays there, once it is.
LEMMA DepsStay ==
    ASSUME Forward, NEW n \in Node, DepsMet(n)
    PROVE  DepsMet(n)'
BY DagAssumption DEF Forward, DepsMet

\* The criteria of the workflow stay met, once they are.
LEMMA CriteriaStay ==
    ASSUME Forward, CriteriaMet
    PROVE  CriteriaMet'
BY SchedulerAssumption DEF Forward, CriteriaMet

\* A step that only moves forward takes nothing from a handler that does not
\* take part in it: an old copy stays no further than the truth.
LEMMA JobStays ==
    ASSUME Forward, NEW j, GoodJob(j)
    PROVE  GoodJob(j)'
<1>1. j \in JobType /\ JobShape(j)
  BY DEF GoodJob
<1>2. /\ j.node \in Node \cup {None} /\ j.task \in Node \cup {None}
      /\ j.todo \subseteq Node /\ j.store \subseteq Artifact
  BY <1>1 DEF JobType
<1>3. JobSound(j)
  BY DEF GoodJob
<1>4. (j.at # "complete" => \A n \in j.todo : DepsMet(n))'
  BY <1>2, <1>3, DepsStay DEF JobSound
<1>5. (j.task \in Node => DepsMet(j.task))'
  BY <1>3, DepsStay DEF JobSound
<1>6. (j.op = "taskFailed" /\ j.node \in Node => DepsMet(j.node))'
  BY <1>3, DepsStay DEF JobSound
<1>7. (j.op = "finishWorkflow" => CriteriaMet)'
  BY <1>3, CriteriaStay DEF JobSound
<1>8. JobSound(j)'
  BY <1>3, <1>4, <1>5, <1>6, <1>7 DEF JobSound, Forward
<1>9. QED
  BY <1>1, <1>8 DEF GoodJob, JobShape

\* What an action need not show of the variables it leaves alone.
LEMMA Frame ==
    ASSUME Inv, Forward
    PROVE  /\ UNCHANGED dagVars => DagTypeOK' /\ DagSound'
           /\ UNCHANGED status => DagSound'
           /\ UNCHANGED workerVars => WorkersTypeOK'
           /\ UNCHANGED processVars => ProcessTypeOK'
           /\ UNCHANGED <<workerVars, processVars>> => WorkersSound'
           /\ UNCHANGED <<nodesOnHold, mailbox, executing, uploading>> => WorkersSound'
           /\ UNCHANGED queue => queue' \in Seq(Node) /\ QueueSound'
           /\ UNCHANGED workflow => /\ workflow' \in {"none", "running", "succeeded", "failed"}
                                    /\ (workflow = "succeeded" => CriteriaMet)'
           /\ UNCHANGED crashed => crashed' \in BOOLEAN
           /\ \A j \in jobs : GoodJob(j)'
<1>1. TypeOK /\ NothingRunsAhead
  BY DEF Inv
<1>2. UNCHANGED status => DagSound'
  BY <1>1, DepsStay DEF NothingRunsAhead, DagSound, Released
<1>3. UNCHANGED dagVars => DagTypeOK' /\ DagSound'
  BY <1>1, <1>2 DEF TypeOK, DagTypeOK, dagVars
<1>4. UNCHANGED workerVars => WorkersTypeOK'
  BY <1>1 DEF TypeOK, WorkersTypeOK, workerVars
<1>5. UNCHANGED processVars => ProcessTypeOK'
  BY <1>1 DEF TypeOK, ProcessTypeOK, processVars
<1>6. UNCHANGED <<nodesOnHold, mailbox, executing, uploading>> => WorkersSound'
  <2>. SUFFICES ASSUME UNCHANGED <<nodesOnHold, mailbox, executing, uploading>>, NEW w \in Worker
                PROVE  /\ nodesOnHold'[w] = <<>>
                       /\ \A i \in 1..Len(mailbox'[w]) : DepsMet(mailbox[w][i])'
                       /\ executing'[w] \in Node => DepsMet(executing[w])'
                       /\ uploading'[w] \subseteq stored'
    BY DEF WorkersSound
  <2>1. mailbox[w] \in Seq(Node) /\ WorkersSound
    BY <1>1 DEF TypeOK, ProcessTypeOK, NothingRunsAhead
  <2>2. \A i \in 1..Len(mailbox'[w]) : mailbox'[w][i] \in Node /\ DepsMet(mailbox[w][i])
    BY <2>1 DEF WorkersSound
  <2>3. QED
    BY <2>1, <2>2, DepsStay DEF WorkersSound, Forward
<1>7. UNCHANGED <<workerVars, processVars>> => WorkersSound'
  BY <1>6 DEF workerVars, processVars
<1>8. UNCHANGED queue => queue' \in Seq(Node) /\ QueueSound'
  <2>1. queue \in Seq(Node) /\ QueueSound
    BY <1>1 DEF TypeOK, NothingRunsAhead
  <2>2. \A i \in 1..Len(queue) : queue[i] \in Node /\ DepsMet(queue[i])
    BY <2>1 DEF QueueSound
  <2>3. QED
    BY <2>1, <2>2, DepsStay DEF QueueSound
<1>9. UNCHANGED workflow => /\ workflow' \in {"none", "running", "succeeded", "failed"}
                            /\ (workflow = "succeeded" => CriteriaMet)'
  BY <1>1, CriteriaStay DEF TypeOK, NothingRunsAhead
<1>10. \A j \in jobs : GoodJob(j)'
  BY <1>1, JobStays DEF TypeOK, NothingRunsAhead, GoodJob
<1>11. QED
  BY <1>1, <1>2, <1>3, <1>4, <1>5, <1>6, <1>7, <1>8, <1>9, <1>10 DEF TypeOK

-----------------------------------------------------------------------------

\* The operations and the points handlers start with belong to Op and to Point.
LEMMA HandlerNames ==
    /\ "create" \in Op /\ "finishWorkflow" \in Op /\ "scheduleNext" \in Op
    /\ "scheduleFree" \in Op /\ "onDagFailed" \in Op /\ "checkForStaleWorkers" \in Op
    /\ "addArtifact" \in Op
    /\ "queue" \in Point /\ "write" \in Point /\ "find" \in Point /\ "take" \in Point
    /\ "getWorker" \in Point /\ "scan" \in Point /\ "add" \in Point
BY DEF Op, Point

\* A new handler is well typed and has its fields empty.
LEMMA FreshJob ==
    ASSUME NEW op \in Op, NEW at \in Point, NEW n \in Node \cup {None}
    PROVE  LET j == Job(op, at, n)
           IN  /\ j \in JobType
               /\ j.op = op /\ j.at = at /\ j.node = n /\ j.task = None /\ j.todo = {}
               /\ j.store = {} /\ j.held = <<>> /\ j.dag = NewDag
BY DEF Job, JobType, NewDag, DagNodeStatus

\* A new handler that has no copies and no task in hand, and announces neither
\* a failure nor a verdict, relies on nothing.
LEMMA FreshJobGood ==
    ASSUME NEW op \in Op \ {"taskFailed", "onDagFailed", "finishWorkflow"},
           NEW at \in {"mark", "add", "find", "getWorker", "take", "queue", "scan"},
           NEW n \in Node \cup {None},
           NEW j \in JobType, j.op = op, j.at = at, j.node = n, j.task = None, j.todo = {},
           j.store \subseteq stored', j.held = <<>>, j.dag = NewDag,
           at = "queue" => op \in QueueingOps,
           at = "getWorker" => j.worker \in Worker
    PROVE  GoodJob(j)'
<1>1. JobShape(j)
  BY DEF JobShape, QueueingOps
<1>2. \A m \in Node : j.dag[m] # "succeeded"
  BY DEF NewDag
<1>3. JobSound(j)'
  BY <1>2, SchedulerAssumption DEF JobSound
<1>4. QED
  BY <1>1, <1>3 DEF GoodJob, JobShape

\* The handler that will write "succeeded" starts only when the copy it was
\* decided on meets the criteria, and then the stored DAG does so as well.
LEMMA CompletionCheckGood ==
    ASSUME NEW n \in Node \cup {None}, NEW dag \in [Node -> DagNodeStatus],
           NEW store \in SUBSET Artifact, store \subseteq stored',
           \A m \in Node : dag[m] = "succeeded" => status'[m] = "succeeded",
           NEW i \in checkCompletionCriteria(n, dag, store)
    PROVE  GoodJob(i)'
<1>. DEFINE f == Job("finishWorkflow", "write", n)
<1>1. /\ i = [f EXCEPT !.store = store]
      /\ \A m \in WorkflowTaskCriteria : dag[m] = "succeeded"
      /\ WorkflowArtifactCriteria \subseteq store
  BY DEF checkCompletionCriteria
<1>2. CriteriaMet'
  BY <1>1, SchedulerAssumption DEF CriteriaMet
<1>3. /\ f \in JobType /\ f.op = "finishWorkflow" /\ f.at = "write" /\ f.task = None
      /\ f.todo = {} /\ f.held = <<>> /\ f.dag = NewDag
  BY FreshJob, HandlerNames
<1>. HIDE DEF f
<1>4. /\ i \in JobType /\ i.op = "finishWorkflow" /\ i.at = "write" /\ i.task = None
      /\ i.todo = {} /\ i.held = <<>> /\ i.dag = NewDag /\ i.store = store
  BY <1>1, <1>3 DEF JobType
<1>5. JobShape(i) /\ JobSound(i)'
  BY <1>2, <1>4, SchedulerAssumption DEF JobShape, JobSound, NewDag
<1>6. QED
  BY <1>4, <1>5 DEF GoodJob, JobShape

\* scheduleTaskForWorkerWorkingOnNode may start at any time.
LEMMA ScheduleNextGood ==
    ASSUME NEW n \in Node \cup {None}
    PROVE  GoodJob(scheduleNextJob(n))'
<1>. DEFINE j == Job("scheduleNext", "find", n)
<1>1. /\ j \in JobType /\ j.op = "scheduleNext" /\ j.at = "find" /\ j.node = n
      /\ j.task = None /\ j.todo = {} /\ j.store = {} /\ j.held = <<>> /\ j.dag = NewDag
  BY FreshJob, HandlerNames
<1>. HIDE DEF j
<1>2. GoodJob(j)'
  BY <1>1, FreshJobGood DEF Op
<1>3. QED
  BY <1>2 DEF j, scheduleNextJob

\* Whatever follows the queueing of tasks is a good handler again.
LEMMA AfterQueueingGood ==
    ASSUME NEW k \in JobType, k.held = <<>>, JobSound(k)', k.op \in QueueingOps, k.todo = {},
           k.op = "taskFailed" => k.node \in Node /\ Released(k.node)',
           NEW i \in AfterQueueing(k)
    PROVE  GoodJob(i)'
<1>1. k \in JobType /\ k.held = <<>> /\ JobSound(k)'
  OBVIOUS
<1>2. \A at \in {"free", "clear", "unhold"} :
        (at = "clear" => k.op = "taskFailed") => GoodJob([k EXCEPT !.at = at])'
  <2>. TAKE at \in {"free", "clear", "unhold"}
  <2>. HAVE at = "clear" => k.op = "taskFailed"
  <2>. DEFINE c == [k EXCEPT !.at = at]
  <2>1. /\ c \in JobType /\ c.op = k.op /\ c.at = at /\ c.node = k.node /\ c.task = k.task
        /\ c.todo = {} /\ c.held = k.held /\ c.dag = k.dag /\ c.store = k.store
    BY <1>1 DEF JobType, Point
  <2>. HIDE DEF c
  <2>2. JobShape(c) /\ JobSound(c)'
    BY <1>1, <2>1 DEF JobShape, JobSound
  <2>3. GoodJob(c)'
    BY <2>1, <2>2 DEF GoodJob, JobShape
  <2>4. QED
    BY <2>3 DEF c
<1>3. CASE k.op = "create"
  BY <1>2, <1>3 DEF AfterQueueing
<1>4. CASE k.op = "taskCompleted"
  <2>1. i \in checkCompletionCriteria(k.node, k.dag, {}) \/ i = scheduleNextJob(k.node)
    BY <1>4 DEF AfterQueueing, findForDag
  <2>2. /\ k.node \in Node \cup {None} /\ k.dag \in [Node -> DagNodeStatus]
        /\ \A m \in Node : k.dag[m] = "succeeded" => status'[m] = "succeeded"
    BY <1>1 DEF JobType, JobSound
  <2>3. QED
    BY <2>1, <2>2, CompletionCheckGood, ScheduleNextGood
<1>5. CASE k.op = "onArtifactUploaded"
  <2>1. k.done \subseteq Node
    BY <1>1 DEF JobType
  <2>2. PICK n \in k.done : i = scheduleNextJob(n)
    BY <1>5 DEF AfterQueueing
  <2>3. QED
    BY <2>1, <2>2, ScheduleNextGood
<1>6. CASE k.op = "taskFailed"
  BY <1>2, <1>6 DEF AfterQueueing
<1>7. CASE k.op = "onWorkerStale"
  BY <1>2, <1>7 DEF AfterQueueing
<1>8. QED
  BY <1>3, <1>4, <1>5, <1>6, <1>7 DEF QueueingOps

\* A handler may go on to queue any set of tasks with their dependencies met.
LEMMA QueueAllGood ==
    ASSUME NEW k \in JobType, k.held = <<>>, JobSound(k)', k.op \in QueueingOps,
           k.op = "taskFailed" => k.node \in Node /\ Released(k.node)',
           NEW todo \in SUBSET Node, \A n \in todo : DepsMet(n)',
           NEW i \in QueueAll(k, todo)
    PROVE  GoodJob(i)'
<1>1. k \in JobType /\ k.held = <<>> /\ JobSound(k)'
  OBVIOUS
<1>2. CASE todo = {}
  <2>. DEFINE c == [k EXCEPT !.todo = {}]
  <2>1. /\ c \in JobType /\ c.op = k.op /\ c.at = k.at /\ c.node = k.node /\ c.task = k.task
        /\ c.todo = {} /\ c.held = k.held /\ c.dag = k.dag /\ c.store = k.store
    BY <1>1 DEF JobType
  <2>2. i \in AfterQueueing(c)
    BY <1>2 DEF QueueAll
  <2>. HIDE DEF c
  <2>3. JobSound(c)'
    BY <1>1, <2>1 DEF JobSound
  <2>4. QED
    BY <1>1, <2>1, <2>2, <2>3, AfterQueueingGood
<1>3. CASE todo # {}
  <2>1. i = [k EXCEPT !.at = "queue", !.todo = todo]
    BY <1>3 DEF QueueAll
  <2>2. /\ i \in JobType /\ i.op = k.op /\ i.at = "queue" /\ i.node = k.node /\ i.task = k.task
        /\ i.todo = todo /\ i.held = k.held /\ i.dag = k.dag /\ i.store = k.store
    BY <1>1, <2>1 DEF JobType, Point
  <2>3. JobShape(i) /\ JobSound(i)'
    BY <1>1, <2>2 DEF JobShape, JobSound, QueueingOps
  <2>4. QED
    BY <2>2, <2>3 DEF GoodJob, JobShape
<1>4. QED
  BY <1>2, <1>3

-----------------------------------------------------------------------------

\* The invariant follows from its parts in the next state.
LEMMA Compose ==
    ASSUME DagTypeOK', DagSound', WorkersTypeOK', ProcessTypeOK', WorkersSound',
           queue' \in Seq(Node), QueueSound',
           workflow' \in {"none", "running", "succeeded", "failed"},
           (workflow = "succeeded" => CriteriaMet)',
           crashed' \in BOOLEAN,
           \A i \in jobs' : GoodJob(i)'
    PROVE  Inv'
<1>1. TypeOK'
  BY DEF TypeOK, GoodJob
<1>2. NothingRunsAhead'
  BY DEF NothingRunsAhead, GoodJob
<1>3. QED
  BY <1>1, <1>2 DEF Inv

\* A step that changes neither a status nor the storage.
LEMMA Standstill ==
    ASSUME UNCHANGED status, UNCHANGED stored
    PROVE  Forward
BY DEF Forward, Released

\* A step that changes nothing but the handlers in flight.
LEMMA JobsOnly ==
    ASSUME Inv, UNCHANGED <<dagVars, workerVars, processVars, queue, workflow, crashed>>,
           \A i \in jobs' : i \in jobs \/ GoodJob(i)'
    PROVE  Inv'
<1>1. Forward
  BY Standstill DEF dagVars, processVars
<1>2. \A i \in jobs' : GoodJob(i)'
  BY <1>1, Frame
<1>3. QED
  BY <1>1, <1>2, Frame, Compose

\* A step that changes the stored DAG and the handlers in flight.
LEMMA DagOnly ==
    ASSUME Inv, Forward, DagTypeOK', DagSound',
           UNCHANGED <<workerVars, processVars, queue, workflow, crashed>>,
           \A i \in jobs' : i \in jobs \/ GoodJob(i)'
    PROVE  Inv'
<1>1. \A i \in jobs' : GoodJob(i)'
  BY Frame
<1>2. QED
  BY <1>1, Frame, Compose

\* A step that changes worker documents and the handlers in flight.
LEMMA WorkersOnly ==
    ASSUME Inv, WorkersTypeOK', \A w \in Worker : nodesOnHold'[w] = <<>>,
           UNCHANGED <<dagVars, processVars, queue, workflow, crashed>>,
           \A i \in jobs' : i \in jobs \/ GoodJob(i)'
    PROVE  Inv'
<1>1. Forward
  BY Standstill DEF dagVars, processVars
<1>2. \A i \in jobs' : GoodJob(i)'
  BY <1>1, Frame
<1>3. WorkersSound'
  <2>1. UNCHANGED <<nodesOnHold, mailbox, executing, uploading>>
    <3>1. nodesOnHold \in [Worker -> Seq(Node)] /\ nodesOnHold' \in [Worker -> Seq(Node)]
      BY DEF Inv, TypeOK, WorkersTypeOK
    <3>2. \A w \in Worker : nodesOnHold[w] = nodesOnHold'[w]
      BY DEF Inv, NothingRunsAhead, WorkersSound
    <3>3. nodesOnHold' = nodesOnHold
      BY <3>1, <3>2
    <3>4. QED
      BY <3>3 DEF processVars
  <2>2. QED
    BY <1>1, <2>1, Frame
<1>4. QED
  BY <1>1, <1>2, <1>3, Frame, Compose

\* A conditional status change moves a task forward.
LEMMA StatusStep ==
    ASSUME Inv, NEW n \in Node, NEW s \in {"queued", "running", "succeeded", "failed"},
           setNodeStatus(n, s), UNCHANGED stored
    PROVE  /\ Forward
           /\ status' \in [Node -> DagNodeStatus]
           /\ status'[n] = s
           /\ s \in {"running", "succeeded"} => DepsMet(n)
           /\ DepsMet(n) => DagSound'
<1>1. /\ status \in [Node -> DagNodeStatus]
      /\ DagSound
  BY DEF Inv, TypeOK, DagTypeOK, NothingRunsAhead
<1>2. /\ status[n] \in proceedingStatuses(s)
      /\ status' = [status EXCEPT ![n] = s]
  BY DEF setNodeStatus, MayBecome
<1>3. status[n] # "succeeded"
  BY <1>2 DEF proceedingStatuses
<1>4. Forward
  BY <1>1, <1>2, <1>3 DEF Forward, Released
<1>5. s \in {"running", "succeeded"} => DepsMet(n)
  BY <1>1, <1>2 DEF proceedingStatuses, DagSound, Released
<1>6. status' \in [Node -> DagNodeStatus] /\ status'[n] = s
  BY <1>1, <1>2 DEF DagNodeStatus
<1>7. ASSUME DepsMet(n)
      PROVE  DagSound'
  <2>1. \A m \in Node : status'[m] # "on-hold"
    BY <1>1, <1>2 DEF DagSound
  <2>2. \A m \in Node : Released(m)' => DepsMet(m)
    BY <1>1, <1>2, <1>7 DEF DagSound, Released
  <2>3. \A m \in Node : Released(m)' => DepsMet(m)'
    BY <1>4, <2>2, DepsStay
  <2>4. QED
    BY <2>1, <2>3 DEF DagSound
<1>8. QED
  BY <1>4, <1>5, <1>6, <1>7

\* The facts about a handler in flight that the steps below start from.
LEMMA JobInFlight ==
    ASSUME Inv, NEW j \in jobs
    PROVE  /\ GoodJob(j)
           /\ j.op \in Op /\ j.at \in Point /\ j.node \in Node \cup {None}
           /\ j.worker \in Worker \cup {None} /\ j.tries \in Nat
           /\ j.dag \in [Node -> DagNodeStatus] /\ j.store \in SUBSET Artifact
           /\ j.todo \in SUBSET Node /\ j.done \in SUBSET Node /\ j.task \in Node \cup {None}
           /\ j.workers \in SUBSET Worker
BY DEF Inv, TypeOK, NothingRunsAhead, GoodJob, JobType

-----------------------------------------------------------------------------
(* One lemma per operation of a handler: it preserves the invariant.       *)

\* queueDagNode's status change: the task to be queued has its dependencies met.
LEMMA MarkNodeAsQueuedPreserves ==
    ASSUME Inv, NEW j \in jobs, MarkNodeAsQueued(j)
    PROVE  Inv'
<1>1. PICK n \in j.todo : /\ setNodeStatus(n, "queued")
                          /\ Become(j, {[j EXCEPT !.at = "enqueue", !.task = n]})
  BY DEF MarkNodeAsQueued
<1>2. j.at = "queue" /\ UNCHANGED <<retryCount, workerVars, processVars, queue, workflow, crashed>>
  BY DEF MarkNodeAsQueued
<1>3. n \in Node /\ DepsMet(n) /\ j.op \in QueueingOps
  BY <1>2, JobInFlight DEF GoodJob, JobSound, JobShape, QueueingOps
<1>4. Forward /\ status' \in [Node -> DagNodeStatus] /\ DagSound'
  BY <1>1, <1>2, <1>3, StatusStep DEF processVars
<1>5. DagTypeOK'
  BY <1>2, <1>4 DEF Inv, TypeOK, DagTypeOK
<1>. DEFINE i == [j EXCEPT !.at = "enqueue", !.task = n]
<1>6. GoodJob(j)' /\ DepsMet(n)'
  BY <1>3, <1>4, Frame, DepsStay
<1>7. /\ i \in JobType /\ i.op = j.op /\ i.at = "enqueue" /\ i.node = j.node /\ i.task = n
      /\ i.todo = j.todo /\ i.held = j.held /\ i.dag = j.dag /\ i.store = j.store
  BY <1>3, <1>6 DEF GoodJob, JobType, Point
<1>8. jobs' = (jobs \ {j}) \cup {i}
  BY <1>1 DEF Become
<1>. HIDE DEF i
<1>9. JobShape(i) /\ JobSound(i)'
  BY <1>2, <1>3, <1>6, <1>7 DEF GoodJob, JobShape, JobSound, QueueingOps
<1>10. GoodJob(i)'
  BY <1>7, <1>9 DEF GoodJob, JobShape
<1>11. QED
  BY <1>2, <1>4, <1>5, <1>8, <1>10, DagOnly

\* Adding a task whose dependencies are met keeps the queue sound.
LEMMA EnqueueSound ==
    ASSUME Inv, NEW n \in Node, DepsMet(n), enqueueNode(n), UNCHANGED <<dagVars, processVars>>
    PROVE  queue' \in Seq(Node) /\ QueueSound'
<1>1. queue \in Seq(Node) /\ QueueSound
  BY DEF Inv, TypeOK, NothingRunsAhead
<1>2. queue' = Append(queue, n)
  BY DEF enqueueNode
<1>3. queue' \in Seq(Node)
  BY <1>1, <1>2
<1>4. \A i \in 1..Len(queue') : queue'[i] \in Node /\ DepsMet(queue'[i])
  BY <1>1, <1>2 DEF QueueSound
<1>5. \A m \in Node : DepsMet(m) => DepsMet(m)'
  BY Standstill, DepsStay DEF dagVars, processVars
<1>6. QED
  BY <1>3, <1>4, <1>5 DEF QueueSound

\* queueDagNode's insertion into the task queue.
LEMMA EnqueueNodePreserves ==
    ASSUME Inv, NEW j \in jobs, EnqueueNode(j)
    PROVE  Inv'
<1>. DEFINE k == [j EXCEPT !.task = None]
<1>1. /\ j.at = "enqueue" /\ enqueueNode(j.task)
      /\ jobs' = (jobs \ {j}) \cup QueueAll(k, j.todo \ {j.task})
      /\ UNCHANGED <<dagVars, workerVars, processVars, workflow, crashed>>
  BY DEF EnqueueNode, Become
<1>2. Forward
  BY <1>1, Standstill DEF dagVars, processVars
<1>3. /\ j.task \in Node /\ DepsMet(j.task) /\ j.op \in QueueingOps
      /\ \A n \in j.todo : DepsMet(n)
      /\ j.op = "taskFailed" => j.node \in Node /\ Released(j.node)
  BY <1>1, JobInFlight DEF GoodJob, JobSound, JobShape, QueueingOps
<1>4. queue' \in Seq(Node) /\ QueueSound'
  BY <1>1, <1>3, EnqueueSound
<1>5. GoodJob(j)' /\ j \in JobType
  BY <1>2, Frame, JobInFlight DEF GoodJob
<1>6. /\ k \in JobType /\ k.op = j.op /\ k.at = j.at /\ k.node = j.node /\ k.task = None
      /\ k.todo = j.todo /\ k.held = j.held /\ k.dag = j.dag /\ k.store = j.store
  BY <1>5 DEF JobType
<1>. HIDE DEF k
<1>7. k.held = <<>> /\ JobSound(k)'
  BY <1>1, <1>5, <1>6, SchedulerAssumption DEF GoodJob, JobShape, JobSound
<1>8. \A i \in QueueAll(k, j.todo \ {j.task}) : GoodJob(i)'
  <2>1. j.todo \ {j.task} \in SUBSET Node
    BY JobInFlight
  <2>2. \A n \in j.todo \ {j.task} : DepsMet(n)'
    BY <1>2, <1>3, <2>1, DepsStay
  <2>3. k.op = "taskFailed" => k.node \in Node /\ Released(k.node)'
    BY <1>2, <1>3, <1>6 DEF Forward
  <2>4. QED
    BY <1>3, <1>6, <1>7, <2>1, <2>2, <2>3, QueueAllGood
<1>9. QED
  BY <1>1, <1>2, <1>4, <1>8, Frame, Compose

\* A listener whose status change is refused ends.
LEMMA AbandonQueueingPreserves ==
    ASSUME Inv, NEW j \in jobs, AbandonQueueing(j)
    PROVE  Inv'
BY JobsOnly DEF AbandonQueueing, Become

\* What a copy no further than the truth shows as outstanding has its
\* dependencies met.
LEMMA OutstandingReady ==
    ASSUME NEW dag, \A m \in Node : dag[m] = "succeeded" => status'[m] = "succeeded",
           NEW store, store \subseteq stored',
           NEW n \in getOutstandingTasksOfDag(dag, store)
    PROVE  n \in Node /\ DepsMet(n)'
BY DagAssumption DEF getOutstandingTasksOfDag, hasOpenDependencies, DepsMet

\* queueOutStandingTasks on a copy that is no further than the truth queues only
\* tasks whose dependencies are met.
LEMMA QueueOutstandingGood ==
    ASSUME NEW k \in JobType, k.held = <<>>, JobSound(k)', k.op \in QueueingOps,
           k.op # "taskFailed",
           NEW dag, \A m \in Node : dag[m] = "succeeded" => status'[m] = "succeeded",
           NEW store, store \subseteq stored',
           NEW i \in queueOutStandingTasks(k, dag, store)
    PROVE  GoodJob(i)'
<1>. DEFINE todo == getOutstandingTasksOfDag(dag, store)
<1>1. todo \in SUBSET Node /\ \A n \in todo : DepsMet(n)'
  BY OutstandingReady
<1>2. i \in QueueAll(k, todo)
  BY DEF queueOutStandingTasks
<1>. HIDE DEF todo
<1>3. QED
  BY <1>1, <1>2, QueueAllGood

\* Submitting the workflow.
LEMMA CreateWorkflowPreserves ==
    ASSUME Inv, CreateWorkflow
    PROVE  Inv'
<1>. DEFINE k == Job("create", "queue", None)
<1>1. /\ workflow' = "running"
      /\ jobs' = jobs \cup queueOutStandingTasks(k, NewDag, {})
      /\ UNCHANGED <<dagVars, workerVars, processVars, queue, crashed>>
  BY DEF CreateWorkflow, findForDag
<1>2. Forward
  BY <1>1, Standstill DEF dagVars, processVars
<1>3. /\ k \in JobType /\ k.op = "create" /\ k.at = "queue" /\ k.node = None
      /\ k.task = None /\ k.todo = {} /\ k.store = {} /\ k.held = <<>> /\ k.dag = NewDag
  BY FreshJob, HandlerNames
<1>. HIDE DEF k
<1>4. \A m \in Node : NewDag[m] # "succeeded"
  BY DEF NewDag
<1>5. JobSound(k)'
  BY <1>3, <1>4, SchedulerAssumption DEF JobSound
<1>6. \A i \in queueOutStandingTasks(k, NewDag, {}) : GoodJob(i)'
  BY <1>3, <1>4, <1>5, QueueOutstandingGood DEF QueueingOps
<1>7. \A i \in jobs' : GoodJob(i)'
  BY <1>1, <1>2, <1>6, Frame
<1>8. QED
  BY <1>1, <1>2, <1>7, Frame, Compose

\* A handler that moves on to an operation which needs no more than it has.
LEMMA MoveGood ==
    ASSUME NEW j, GoodJob(j)', j.at # "complete", j.op = "taskFailed" => j.at # "mark",
           NEW i \in JobType, i.op = j.op, i.node = j.node, i.dag = j.dag, i.store = j.store,
           i.todo = j.todo, i.held = <<>>,
           i.at \notin {"queue", "enqueue", "complete", "getWorker"},
           i.at \in {"cancel", "clear"} => i.op = "taskFailed",
           i.at \in {"assign", "send", "requeue"} => i.task \in Node,
           i.task = j.task \/ (i.task \in Node /\ DepsMet(i.task)')
    PROVE  GoodJob(i)'
<1>1. JobShape(i) /\ JobSound(i)'
  BY DEF GoodJob, JobShape, JobSound
<1>2. QED
  BY <1>1 DEF GoodJob, JobShape

\* scheduleTaskForFreeWorker may start at any time.
LEMMA ScheduleFreeGood ==
    ASSUME Inv, NEW w \in Worker, NEW by \in Op \cup {"message", "heartbeat"},
           NEW n \in Node \cup {None}, NEW tries \in Nat,
           NEW i, i = scheduleFreeJob(w, by, n, tries)
    PROVE  GoodJob(i)'
<1>. DEFINE f == Job("scheduleFree", "take", n)
<1>1. /\ f \in JobType /\ f.op = "scheduleFree" /\ f.at = "take" /\ f.node = n
      /\ f.task = None /\ f.todo = {} /\ f.store = {} /\ f.held = <<>> /\ f.dag = NewDag
  BY FreshJob, HandlerNames
<1>2. nodesOnHold[w] = <<>>
  BY DEF Inv, NothingRunsAhead, WorkersSound
<1>3. i = [f EXCEPT !.worker = w, !.by = by, !.tries = tries, !.held = <<>>]
  BY <1>2 DEF scheduleFreeJob
<1>. HIDE DEF f
<1>4. /\ i \in JobType /\ i.op = "scheduleFree" /\ i.at = "take" /\ i.node = n
      /\ i.task = None /\ i.todo = {} /\ i.store = {} /\ i.held = <<>> /\ i.dag = NewDag
  BY <1>1, <1>3 DEF JobType
<1>5. QED
  BY <1>4, FreshJobGood DEF Op

\* scheduleTasksForAllFreeWorkers starts handlers only.
LEMMA ScheduleTasksForAllFreeWorkersPreserves ==
    ASSUME Inv, NEW j \in jobs, ScheduleTasksForAllFreeWorkers(j)
    PROVE  Inv'
<1>1. ASSUME NEW i \in jobs', i \notin jobs
      PROVE  GoodJob(i)'
  <2>1. PICK w \in findFreeWorkers : i = scheduleFreeJob(w, j.op, j.node, j.tries)
    BY <1>1 DEF ScheduleTasksForAllFreeWorkers, Become
  <2>2. QED
    BY <2>1, JobInFlight, ScheduleFreeGood DEF findFreeWorkers
<1>2. QED
  BY <1>1, JobsOnly DEF ScheduleTasksForAllFreeWorkers

\* The verdict "succeeded" is written with the criteria met.
LEMMA FinishWorkflowPreserves ==
    ASSUME Inv, NEW j \in jobs, FinishWorkflow(j)
    PROVE  Inv'
<1>1. /\ workflow' = "succeeded" /\ jobs' \subseteq jobs
      /\ UNCHANGED <<dagVars, workerVars, processVars, queue, crashed>>
  BY DEF FinishWorkflow, Become
<1>2. Forward
  BY <1>1, Standstill DEF dagVars, processVars
<1>3. CriteriaMet
  BY JobInFlight DEF FinishWorkflow, GoodJob, JobSound
<1>4. CriteriaMet'
  BY <1>2, <1>3, CriteriaStay
<1>5. \A i \in jobs' : GoodJob(i)'
  BY <1>1, <1>2, Frame
<1>6. QED
  BY <1>1, <1>2, <1>4, <1>5, Frame, Compose

\* The verdict "failed" says nothing of the criteria.
LEMMA OnDagFailedPreserves ==
    ASSUME Inv, NEW j \in jobs, OnDagFailed(j)
    PROVE  Inv'
<1>1. /\ workflow' = "failed" /\ jobs' \subseteq jobs
      /\ UNCHANGED <<dagVars, workerVars, processVars, queue, crashed>>
  BY DEF OnDagFailed, Become
<1>2. Forward
  BY <1>1, Standstill DEF dagVars, processVars
<1>3. \A i \in jobs' : GoodJob(i)'
  BY <1>1, <1>2, Frame
<1>4. QED
  BY <1>1, <1>2, <1>3, Frame, Compose

\* The report of a start: the task was queued, so its dependencies are met.
LEMMA TaskStartedPreserves ==
    ASSUME Inv, NEW j \in jobs, TaskStarted(j)
    PROVE  Inv'
<1>1. /\ setNodeStatus(j.node, "running") /\ jobs' \subseteq jobs
      /\ UNCHANGED <<retryCount, workerVars, processVars, queue, workflow, crashed>>
  BY DEF TaskStarted, Become
<1>2. j.node \in Node
  BY <1>1 DEF setNodeStatus, MayBecome
<1>3. Forward /\ status' \in [Node -> DagNodeStatus] /\ DagSound'
  BY <1>1, <1>2, StatusStep DEF processVars
<1>4. DagTypeOK'
  BY <1>1, <1>3 DEF Inv, TypeOK, DagTypeOK
<1>5. QED
  BY <1>1, <1>3, <1>4, DagOnly

\* The report of a completion: the copy returned by the update is the truth.
LEMMA TaskCompletedPreserves ==
    ASSUME Inv, NEW j \in jobs, TaskCompleted(j)
    PROVE  Inv'
<1>1. /\ j.op = "taskCompleted" /\ j.at = "mark" /\ setNodeStatus(j.node, "succeeded")
      /\ jobs' = (jobs \ {j}) \cup queueOutStandingTasks([j EXCEPT !.dag = status'], status', {})
      /\ UNCHANGED <<retryCount, workerVars, processVars, queue, workflow, crashed>>
  BY DEF TaskCompleted, Become, findForDag
<1>2. j.node \in Node
  BY <1>1 DEF setNodeStatus, MayBecome
<1>3. Forward /\ status' \in [Node -> DagNodeStatus] /\ DagSound'
  BY <1>1, <1>2, StatusStep DEF processVars
<1>4. DagTypeOK'
  BY <1>1, <1>3 DEF Inv, TypeOK, DagTypeOK
<1>5. GoodJob(j)'
  BY <1>3, Frame
<1>6. PICK dag : dag = status'
  OBVIOUS
<1>. DEFINE k == [j EXCEPT !.dag = dag]
<1>7. /\ k \in JobType /\ k.op = "taskCompleted" /\ k.at = "mark" /\ k.node = j.node
      /\ k.task = j.task /\ k.todo = j.todo /\ k.held = j.held /\ k.store = j.store
      /\ k.dag = dag
  BY <1>1, <1>3, <1>5, <1>6 DEF GoodJob, JobType
<1>8. jobs' = (jobs \ {j}) \cup queueOutStandingTasks(k, dag, {})
  BY <1>1, <1>6
<1>. HIDE DEF k
<1>9. k.held = <<>> /\ JobSound(k)'
  BY <1>1, <1>5, <1>6, <1>7 DEF GoodJob, JobShape, JobSound
<1>10. \A i \in queueOutStandingTasks(k, dag, {}) : GoodJob(i)'
  BY <1>6, <1>7, <1>9, QueueOutstandingGood DEF QueueingOps
<1>11. QED
  BY <1>1, <1>3, <1>4, <1>8, <1>10, DagOnly

\* The report of a failure: the task is queued again or the workflow fails.
LEMMA TaskFailedPreserves ==
    ASSUME Inv, NEW j \in jobs, TaskFailed(j)
    PROVE  Inv'
<1>1. /\ j.op = "taskFailed" /\ j.at = "mark" /\ setNodeStatus(j.node, "failed")
      /\ retryCount' = [retryCount EXCEPT ![j.node] = @ + 1]
      /\ UNCHANGED <<workerVars, processVars, queue, workflow, crashed>>
  BY DEF TaskFailed, increaseRetryCountOfNodeAndSetStatusFailed
<1>2. j.node \in Node
  BY <1>1 DEF setNodeStatus, MayBecome
<1>3. DepsMet(j.node)
  BY <1>1, <1>2, JobInFlight DEF GoodJob, JobSound
<1>4. /\ Forward /\ status' \in [Node -> DagNodeStatus] /\ DagSound'
      /\ status'[j.node] = "failed"
  BY <1>1, <1>2, <1>3, StatusStep DEF processVars
<1>5. DagTypeOK'
  <2>1. retryCount \in [Node -> Nat]
    BY DEF Inv, TypeOK, DagTypeOK
  <2>2. retryCount[j.node] + 1 \in Nat
    BY <1>2, <2>1
  <2>3. retryCount' = [retryCount EXCEPT ![j.node] = retryCount[j.node] + 1]
    BY <1>1
  <2>4. retryCount' \in [Node -> Nat]
    BY <2>1, <2>2, <2>3, Zenon
  <2>5. QED
    BY <1>4, <2>4 DEF DagTypeOK
<1>6. Released(j.node)' /\ DepsMet(j.node)'
  BY <1>2, <1>3, <1>4, DepsStay DEF Released
<1>7. GoodJob(j)'
  BY <1>4, Frame
<1>8. PICK t : t = retryCount[j.node] + 1
  OBVIOUS
<1>9. t \in Nat
  BY <1>2, <1>8 DEF Inv, TypeOK, DagTypeOK
<1>. DEFINE k == [j EXCEPT !.tries = t]
<1>10. /\ k \in JobType /\ k.op = "taskFailed" /\ k.at = "mark" /\ k.node = j.node
       /\ k.task = j.task /\ k.todo = j.todo /\ k.held = j.held /\ k.store = j.store
       /\ k.dag = j.dag
  BY <1>1, <1>7, <1>9 DEF GoodJob, JobType
<1>11. \A i \in jobs' : i \in jobs \/ i = [k EXCEPT !.at = "cancel"] \/ i \in QueueAll(k, {j.node})
  BY <1>8 DEF TaskFailed, Become
<1>. HIDE DEF k
<1>12. k.held = <<>> /\ JobSound(k)'
  BY <1>1, <1>7, <1>10 DEF GoodJob, JobShape, JobSound
<1>13. \A i \in QueueAll(k, {j.node}) : GoodJob(i)'
  BY <1>2, <1>6, <1>10, <1>12, QueueAllGood DEF QueueingOps
<1>14. ASSUME NEW i, i = [k EXCEPT !.at = "cancel"]
       PROVE  GoodJob(i)'
  <2>1. /\ i \in JobType /\ i.op = "taskFailed" /\ i.at = "cancel" /\ i.node = j.node
        /\ i.task = j.task /\ i.todo = j.todo /\ i.held = <<>> /\ i.store = j.store
        /\ i.dag = j.dag
    BY <1>10, <1>12, <1>14 DEF JobType, Point
  <2>2. JobShape(i) /\ JobSound(i)'
    BY <1>1, <1>2, <1>6, <1>10, <1>12, <2>1 DEF JobShape, JobSound
  <2>3. QED
    BY <2>1, <2>2 DEF GoodJob, JobShape
<1>15. QED
  BY <1>1, <1>4, <1>5, <1>11, <1>13, <1>14, DagOnly

\* Canceling a pending task releases nothing.
LEMMA CancelPendingTasksPreserves ==
    ASSUME Inv, NEW j \in jobs, CancelPendingTasks(j)
    PROVE  Inv'
<1>. DEFINE i == [j EXCEPT !.at = "clear"]
<1>1. /\ j.at = "cancel" /\ cancelAllPendingTasksOf /\ jobs' = (jobs \ {j}) \cup {i}
      /\ UNCHANGED <<retryCount, workerVars, processVars, queue, workflow, crashed>>
  BY DEF CancelPendingTasks, Become
<1>2. status \in [Node -> DagNodeStatus] /\ DagSound
  BY DEF Inv, TypeOK, DagTypeOK, NothingRunsAhead
<1>3. \/ UNCHANGED status
      \/ \E n \in Node : status[n] = "pending" /\ status' = [status EXCEPT ![n] = "canceled"]
  BY <1>1 DEF cancelAllPendingTasksOf
<1>4. Forward
  BY <1>1, <1>2, <1>3 DEF Forward, Released, processVars
<1>5. DagTypeOK'
  BY <1>1, <1>2, <1>3 DEF Inv, TypeOK, DagTypeOK, DagNodeStatus
<1>6. DagSound'
  <2>1. \A m \in Node : status'[m] # "on-hold" /\ (Released(m)' => DepsMet(m))
    BY <1>2, <1>3 DEF DagSound, Released
  <2>2. QED
    BY <1>4, <2>1, DepsStay DEF DagSound
<1>7. GoodJob(j)' /\ j.op = "taskFailed"
  BY <1>1, <1>4, Frame, JobInFlight DEF GoodJob, JobShape
<1>8. /\ i \in JobType /\ i.op = j.op /\ i.at = "clear" /\ i.node = j.node /\ i.task = j.task
      /\ i.todo = j.todo /\ i.held = j.held /\ i.dag = j.dag /\ i.store = j.store
  BY <1>7 DEF GoodJob, JobType, Point
<1>. HIDE DEF i
<1>9. j.held = <<>>
  BY <1>7 DEF GoodJob, JobShape
<1>10. GoodJob(i)'
  BY <1>1, <1>7, <1>8, <1>9, MoveGood
<1>11. QED
  BY <1>1, <1>4, <1>5, <1>6, <1>10, DagOnly

\* Clearing the worker of the failed task.
LEMMA ClearWorkOfFailedTaskPreserves ==
    ASSUME Inv, NEW j \in jobs, ClearWorkOfFailedTask(j)
    PROVE  Inv'
<1>1. /\ j.at = "clear" /\ clearWorkOfWorkerWorkingOn(j.node)
      /\ UNCHANGED <<dagVars, processVars, queue, workflow, crashed>>
  BY DEF ClearWorkOfFailedTask
<1>2. Forward
  BY <1>1, Standstill DEF dagVars, processVars
<1>3. WorkersTypeOK' /\ UNCHANGED nodesOnHold
  BY <1>1 DEF clearWorkOfWorkerWorkingOn, clearWorkOfWorker, findWorkerWorkingOn, workerVars,
              Inv, TypeOK, WorkersTypeOK
<1>4. GoodJob(j)' /\ j.op = "taskFailed" /\ j.tries \in Nat
  BY <1>1, <1>2, Frame, JobInFlight DEF GoodJob, JobShape
<1>5. j.node \in Node /\ Released(j.node)'
  BY <1>1, <1>4 DEF GoodJob, JobSound
<1>. DEFINE f == Job("onDagFailed", "write", j.node)
<1>6. \A i \in jobs' : \/ i \in jobs
                       \/ i = [f EXCEPT !.tries = j.tries]
                       \/ i = [j EXCEPT !.at = "free"]
  BY DEF ClearWorkOfFailedTask, Become
<1>7. /\ f \in JobType /\ f.op = "onDagFailed" /\ f.at = "write" /\ f.node = j.node
      /\ f.task = None /\ f.todo = {} /\ f.store = {} /\ f.held = <<>> /\ f.dag = NewDag
  BY <1>5, FreshJob, HandlerNames
<1>. HIDE DEF f
<1>8. ASSUME NEW i, i = [f EXCEPT !.tries = j.tries]
      PROVE  GoodJob(i)'
  <2>1. /\ i \in JobType /\ i.op = "onDagFailed" /\ i.at = "write" /\ i.node = j.node
        /\ i.task = None /\ i.todo = {} /\ i.store = {} /\ i.held = <<>> /\ i.dag = NewDag
    BY <1>4, <1>7, <1>8 DEF JobType
  <2>2. JobShape(i) /\ JobSound(i)'
    BY <1>5, <2>1, SchedulerAssumption DEF JobShape, JobSound, NewDag
  <2>3. QED
    BY <2>1, <2>2 DEF GoodJob, JobShape
<1>9. ASSUME NEW i, i = [j EXCEPT !.at = "free"]
      PROVE  GoodJob(i)'
  <2>1. /\ i \in JobType /\ i.op = j.op /\ i.at = "free" /\ i.node = j.node /\ i.task = j.task
        /\ i.todo = j.todo /\ i.held = <<>> /\ i.dag = j.dag /\ i.store = j.store
    BY <1>4, <1>9 DEF GoodJob, JobShape, JobType, Point
  <2>2. QED
    BY <1>1, <1>4, <2>1, MoveGood
<1>10. \A w \in Worker : nodesOnHold'[w] = <<>>
  BY <1>3 DEF Inv, NothingRunsAhead, WorkersSound
<1>11. QED
  BY <1>1, <1>3, <1>6, <1>8, <1>9, <1>10, WorkersOnly

\* The artifact reported is in the storage, and so is the store of the event.
LEMMA AddArtifactPreserves ==
    ASSUME Inv, NEW j \in jobs, AddArtifact(j)
    PROVE  Inv'
<1>. DEFINE k == [j EXCEPT !.at = "read", !.store = {} \cup @]
            s == [k EXCEPT !.op = "onArtifactUploaded"]
            v == [k EXCEPT !.op = "onArtifactAdded"]
<1>1. /\ j.op = "addArtifact" /\ jobs' = (jobs \ {j}) \cup {s, v}
      /\ UNCHANGED <<dagVars, workerVars, processVars, queue, workflow, crashed>>
  BY DEF AddArtifact, Become, findForDag
<1>2. GoodJob(j)'
  BY <1>1, Frame, Standstill DEF dagVars, processVars
<1>3. /\ k \in JobType /\ k.op = j.op /\ k.at = "read" /\ k.node = j.node /\ k.task = j.task
      /\ k.todo = j.todo /\ k.held = j.held /\ k.dag = j.dag /\ k.store = j.store
  BY <1>2 DEF GoodJob, JobType, Point
<1>. HIDE DEF k
<1>4. ASSUME NEW i, NEW op \in {"onArtifactUploaded", "onArtifactAdded"},
             i = [k EXCEPT !.op = op]
      PROVE  GoodJob(i)'
  <2>1. /\ i \in JobType /\ i.op = op /\ i.at = "read" /\ i.node = j.node /\ i.task = j.task
        /\ i.todo = j.todo /\ i.held = j.held /\ i.dag = j.dag /\ i.store = j.store
    BY <1>3, <1>4 DEF JobType, Op
  <2>2. j.at # "complete"
    BY <1>1, <1>2 DEF GoodJob, JobShape
  <2>3. JobShape(i) /\ JobSound(i)'
    BY <1>2, <2>1, <2>2 DEF GoodJob, JobShape, JobSound
  <2>4. QED
    BY <2>1, <2>3 DEF GoodJob, JobShape
<1>5. GoodJob(s)' /\ GoodJob(v)'
  BY <1>4
<1>6. QED
  BY <1>1, <1>5, JobsOnly

\* The workflow service's listener checks the criteria.
LEMMA OnArtifactAddedPreserves ==
    ASSUME Inv, NEW j \in jobs, OnArtifactAdded(j)
    PROVE  Inv'
<1>1. PICK dag : dag = status
  OBVIOUS
<1>2. /\ jobs' = (jobs \ {j}) \cup checkCompletionCriteria(j.node, dag, j.store)
      /\ UNCHANGED <<dagVars, workerVars, processVars, queue, workflow, crashed>>
  BY <1>1 DEF OnArtifactAdded, Become
<1>3. /\ j.node \in Node \cup {None} /\ dag \in [Node -> DagNodeStatus]
      /\ j.store \in SUBSET Artifact /\ j.store \subseteq stored
  BY <1>1, JobInFlight DEF Inv, TypeOK, DagTypeOK, GoodJob, JobSound
<1>4. /\ \A m \in Node : dag[m] = "succeeded" => status'[m] = "succeeded"
      /\ j.store \subseteq stored'
  BY <1>1, <1>2, <1>3 DEF dagVars, processVars
<1>5. \A i \in checkCompletionCriteria(j.node, dag, j.store) : GoodJob(i)'
  BY <1>3, <1>4, CompletionCheckGood
<1>6. QED
  BY <1>2, <1>5, JobsOnly

\* The scheduler's listener goes on to complete nodes, or to queue tasks.
LEMMA CompleteAllGood ==
    ASSUME NEW k \in JobType, k.op = "onArtifactUploaded", k.held = <<>>, k.store \subseteq stored',
           \A m \in Node : k.dag[m] = "succeeded" => status'[m] = "succeeded",
           k.task \in Node => DepsMet(k.task)',
           NEW todo \in SUBSET Node, NEW i \in CompleteAll(k, todo)
    PROVE  GoodJob(i)'
<1>1. CASE todo = {}
  <2>. DEFINE c == [k EXCEPT !.dag = NewDag, !.todo = {}]
  <2>1. i \in queueOutStandingTasks(c, k.dag, k.store)
    BY <1>1 DEF CompleteAll
  <2>2. NewDag \in [Node -> DagNodeStatus] /\ \A m \in Node : NewDag[m] # "succeeded"
    BY DEF NewDag, DagNodeStatus
  <2>3. /\ c \in JobType /\ c.op = k.op /\ c.at = k.at /\ c.node = k.node /\ c.task = k.task
        /\ c.todo = {} /\ c.held = <<>> /\ c.dag = NewDag /\ c.store = k.store
    BY <2>2 DEF JobType
  <2>. HIDE DEF c
  <2>4. JobSound(c)'
    BY <2>2, <2>3 DEF JobSound
  <2>5. QED
    BY <2>1, <2>3, <2>4, QueueOutstandingGood DEF QueueingOps
<1>2. CASE todo # {}
  <2>1. i = [k EXCEPT !.at = "complete", !.todo = todo]
    BY <1>2 DEF CompleteAll
  <2>2. /\ i \in JobType /\ i.op = k.op /\ i.at = "complete" /\ i.node = k.node
        /\ i.task = k.task /\ i.held = <<>> /\ i.dag = k.dag /\ i.store = k.store
    BY <2>1 DEF JobType, Point
  <2>3. JobShape(i) /\ JobSound(i)'
    BY <2>2 DEF JobShape, JobSound
  <2>4. QED
    BY <2>2, <2>3 DEF GoodJob, JobShape
<1>3. QED
  BY <1>1, <1>2

\* The scheduler's listener reads the DAG.
LEMMA OnArtifactUploadedPreserves ==
    ASSUME Inv, NEW j \in jobs, OnArtifactUploaded(j)
    PROVE  Inv'
<1>1. PICK dag : dag = status
  OBVIOUS
<1>. DEFINE k == [j EXCEPT !.dag = dag]
            todo == nodesMeetingCriteria(dag, j.store)
<1>2. /\ j.op = "onArtifactUploaded" /\ jobs' = (jobs \ {j}) \cup CompleteAll(k, todo)
      /\ UNCHANGED <<dagVars, workerVars, processVars, queue, workflow, crashed>>
  BY <1>1 DEF OnArtifactUploaded, Become
<1>3. GoodJob(j)'
  BY <1>2, Frame, Standstill DEF dagVars, processVars
<1>4. dag \in [Node -> DagNodeStatus] /\ dag = status'
  BY <1>1, <1>2 DEF Inv, TypeOK, DagTypeOK, dagVars
<1>5. /\ k \in JobType /\ k.op = j.op /\ k.held = j.held /\ k.task = j.task
      /\ k.store = j.store /\ k.dag = dag
  BY <1>3, <1>4 DEF GoodJob, JobType
<1>6. todo \in SUBSET Node
  BY DEF nodesMeetingCriteria
<1>. HIDE DEF k, todo
<1>7. \A i \in CompleteAll(k, todo) : GoodJob(i)'
  BY <1>2, <1>3, <1>4, <1>5, <1>6, CompleteAllGood DEF GoodJob, JobShape, JobSound
<1>8. QED
  BY <1>2, <1>7, JobsOnly

\* The scheduler's listener completes a node, in the DAG and in its copy.
LEMMA UpdateDagNodeStatiPreserves ==
    ASSUME Inv, NEW j \in jobs, UpdateDagNodeStati(j)
    PROVE  Inv'
<1>1. /\ j.at = "complete"
      /\ UNCHANGED <<retryCount, workerVars, processVars, queue, workflow, crashed>>
  BY DEF UpdateDagNodeStati
<1>2. PICK n \in j.todo :
         \/ /\ setNodeStatus(n, "succeeded")
            /\ Become(j, CompleteAll([j EXCEPT !.dag[n] = "succeeded", !.done = @ \cup {n}],
                                     j.todo \ {n}))
         \/ /\ UNCHANGED status
            /\ Become(j, CompleteAll(j, j.todo \ {n}))
  BY DEF UpdateDagNodeStati
<1>3. n \in Node /\ j.todo \ {n} \in SUBSET Node
  BY JobInFlight
<1>4. CASE setNodeStatus(n, "succeeded")
           /\ Become(j, CompleteAll([j EXCEPT !.dag[n] = "succeeded", !.done = @ \cup {n}],
                                    j.todo \ {n}))
  <2>1. /\ Forward /\ status' \in [Node -> DagNodeStatus] /\ DagSound'
        /\ status'[n] = "succeeded"
    BY <1>1, <1>3, <1>4, StatusStep DEF processVars
  <2>2. DagTypeOK'
    BY <1>1, <2>1 DEF Inv, TypeOK, DagTypeOK
  <2>3. GoodJob(j)'
    BY <2>1, Frame
  <2>. DEFINE k == [j EXCEPT !.dag[n] = "succeeded", !.done = @ \cup {n}]
  <2>4. /\ k \in JobType /\ k.op = j.op /\ k.held = j.held /\ k.task = j.task
        /\ k.store = j.store /\ k.dag = [j.dag EXCEPT ![n] = "succeeded"]
    BY <1>3, <2>3 DEF GoodJob, JobType, DagNodeStatus
  <2>5. jobs' = (jobs \ {j}) \cup CompleteAll(k, j.todo \ {n})
    BY <1>4 DEF Become
  <2>. HIDE DEF k
  <2>6. \A m \in Node : k.dag[m] = "succeeded" => status'[m] = "succeeded"
    BY <1>3, <2>1, <2>3, <2>4, JobInFlight DEF GoodJob, JobSound
  <2>7. \A i \in CompleteAll(k, j.todo \ {n}) : GoodJob(i)'
    BY <1>1, <1>3, <2>3, <2>4, <2>6, CompleteAllGood DEF GoodJob, JobShape, JobSound
  <2>8. QED
    BY <1>1, <2>1, <2>2, <2>5, <2>7, DagOnly
<1>5. CASE UNCHANGED status /\ Become(j, CompleteAll(j, j.todo \ {n}))
  <2>1. GoodJob(j)'
    BY <1>1, <1>5, Frame, Standstill DEF processVars
  <2>2. \A i \in CompleteAll(j, j.todo \ {n}) : GoodJob(i)'
    BY <1>1, <1>3, <2>1, CompleteAllGood DEF GoodJob, JobShape, JobSound
  <2>3. QED
    BY <1>1, <1>5, <2>2, JobsOnly DEF Become, dagVars
<1>6. QED
  BY <1>2, <1>4, <1>5

\* Looking for the worker of a finished node.
LEMMA FindWorkerWorkingOnNodePreserves ==
    ASSUME Inv, NEW j \in jobs, FindWorkerWorkingOnNode(j)
    PROVE  Inv'
<1>1. /\ j.at = "find"
      /\ UNCHANGED <<dagVars, workerVars, processVars, queue, workflow, crashed>>
  BY DEF FindWorkerWorkingOnNode
<1>2. GoodJob(j)'
  BY <1>1, Frame, Standstill DEF dagVars, processVars
<1>3. PICK w \in Worker :
         \A i \in jobs' : i \in jobs \/ i = [j EXCEPT !.at = "take", !.worker = w,
                                                      !.held = nodesOnHold[w]]
  BY DEF FindWorkerWorkingOnNode, findWorkerWorkingOn, Become
<1>4. nodesOnHold[w] = <<>>
  BY DEF Inv, NothingRunsAhead, WorkersSound
<1>5. ASSUME NEW i, i = [j EXCEPT !.at = "take", !.worker = w, !.held = <<>>]
      PROVE  GoodJob(i)'
  <2>1. /\ i \in JobType /\ i.op = j.op /\ i.at = "take" /\ i.node = j.node /\ i.task = j.task
        /\ i.todo = j.todo /\ i.held = <<>> /\ i.dag = j.dag /\ i.store = j.store
    <3>1. j \in JobType /\ <<>> \in Seq(Node) /\ "take" \in Point
      BY <1>2 DEF GoodJob, Point
    <3>2. QED
      BY <1>5, <3>1 DEF JobType
  <2>2. QED
    BY <1>1, <1>2, <2>1, MoveGood
<1>6. QED
  BY <1>1, <1>3, <1>4, <1>5, JobsOnly

\* Removing the i-th element leaves elements of the sequence only.
LEMMA RemoveAtKeeps ==
    ASSUME NEW S, NEW q \in Seq(S), NEW i \in 1..Len(q)
    PROVE  /\ RemoveAt(q, i) \in Seq(S)
           /\ \A k \in 1..Len(RemoveAt(q, i)) : \E m \in 1..Len(q) : RemoveAt(q, i)[k] = q[m]
<1>. DEFINE a == SubSeq(q, 1, i - 1)
            b == SubSeq(q, i + 1, Len(q))
<1>1. a \in Seq(S) /\ Len(a) = i - 1 /\ \A k \in 1..(i - 1) : a[k] = q[k]
  OBVIOUS
<1>2. b \in Seq(S) /\ Len(b) = Len(q) - i /\ \A k \in 1..(Len(q) - i) : b[k] = q[i + k]
  OBVIOUS
<1>3. RemoveAt(q, i) = a \o b
  BY DEF RemoveAt
<1>. HIDE DEF a, b
<1>4. a \o b \in Seq(S) /\ Len(a \o b) = Len(q) - 1
  <2>1. a \o b \in Seq(S) /\ Len(a \o b) = Len(a) + Len(b)
    BY <1>1, <1>2, ConcatProperties
  <2>2. Len(q) \in Nat /\ i \in Nat
    OBVIOUS
  <2>3. QED
    BY <1>1, <1>2, <2>1, <2>2
<1>5. ASSUME NEW k \in 1..(Len(q) - 1)
      PROVE  \E m \in 1..Len(q) : (a \o b)[k] = q[m]
  <2>1. CASE k <= i - 1
    BY <1>1, <1>2, <2>1
  <2>2. CASE k > i - 1
    <3>1. (a \o b)[k] = b[k - (i - 1)]
      BY <1>1, <1>2, <2>2
    <3>2. k - (i - 1) \in 1..(Len(q) - i)
      BY <2>2
    <3>3. b[k - (i - 1)] = q[i + (k - (i - 1))]
      BY <1>2, <3>2
    <3>4. i + (k - (i - 1)) \in 1..Len(q)
      BY <2>2
    <3>5. QED
      BY <3>1, <3>3, <3>4
  <2>3. Len(q) \in Nat /\ i \in Nat
    OBVIOUS
  <2>4. k <= i - 1 \/ k > i - 1
    BY <2>3
  <2>5. QED
    BY <2>1, <2>2, <2>4
<1>6. QED
  BY <1>3, <1>4, <1>5

\* Taking a task off the queue keeps the queue sound, and what is taken too.
LEMMA DequeueSound ==
    ASSUME Inv, NEW n, dequeue(n), UNCHANGED <<dagVars, processVars>>
    PROVE  n \in Node /\ DepsMet(n) /\ queue' \in Seq(Node) /\ QueueSound'
<1>1. queue \in Seq(Node) /\ QueueSound
  BY DEF Inv, TypeOK, NothingRunsAhead
<1>2. PICK i \in 1..Len(queue) : n = queue[i] /\ queue' = RemoveAt(queue, i)
  BY DEF dequeue
<1>3. n \in Node /\ DepsMet(n)
  BY <1>1, <1>2 DEF QueueSound
<1>4. /\ queue' \in Seq(Node)
      /\ \A k \in 1..Len(queue') : \E m \in 1..Len(queue) : queue'[k] = queue[m]
  BY <1>1, <1>2, RemoveAtKeeps
<1>5. \A k \in 1..Len(queue') : queue'[k] \in Node /\ DepsMet(queue'[k])
  BY <1>1, <1>4 DEF QueueSound
<1>6. \A m \in Node : DepsMet(m) => DepsMet(m)'
  BY Standstill, DepsStay DEF dagVars, processVars
<1>7. QED
  BY <1>3, <1>4, <1>5, <1>6 DEF QueueSound

\* The task taken off the queue has its dependencies met.
LEMMA TakeQueuedTaskPreserves ==
    ASSUME Inv, NEW j \in jobs, TakeQueuedTask(j)
    PROVE  Inv'
<1>1. /\ j.at = "take"
      /\ UNCHANGED <<dagVars, workerVars, processVars, workflow, crashed>>
  BY DEF TakeQueuedTask
<1>2. PICK n \in Node : /\ dequeue(n)
                        /\ Become(j, {[j EXCEPT !.at = "assign", !.task = n]})
  BY DEF TakeQueuedTask
<1>3. DepsMet(n) /\ queue' \in Seq(Node) /\ QueueSound'
  BY <1>1, <1>2, DequeueSound
<1>4. Forward
  BY <1>1, Standstill DEF dagVars, processVars
<1>5. GoodJob(j)' /\ DepsMet(n)'
  BY <1>3, <1>4, Frame, DepsStay
<1>6. ASSUME NEW i, i = [j EXCEPT !.at = "assign", !.task = n]
      PROVE  GoodJob(i)'
  <2>1. /\ i \in JobType /\ i.op = j.op /\ i.at = "assign" /\ i.node = j.node /\ i.task = n
        /\ i.todo = j.todo /\ i.held = <<>> /\ i.dag = j.dag /\ i.store = j.store
    BY <1>5, <1>6 DEF GoodJob, JobShape, JobType, Point
  <2>2. QED
    BY <1>1, <1>5, <2>1, MoveGood
<1>7. \A i \in jobs' : GoodJob(i)'
  BY <1>2, <1>4, <1>6, Frame DEF Become
<1>8. QED
  BY <1>1, <1>3, <1>4, <1>7, Frame, Compose

\* The queue is empty.
LEMMA NothingToTakePreserves ==
    ASSUME Inv, NEW j \in jobs, NothingToTake(j)
    PROVE  Inv'
<1>1. /\ j.at = "take"
      /\ UNCHANGED <<dagVars, workerVars, processVars, queue, workflow, crashed>>
      /\ \A i \in jobs' : i \in jobs \/ i = [j EXCEPT !.at = "clearWorker"]
  BY DEF NothingToTake, Become
<1>2. GoodJob(j)'
  BY <1>1, Frame, Standstill DEF dagVars, processVars
<1>3. ASSUME NEW i, i = [j EXCEPT !.at = "clearWorker"]
      PROVE  GoodJob(i)'
  <2>1. /\ i \in JobType /\ i.op = j.op /\ i.at = "clearWorker" /\ i.node = j.node
        /\ i.task = j.task /\ i.todo = j.todo /\ i.held = <<>> /\ i.dag = j.dag
        /\ i.store = j.store
    BY <1>2, <1>3 DEF GoodJob, JobShape, JobType, Point
  <2>2. QED
    BY <1>1, <1>2, <2>1, MoveGood
<1>4. QED
  BY <1>1, <1>3, JobsOnly

\* Clearing the worker that gets no further task.
LEMMA ClearWorkOfWorkerPreserves ==
    ASSUME Inv, NEW j \in jobs, ClearWorkOfWorker(j)
    PROVE  Inv'
<1>1. /\ clearWorkOfWorker(j.worker) /\ jobs' \subseteq jobs
      /\ UNCHANGED <<dagVars, processVars, queue, workflow, crashed>>
  BY DEF ClearWorkOfWorker, Become
<1>2. WorkersTypeOK' /\ UNCHANGED nodesOnHold
  BY <1>1 DEF clearWorkOfWorker, Inv, TypeOK, WorkersTypeOK
<1>3. \A w \in Worker : nodesOnHold'[w] = <<>>
  BY <1>2 DEF Inv, NothingRunsAhead, WorkersSound
<1>4. QED
  BY <1>1, <1>2, <1>3, WorkersOnly

\* A handler with a task in hand moves on to the next operation on it.
LEMMA InHandGood ==
    ASSUME Inv, Forward, NEW j \in jobs, j.at = "assign",
           NEW at \in {"send", "requeue"}, NEW i, i = [j EXCEPT !.at = at]
    PROVE  GoodJob(i)'
<1>1. GoodJob(j)' /\ j.task \in Node
  BY Frame, JobInFlight DEF GoodJob, JobShape
<1>2. /\ i \in JobType /\ i.op = j.op /\ i.at = at /\ i.node = j.node /\ i.task = j.task
      /\ i.todo = j.todo /\ i.held = <<>> /\ i.dag = j.dag /\ i.store = j.store
  BY <1>1 DEF GoodJob, JobShape, JobType, Point
<1>3. QED
  BY <1>1, <1>2, MoveGood

\* The task in hand is written into the worker's document.
LEMMA AssignTaskPreserves ==
    ASSUME Inv, NEW j \in jobs, AssignTask(j)
    PROVE  Inv'
<1>1. /\ j.at = "assign" /\ updateWorkOfWorker(j.worker, j.task, Forced(j))
      /\ jobs' = (jobs \ {j}) \cup {[j EXCEPT !.at = "send"]}
      /\ UNCHANGED <<dagVars, processVars, queue, workflow, crashed>>
  BY DEF AssignTask, Become
<1>2. WorkersTypeOK' /\ UNCHANGED nodesOnHold
  BY <1>1, JobInFlight DEF updateWorkOfWorker, Inv, TypeOK, WorkersTypeOK
<1>3. \A w \in Worker : nodesOnHold'[w] = <<>>
  BY <1>2 DEF Inv, NothingRunsAhead, WorkersSound
<1>4. GoodJob([j EXCEPT !.at = "send"])'
  BY <1>1, InHandGood, Standstill DEF dagVars, processVars
<1>5. QED
  BY <1>1, <1>2, <1>3, <1>4, WorkersOnly

\* The worker has another node by now: the task in hand will be queued again.
LEMMA AssignmentRefusedPreserves ==
    ASSUME Inv, NEW j \in jobs, AssignmentRefused(j)
    PROVE  Inv'
<1>1. /\ j.at = "assign" /\ jobs' = (jobs \ {j}) \cup {[j EXCEPT !.at = "requeue"]}
      /\ UNCHANGED <<dagVars, workerVars, processVars, queue, workflow, crashed>>
  BY DEF AssignmentRefused, Become
<1>2. GoodJob([j EXCEPT !.at = "requeue"])'
  BY <1>1, InHandGood, Standstill DEF dagVars, processVars
<1>3. QED
  BY <1>1, <1>2, JobsOnly

\* The task in hand goes back into the queue.
LEMMA RequeueTaskPreserves ==
    ASSUME Inv, NEW j \in jobs, RequeueTask(j)
    PROVE  Inv'
<1>1. /\ j.at = "requeue" /\ enqueueNode(j.task) /\ jobs' \subseteq jobs
      /\ UNCHANGED <<dagVars, workerVars, processVars, workflow, crashed>>
  BY DEF RequeueTask, Become
<1>2. Forward
  BY <1>1, Standstill DEF dagVars, processVars
<1>3. j.task \in Node /\ DepsMet(j.task)
  BY <1>1, JobInFlight DEF GoodJob, JobSound, JobShape
<1>4. queue' \in Seq(Node) /\ QueueSound'
  BY <1>1, <1>3, EnqueueSound
<1>5. \A i \in jobs' : GoodJob(i)'
  BY <1>1, <1>2, Frame
<1>6. QED
  BY <1>1, <1>2, <1>4, <1>5, Frame, Compose

\* A step of the worker processes and the messages they exchange with the task
\* manager: what reaches a worker has its dependencies met.
LEMMA ProcessStep ==
    ASSUME Inv, ProcessTypeOK', stored \subseteq stored',
           UNCHANGED <<dagVars, workerVars, queue, workflow, crashed>>,
           \A w \in Worker : \A i \in 1..Len(mailbox'[w]) : DepsMet(mailbox'[w][i]),
           \A w \in Worker : executing'[w] \in Node => DepsMet(executing'[w]),
           \A w \in Worker : uploading'[w] \subseteq stored',
           \A i \in jobs' : i \in jobs \/ GoodJob(i)'
    PROVE  Inv'
<1>1. Forward
  BY DEF Forward, Released, dagVars
<1>2. \A i \in jobs' : GoodJob(i)'
  BY <1>1, Frame
<1>3. WorkersSound'
  <2>1. \A n \in Node : DepsMet(n) => DepsMet(n)'
    BY <1>1, DepsStay
  <2>2. \A w \in Worker : nodesOnHold'[w] = <<>>
    BY DEF Inv, NothingRunsAhead, WorkersSound, workerVars
  <2>3. \A w \in Worker : \A i \in 1..Len(mailbox'[w]) : mailbox'[w][i] \in Node
    BY DEF ProcessTypeOK
  <2>4. QED
    BY <2>1, <2>2, <2>3 DEF WorkersSound
<1>4. QED
  BY <1>1, <1>2, <1>3, Frame, Compose

\* What the invariant says of the worker processes.
LEMMA ProcessFacts ==
    ASSUME Inv
    PROVE  /\ alive \in [Worker -> BOOLEAN]
           /\ mailbox \in [Worker -> Seq(Node)]
           /\ executing \in [Worker -> Node \cup {None}]
           /\ uploading \in [Worker -> SUBSET Artifact]
           /\ stored \subseteq Artifact
           /\ \A w \in Worker : \A i \in 1..Len(mailbox[w]) : DepsMet(mailbox[w][i])
           /\ \A w \in Worker : executing[w] \in Node => DepsMet(executing[w])
           /\ \A w \in Worker : uploading[w] \subseteq stored
BY DEF Inv, TypeOK, ProcessTypeOK, NothingRunsAhead, WorkersSound

\* The task in hand is sent to the worker, with its dependencies met.
LEMMA SendTaskPreserves ==
    ASSUME Inv, NEW j \in jobs, SendTask(j)
    PROVE  Inv'
<1>1. /\ j.at = "send" /\ deliver(j.worker, j.task) /\ jobs' \subseteq jobs
      /\ UNCHANGED <<dagVars, workerVars, queue, workflow, crashed>>
  BY DEF SendTask, Become
<1>2. j.task \in Node /\ DepsMet(j.task)
  BY <1>1, JobInFlight DEF GoodJob, JobSound, JobShape
<1>3. /\ mailbox' = [mailbox EXCEPT ![j.worker] =
                       IF alive[j.worker] THEN Append(@, j.task) ELSE @]
      /\ UNCHANGED <<alive, executing, uploading, stored>>
  BY <1>1 DEF deliver
<1>4. \A w \in Worker : mailbox[w] \in Seq(Node)
  BY ProcessFacts
<1>5. \A w \in Worker : mailbox'[w] = mailbox[w] \/ mailbox'[w] = Append(mailbox[w], j.task)
  BY <1>3, ProcessFacts
<1>6. \A w \in Worker : mailbox'[w] \in Seq(Node)
  <2>1. \A q \in Seq(Node) : Append(q, j.task) \in Seq(Node)
    BY <1>2
  <2>2. QED
    BY <1>4, <1>5, <2>1, Zenon
<1>7. ProcessTypeOK'
  <2>1. mailbox' \in [Worker -> Seq(Node)]
    BY <1>3, <1>6, ProcessFacts
  <2>2. QED
    BY <1>3, <2>1, ProcessFacts DEF ProcessTypeOK
<1>8. \A w \in Worker : \A i \in 1..Len(mailbox'[w]) : DepsMet(mailbox'[w][i])
  <2>. TAKE w \in Worker
  <2>1. CASE mailbox'[w] = mailbox[w]
    BY <2>1, ProcessFacts
  <2>2. CASE mailbox'[w] = Append(mailbox[w], j.task)
    BY <1>2, <1>4, <2>2, ProcessFacts
  <2>3. QED
    BY <1>5, <2>1, <2>2
<1>9. QED
  BY <1>1, <1>3, <1>7, <1>8, ProcessFacts, ProcessStep

\* Nothing is ever held here: a step that needs a held task cannot happen.
LEMMA TakeHeldTaskPreserves ==
    ASSUME Inv, NEW j \in jobs, TakeHeldTask(j)
    PROVE  Inv'
BY JobInFlight DEF TakeHeldTask, GoodJob, JobShape

\* unholdOneOf on an empty array changes nothing.
LEMMA UnholdNothing ==
    ASSUME Inv, NEW w \in Worker \cup {None}, unholdOneOf(w)
    PROVE  WorkersTypeOK' /\ \A v \in Worker : nodesOnHold'[v] = <<>>
<1>1. \A v \in Worker : nodesOnHold[v] = <<>>
  BY DEF Inv, NothingRunsAhead, WorkersSound
<1>2. WorkersTypeOK
  BY DEF Inv, TypeOK
<1>3. UNCHANGED nodesOnHold
  <2>1. nodesOnHold' = [nodesOnHold EXCEPT ![w] = IF @ = <<>> THEN @ ELSE Tail(@)]
    BY DEF unholdOneOf
  <2>2. QED
    BY <1>1, <1>2, <2>1 DEF WorkersTypeOK
<1>4. UNCHANGED <<workerStatus, overdue, workingOn>>
  BY DEF unholdOneOf
<1>5. QED
  BY <1>1, <1>2, <1>3, <1>4 DEF WorkersTypeOK

\* Taking a task off the hold of a stale worker.
LEMMA UnholdTaskOfStaleWorkerPreserves ==
    ASSUME Inv, NEW j \in jobs, UnholdTaskOfStaleWorker(j)
    PROVE  Inv'
<1>1. /\ unholdOneOf(j.worker) /\ jobs' \subseteq jobs
      /\ UNCHANGED <<dagVars, processVars, queue, workflow, crashed>>
  BY DEF UnholdTaskOfStaleWorker, Become
<1>2. QED
  BY <1>1, JobInFlight, UnholdNothing, WorkersOnly

\* A heartbeat changes the worker's document and may start a handler.
LEMMA HeartbeatPreserves ==
    ASSUME Inv, NEW w \in Worker, Heartbeat(w)
    PROVE  Inv'
<1>. DEFINE f == Job("scheduleFree", "getWorker", None)
            i == [f EXCEPT !.worker = w, !.by = "heartbeat"]
<1>1. /\ processWorkerHeartbeat(w)
      /\ UNCHANGED <<dagVars, processVars, queue, workflow, crashed>>
      /\ \A k \in jobs' : k \in jobs \/ k = i
  BY DEF Heartbeat, heartbeatJob
<1>2. WorkersTypeOK' /\ UNCHANGED nodesOnHold
  BY <1>1 DEF processWorkerHeartbeat, Inv, TypeOK, WorkersTypeOK
<1>3. \A v \in Worker : nodesOnHold'[v] = <<>>
  BY <1>2 DEF Inv, NothingRunsAhead, WorkersSound
<1>4. /\ f \in JobType /\ f.op = "scheduleFree" /\ f.at = "getWorker" /\ f.node = None
      /\ f.task = None /\ f.todo = {} /\ f.store = {} /\ f.held = <<>> /\ f.dag = NewDag
  BY FreshJob, HandlerNames
<1>. HIDE DEF f
<1>5. /\ i \in JobType /\ i.op = "scheduleFree" /\ i.at = "getWorker" /\ i.node = None
      /\ i.worker = w /\ i.task = None /\ i.todo = {} /\ i.store = {} /\ i.held = <<>>
      /\ i.dag = NewDag
  BY <1>4 DEF JobType
<1>. HIDE DEF i
<1>6. GoodJob(i)'
  BY <1>5, FreshJobGood DEF Op
<1>7. QED
  BY <1>1, <1>2, <1>3, <1>6, WorkersOnly

\* Reading the document of a worker without work.
LEMMA GetWorkerPreserves ==
    ASSUME Inv, NEW j \in jobs, GetWorker(j)
    PROVE  Inv'
<1>1. /\ j.at = "getWorker"
      /\ UNCHANGED <<dagVars, workerVars, processVars, queue, workflow, crashed>>
      /\ \A i \in jobs' : i \in jobs \/ i = [j EXCEPT !.at = "take",
                                                      !.held = nodesOnHold[j.worker]]
  BY DEF GetWorker, Become
<1>2. GoodJob(j)'
  BY <1>1, Frame, Standstill DEF dagVars, processVars
<1>3. nodesOnHold[j.worker] = <<>>
  BY <1>1, JobInFlight DEF Inv, NothingRunsAhead, WorkersSound, GoodJob, JobShape
<1>4. ASSUME NEW i, i = [j EXCEPT !.at = "take", !.held = <<>>]
      PROVE  GoodJob(i)'
  <2>1. j \in JobType /\ <<>> \in Seq(Node) /\ "take" \in Point
    BY <1>2 DEF GoodJob, Point
  <2>2. /\ i \in JobType /\ i.op = j.op /\ i.at = "take" /\ i.node = j.node /\ i.task = j.task
        /\ i.todo = j.todo /\ i.held = <<>> /\ i.dag = j.dag /\ i.store = j.store
    BY <1>4, <2>1 DEF JobType
  <2>3. QED
    BY <1>1, <1>2, <2>2, MoveGood
<1>5. QED
  BY <1>1, <1>3, <1>4, JobsOnly

\* A heartbeat that fails to come.
LEMMA HeartbeatExpiresPreserves ==
    ASSUME Inv, NEW w \in Worker, HeartbeatExpires(w)
    PROVE  Inv'
<1>1. /\ overdue' = [overdue EXCEPT ![w] = TRUE]
      /\ UNCHANGED <<dagVars, processVars, queue, workflow, crashed>>
      /\ UNCHANGED <<workerStatus, workingOn, nodesOnHold, jobs>>
  BY DEF HeartbeatExpires
<1>2. WorkersTypeOK'
  BY <1>1 DEF Inv, TypeOK, WorkersTypeOK
<1>3. \A v \in Worker : nodesOnHold'[v] = <<>>
  BY <1>1 DEF Inv, NothingRunsAhead, WorkersSound
<1>4. QED
  BY <1>1, <1>2, <1>3, WorkersOnly

\* The timer starts a check for stale workers.
LEMMA CheckForStaleWorkersPreserves ==
    ASSUME Inv, CheckForStaleWorkers
    PROVE  Inv'
<1>1. PICK late : late = {w \in Worker : overdue[w]}
  OBVIOUS
<1>. DEFINE f == Job("checkForStaleWorkers", "scan", None)
            i == [f EXCEPT !.workers = late]
<1>2. /\ f \in JobType /\ f.op = "checkForStaleWorkers" /\ f.at = "scan" /\ f.node = None
      /\ f.task = None /\ f.todo = {} /\ f.store = {} /\ f.held = <<>> /\ f.dag = NewDag
  BY FreshJob, HandlerNames
<1>3. /\ UNCHANGED <<dagVars, workerVars, processVars, queue, workflow, crashed>>
      /\ jobs' = jobs \cup {i}
  BY <1>1 DEF CheckForStaleWorkers
<1>. HIDE DEF f
<1>4. /\ i \in JobType /\ i.op = "checkForStaleWorkers" /\ i.at = "scan" /\ i.node = None
      /\ i.task = None /\ i.todo = {} /\ i.store = {} /\ i.held = <<>> /\ i.dag = NewDag
  BY <1>1, <1>2 DEF JobType
<1>. HIDE DEF i
<1>5. GoodJob(i)'
  BY <1>4, FreshJobGood DEF Op
<1>6. QED
  BY <1>3, <1>5, JobsOnly

\* A worker becomes stale: it holds no task, so that no listener has work to do.
LEMMA MarkWorkerStalePreserves ==
    ASSUME Inv, NEW j \in jobs, MarkWorkerStale(j)
    PROVE  Inv'
<1>1. PICK w \in j.workers :
        /\ markStale(w)
        /\ LET rest == j.workers \ {w}
               held == {nodesOnHold[w][i] : i \in 1..Len(nodesOnHold[w])}
           IN  Become(j, (IF rest = {} THEN {} ELSE {[j EXCEPT !.workers = rest]})
                         \cup {[Job("onWorkerStale", "queue", n) EXCEPT
                                    !.worker = w, !.todo = {n}] : n \in held})
  BY DEF MarkWorkerStale
<1>2. UNCHANGED <<dagVars, processVars, queue, workflow, crashed>>
  BY DEF MarkWorkerStale
<1>3. w \in Worker /\ j.workers \ {w} \in SUBSET Worker
  BY JobInFlight
<1>4. WorkersTypeOK' /\ UNCHANGED nodesOnHold
  BY <1>1 DEF markStale, Inv, TypeOK, WorkersTypeOK
<1>5. \A v \in Worker : nodesOnHold[v] = <<>>
  BY DEF Inv, NothingRunsAhead, WorkersSound
<1>6. {nodesOnHold[w][i] : i \in 1..Len(nodesOnHold[w])} = {}
  BY <1>3, <1>5
<1>7. \A i \in jobs' : i \in jobs \/ i = [j EXCEPT !.workers = j.workers \ {w}]
  BY <1>1, <1>6 DEF Become
<1>8. GoodJob(j)'
  BY <1>2, Frame, Standstill DEF dagVars, processVars
<1>9. ASSUME NEW i, i = [j EXCEPT !.workers = j.workers \ {w}]
      PROVE  GoodJob(i)'
  <2>1. /\ i \in JobType /\ i.op = j.op /\ i.at = j.at /\ i.node = j.node /\ i.task = j.task
        /\ i.todo = j.todo /\ i.held = j.held /\ i.dag = j.dag /\ i.store = j.store
        /\ i.worker = j.worker
    BY <1>3, <1>8, <1>9 DEF GoodJob, JobType
  <2>2. JobShape(i) /\ JobSound(i)'
    BY <1>8, <2>1 DEF GoodJob, JobShape, JobSound
  <2>3. QED
    BY <2>1, <2>2 DEF GoodJob, JobShape
<1>10. QED
  BY <1>2, <1>4, <1>5, <1>7, <1>9, WorkersOnly

\* The death of the process takes handlers away and leaves the rest.
LEMMA ProcessDiesPreserves ==
    ASSUME Inv, NEW lost, ProcessDies(lost)
    PROVE  Inv'
<1>1. /\ crashed' = TRUE /\ jobs' \subseteq jobs
      /\ UNCHANGED <<dagVars, workerVars, processVars, queue, workflow>>
  BY DEF ProcessDies
<1>2. Forward
  BY <1>1, Standstill DEF dagVars, processVars
<1>3. \A i \in jobs' : GoodJob(i)'
  BY <1>1, <1>2, Frame
<1>4. QED
  BY <1>1, <1>2, <1>3, Frame, Compose

-----------------------------------------------------------------------------
(* One lemma per step of a worker.                                         *)

\* A report relies on nothing but the dependencies of a task that failed.
LEMMA ReportGood ==
    ASSUME NEW op \in {"taskStarted", "taskCompleted", "taskFailed"},
           NEW n \in Node \cup {None}, NEW w \in Worker,
           op = "taskFailed" /\ n \in Node => DepsMet(n)',
           NEW i, i = Report(op, "mark", n, w)
    PROVE  GoodJob(i)'
<1>. DEFINE f == Job(op, "mark", n)
<1>1. op \in Op /\ "mark" \in Point
  BY DEF Op, Point
<1>2. /\ f \in JobType /\ f.op = op /\ f.at = "mark" /\ f.node = n
      /\ f.task = None /\ f.todo = {} /\ f.store = {} /\ f.held = <<>> /\ f.dag = NewDag
  BY <1>1, FreshJob
<1>3. i = [f EXCEPT !.worker = w]
  BY DEF Report
<1>. HIDE DEF f
<1>4. /\ i \in JobType /\ i.op = op /\ i.at = "mark" /\ i.node = n
      /\ i.task = None /\ i.todo = {} /\ i.store = {} /\ i.held = <<>> /\ i.dag = NewDag
  BY <1>2, <1>3 DEF JobType
<1>5. \A m \in Node : i.dag[m] # "succeeded"
  BY <1>4 DEF NewDag
<1>6. JobShape(i) /\ JobSound(i)'
  BY <1>4, <1>5, SchedulerAssumption DEF JobShape, JobSound
<1>7. QED
  BY <1>4, <1>6 DEF GoodJob, JobShape

\* The message a worker takes names a task whose dependencies are met, and so
\* do the messages left.
LEMMA MessageReceivedSound ==
    ASSUME Inv, NEW w \in Worker, NEW n, MessageReceived(w, n)
    PROVE  /\ n \in Node /\ DepsMet(n)
           /\ mailbox' \in [Worker -> Seq(Node)]
           /\ \A v \in Worker : \A i \in 1..Len(mailbox'[v]) : DepsMet(mailbox'[v][i])
<1>1. mailbox \in [Worker -> Seq(Node)] /\ mailbox[w] \in Seq(Node) /\ mailbox[w] # <<>>
  BY ProcessFacts DEF MessageReceived
<1>2. n = mailbox[w][1] /\ mailbox' = [mailbox EXCEPT ![w] = Tail(mailbox[w])]
  BY <1>1 DEF MessageReceived
<1>3. Len(mailbox[w]) \in Nat /\ Len(mailbox[w]) >= 1
  BY <1>1
<1>4. n \in Node /\ DepsMet(n)
  BY <1>1, <1>2, <1>3, ProcessFacts
<1>5. /\ Tail(mailbox[w]) \in Seq(Node)
      /\ \A i \in 1..Len(Tail(mailbox[w])) : DepsMet(Tail(mailbox[w])[i])
  <2>1. /\ Tail(mailbox[w]) \in Seq(Node)
        /\ Len(Tail(mailbox[w])) = Len(mailbox[w]) - 1
        /\ \A i \in 1..Len(Tail(mailbox[w])) : Tail(mailbox[w])[i] = mailbox[w][i + 1]
    BY <1>1, <1>3
  <2>2. \A i \in 1..Len(Tail(mailbox[w])) : i + 1 \in 1..Len(mailbox[w])
    BY <1>3, <2>1
  <2>3. QED
    BY <2>1, <2>2, ProcessFacts
<1>6. mailbox' \in [Worker -> Seq(Node)]
  BY <1>1, <1>2, <1>5, Zenon
<1>7. ASSUME NEW v \in Worker
      PROVE  \A i \in 1..Len(mailbox'[v]) : DepsMet(mailbox'[v][i])
  <2>1. mailbox'[v] = mailbox[v] \/ mailbox'[v] = Tail(mailbox[w])
    BY <1>1, <1>2, Zenon
  <2>2. QED
    BY <1>5, <2>1, ProcessFacts, Zenon
<1>8. QED
  BY <1>4, <1>6, <1>7

\* A worker takes a message, starts the task and reports it.
LEMMA WorkerStartsPreserves ==
    ASSUME Inv, NEW w \in Worker, WorkerStarts(w)
    PROVE  Inv'
<1>1. PICK n \in Node : /\ StartTask(w, n)
                        /\ jobs' = jobs \cup {Report("taskStarted", "mark", n, w)}
  BY DEF WorkerStarts
<1>2. UNCHANGED <<dagVars, workerVars, queue, workflow, crashed>>
  BY DEF WorkerStarts
<1>3. /\ MessageReceived(w, n) /\ executing' = [executing EXCEPT ![w] = n]
      /\ UNCHANGED <<alive, uploading, stored>>
  BY <1>1 DEF StartTask
<1>4. /\ DepsMet(n) /\ mailbox' \in [Worker -> Seq(Node)]
      /\ \A v \in Worker : \A i \in 1..Len(mailbox'[v]) : DepsMet(mailbox'[v][i])
  BY <1>3, MessageReceivedSound
<1>5. ProcessTypeOK'
  BY <1>3, <1>4, ProcessFacts DEF ProcessTypeOK
<1>6. \A v \in Worker : executing'[v] \in Node => DepsMet(executing'[v])
  BY <1>3, <1>4, ProcessFacts
<1>7. GoodJob(Report("taskStarted", "mark", n, w))'
  BY ReportGood
<1>8. QED
  BY <1>1, <1>2, <1>3, <1>4, <1>5, <1>6, <1>7, ProcessFacts, ProcessStep

\* A worker takes a message it cannot make a task of, and reports a failure.
LEMMA WorkerRejectsPreserves ==
    ASSUME Inv, NEW w \in Worker, WorkerRejects(w)
    PROVE  Inv'
<1>1. PICK n \in Node, m \in Node \cup {None} :
         /\ RejectTask(w, n)
         /\ m \in {n, None}
         /\ jobs' = jobs \cup {Report("taskFailed", "mark", m, w)}
  BY DEF WorkerRejects
<1>2. UNCHANGED <<dagVars, workerVars, queue, workflow, crashed>>
  BY DEF WorkerRejects
<1>3. MessageReceived(w, n) /\ UNCHANGED <<alive, executing, uploading, stored>>
  BY <1>1 DEF RejectTask
<1>4. /\ DepsMet(n) /\ mailbox' \in [Worker -> Seq(Node)]
      /\ \A v \in Worker : \A i \in 1..Len(mailbox'[v]) : DepsMet(mailbox'[v][i])
  BY <1>3, MessageReceivedSound
<1>5. ProcessTypeOK'
  BY <1>3, <1>4, ProcessFacts DEF ProcessTypeOK
<1>6. DepsMet(n)'
  BY <1>2, <1>3, <1>4, Standstill, DepsStay DEF dagVars
<1>7. GoodJob(Report("taskFailed", "mark", m, w))'
  BY <1>1, <1>6, ReportGood, SchedulerAssumption
<1>8. QED
  BY <1>1, <1>2, <1>3, <1>4, <1>5, <1>7, ProcessFacts, ProcessStep

\* A worker's task ends and its results are in the storage.
LEMMA WorkerCompletesPreserves ==
    ASSUME Inv, NEW w \in Worker, WorkerCompletes(w)
    PROVE  Inv'
<1>1. PICK n \in Node : /\ CompleteTask(w, n)
                        /\ jobs' = jobs \cup {Report("taskCompleted", "mark", n, w)}
  BY DEF WorkerCompletes
<1>2. UNCHANGED <<dagVars, workerVars, queue, workflow, crashed>>
  BY DEF WorkerCompletes
<1>3. /\ executing[w] = n /\ stored' = stored \cup Results[n]
      /\ uploading' = [uploading EXCEPT ![w] = Results[n]]
      /\ executing' = [executing EXCEPT ![w] = IF Results[n] = {} THEN None ELSE n]
      /\ UNCHANGED <<alive, mailbox>>
  BY <1>1 DEF CompleteTask
<1>4. Results[n] \subseteq Artifact
  BY DagAssumption
<1>5. ProcessTypeOK'
  BY <1>3, <1>4, ProcessFacts DEF ProcessTypeOK
<1>6. \A v \in Worker : executing'[v] \in Node => DepsMet(executing'[v])
  BY <1>3, ProcessFacts, SchedulerAssumption
<1>7. \A v \in Worker : uploading'[v] \subseteq stored'
  BY <1>3, ProcessFacts
<1>8. GoodJob(Report("taskCompleted", "mark", n, w))'
  BY ReportGood
<1>9. QED
  BY <1>1, <1>2, <1>3, <1>5, <1>6, <1>7, <1>8, ProcessFacts, ProcessStep

\* A worker reports an artifact that it has stored.
LEMMA WorkerReportsArtifactPreserves ==
    ASSUME Inv, NEW w \in Worker, WorkerReportsArtifact(w)
    PROVE  Inv'
<1>1. PICK a \in uploading[w] :
         /\ ReportArtifact(w, a)
         /\ jobs' = jobs \cup {[Report("addArtifact", "add", executing[w], w) EXCEPT
                                    !.store = {a}]}
  BY DEF WorkerReportsArtifact
<1>2. UNCHANGED <<dagVars, workerVars, queue, workflow, crashed>>
  BY DEF WorkerReportsArtifact
<1>3. /\ uploading' = [uploading EXCEPT ![w] = @ \ {a}]
      /\ executing' = [executing EXCEPT ![w] = IF uploading[w] = {a} THEN None ELSE @]
      /\ UNCHANGED <<alive, mailbox, stored>>
  BY <1>1 DEF ReportArtifact
<1>4. ProcessTypeOK'
  BY <1>3, ProcessFacts DEF ProcessTypeOK
<1>5. \A v \in Worker : executing'[v] \in Node => DepsMet(executing'[v])
  BY <1>3, ProcessFacts, SchedulerAssumption
<1>6. \A v \in Worker : uploading'[v] \subseteq stored'
  BY <1>3, ProcessFacts
<1>7. PICK n : n = executing[w]
  OBVIOUS
<1>. DEFINE f == Job("addArtifact", "add", n)
            i == [[f EXCEPT !.worker = w] EXCEPT !.store = {a}]
<1>8. jobs' = jobs \cup {i}
  BY <1>1, <1>7 DEF Report
<1>9. n \in Node \cup {None} /\ a \in Artifact /\ a \in stored'
  BY <1>3, <1>7, ProcessFacts
<1>10. /\ f \in JobType /\ f.op = "addArtifact" /\ f.at = "add" /\ f.node = n
       /\ f.task = None /\ f.todo = {} /\ f.held = <<>> /\ f.dag = NewDag
  BY <1>9, FreshJob, HandlerNames
<1>. HIDE DEF f
<1>11. /\ i \in JobType /\ i.op = "addArtifact" /\ i.at = "add" /\ i.node = n
       /\ i.task = None /\ i.todo = {} /\ i.store = {a} /\ i.held = <<>> /\ i.dag = NewDag
  BY <1>9, <1>10 DEF JobType
<1>. HIDE DEF i
<1>12. i.store \subseteq stored'
  BY <1>9, <1>11
<1>13. GoodJob(i)'
  BY <1>9, <1>11, <1>12, FreshJobGood DEF Op
<1>14. QED
  BY <1>2, <1>3, <1>4, <1>5, <1>6, <1>8, <1>13, ProcessFacts, ProcessStep

\* A worker's task fails, and the failure is reported.
LEMMA WorkerFailsPreserves ==
    ASSUME Inv, NEW w \in Worker, WorkerFails(w)
    PROVE  Inv'
<1>1. PICK n \in Node : /\ FailTask(w, n)
                        /\ jobs' = jobs \cup {Report("taskFailed", "mark", n, w)}
  BY DEF WorkerFails
<1>2. UNCHANGED <<dagVars, workerVars, queue, workflow, crashed>>
  BY DEF WorkerFails
<1>3. /\ executing[w] = n /\ executing' = [executing EXCEPT ![w] = None]
      /\ UNCHANGED <<alive, mailbox, uploading, stored>>
  BY <1>1 DEF FailTask
<1>4. ProcessTypeOK'
  BY <1>3, ProcessFacts DEF ProcessTypeOK
<1>5. \A v \in Worker : executing'[v] \in Node => DepsMet(executing'[v])
  BY <1>3, ProcessFacts, SchedulerAssumption
<1>6. DepsMet(n)'
  <2>1. DepsMet(n)
    BY <1>3, ProcessFacts
  <2>2. QED
    BY <1>2, <1>3, <2>1, Standstill, DepsStay DEF dagVars
<1>7. GoodJob(Report("taskFailed", "mark", n, w))'
  BY <1>6, ReportGood
<1>8. QED
  BY <1>1, <1>2, <1>3, <1>4, <1>5, <1>7, ProcessFacts, ProcessStep

\* A worker process ends and its queue with it.
LEMMA WorkerStopsPreserves ==
    ASSUME Inv, NEW w \in Worker, WorkerStops(w)
    PROVE  Inv'
<1>1. /\ alive' = [alive EXCEPT ![w] = FALSE]
      /\ mailbox' = [mailbox EXCEPT ![w] = <<>>]
      /\ executing' = [executing EXCEPT ![w] = None]
      /\ uploading' = [uploading EXCEPT ![w] = {}]
      /\ UNCHANGED stored
      /\ UNCHANGED <<dagVars, workerVars, queue, workflow, crashed>> /\ UNCHANGED jobs
  BY DEF WorkerStops, StopWorker
<1>2. mailbox' \in [Worker -> Seq(Node)]
  <2>1. <<>> \in Seq(Node)
    OBVIOUS
  <2>2. QED
    BY <1>1, <2>1, ProcessFacts
<1>3. ProcessTypeOK'
  BY <1>1, <1>2, ProcessFacts DEF ProcessTypeOK
<1>4. ASSUME NEW v \in Worker
      PROVE  \A i \in 1..Len(mailbox'[v]) : DepsMet(mailbox'[v][i])
  <2>1. CASE v = w
    <3>1. mailbox'[v] = <<>> /\ 1..Len(<<>>) = {}
      BY <1>1, <2>1, ProcessFacts
    <3>2. QED
      BY <3>1, Zenon
  <2>2. CASE v # w
    BY <1>1, <2>2, ProcessFacts
  <2>3. QED
    BY <2>1, <2>2
<1>5. \A v \in Worker : executing'[v] \in Node => DepsMet(executing'[v])
  BY <1>1, ProcessFacts, SchedulerAssumption
<1>6. \A v \in Worker : uploading'[v] \subseteq stored'
  BY <1>1, ProcessFacts
<1>7. QED
  BY <1>1, <1>3, <1>4, <1>5, <1>6, ProcessStep

-----------------------------------------------------------------------------
(* The invariant                                                           *)

\* Before the workflow is submitted nothing is released, queued or in flight.
LEMMA InitInv ==
    ASSUME Init
    PROVE  Inv
<1>. USE DEF Init, DagInit, WorkersInit, ProcessInit
<1>1. status \in [Node -> DagNodeStatus] /\ \A n \in Node : status[n] = "pending"
  BY DEF NewDag, DagNodeStatus
<1>2. DagTypeOK
  BY <1>1 DEF DagTypeOK
<1>3. <<>> \in Seq(Node) /\ Len(<<>>) = 0 /\ 1..0 = {}
  OBVIOUS
<1>4. WorkersTypeOK
  BY <1>3 DEF WorkersTypeOK
<1>5. ProcessTypeOK
  BY <1>3 DEF ProcessTypeOK
<1>6. TypeOK
  BY <1>2, <1>3, <1>4, <1>5 DEF TypeOK
<1>7. DagSound
  BY <1>1 DEF DagSound, Released
<1>8. QueueSound
  BY <1>3 DEF QueueSound
<1>9. WorkersSound
  <2>. SUFFICES ASSUME NEW w \in Worker
                PROVE  /\ nodesOnHold[w] = <<>>
                       /\ \A i \in 1..Len(mailbox[w]) : DepsMet(mailbox[w][i])
                       /\ executing[w] \in Node => DepsMet(executing[w])
                       /\ uploading[w] \subseteq stored
    BY DEF WorkersSound
  <2>1. nodesOnHold[w] = <<>> /\ mailbox[w] = <<>> /\ executing[w] = None /\ uploading[w] = {}
    OBVIOUS
  <2>2. QED
    BY <1>3, <2>1, SchedulerAssumption, Zenon
<1>10. NothingRunsAhead
  BY <1>7, <1>8, <1>9 DEF NothingRunsAhead
<1>11. QED
  BY <1>6, <1>10 DEF Inv

\* Every operation of a handler preserves the invariant.
LEMMA HandlerStepPreserves ==
    ASSUME Inv, NEW j \in jobs, HandlerStep(j)
    PROVE  Inv'
<1>1. CASE MarkNodeAsQueued(j) \/ EnqueueNode(j) \/ AbandonQueueing(j)
  BY <1>1, MarkNodeAsQueuedPreserves, EnqueueNodePreserves, AbandonQueueingPreserves
<1>2. CASE ScheduleTasksForAllFreeWorkers(j) \/ FinishWorkflow(j) \/ OnDagFailed(j)
  BY <1>2, ScheduleTasksForAllFreeWorkersPreserves, FinishWorkflowPreserves, OnDagFailedPreserves
<1>3. CASE TaskStarted(j) \/ TaskCompleted(j) \/ TaskFailed(j)
  BY <1>3, TaskStartedPreserves, TaskCompletedPreserves, TaskFailedPreserves
<1>4. CASE CancelPendingTasks(j) \/ ClearWorkOfFailedTask(j)
  BY <1>4, CancelPendingTasksPreserves, ClearWorkOfFailedTaskPreserves
<1>5. CASE AddArtifact(j) \/ OnArtifactAdded(j) \/ OnArtifactUploaded(j) \/ UpdateDagNodeStati(j)
  BY <1>5, AddArtifactPreserves, OnArtifactAddedPreserves, OnArtifactUploadedPreserves,
     UpdateDagNodeStatiPreserves
<1>6. CASE FindWorkerWorkingOnNode(j) \/ TakeHeldTask(j) \/ TakeQueuedTask(j) \/ NothingToTake(j)
  BY <1>6, FindWorkerWorkingOnNodePreserves, TakeHeldTaskPreserves, TakeQueuedTaskPreserves,
     NothingToTakePreserves
<1>7. CASE ClearWorkOfWorker(j) \/ AssignTask(j) \/ AssignmentRefused(j)
  BY <1>7, ClearWorkOfWorkerPreserves, AssignTaskPreserves, AssignmentRefusedPreserves
<1>8. CASE RequeueTask(j) \/ SendTask(j) \/ GetWorker(j)
  BY <1>8, RequeueTaskPreserves, SendTaskPreserves, GetWorkerPreserves
<1>9. CASE MarkWorkerStale(j) \/ UnholdTaskOfStaleWorker(j)
  BY <1>9, MarkWorkerStalePreserves, UnholdTaskOfStaleWorkerPreserves
<1>10. CASE Reject(j)
  BY <1>10, ProcessDiesPreserves DEF Reject
<1>11. QED
  BY <1>1, <1>2, <1>3, <1>4, <1>5, <1>6, <1>7, <1>8, <1>9, <1>10 DEF HandlerStep

\* Every step preserves the invariant: it is inductive.
LEMMA NextPreserves ==
    ASSUME Inv, [Next]_vars
    PROVE  Inv'
<1>1. CASE CreateWorkflow
  BY <1>1, CreateWorkflowPreserves
<1>2. CASE \E j \in jobs : HandlerStep(j)
  BY <1>2, HandlerStepPreserves
<1>3. ASSUME NEW w \in Worker, Heartbeat(w) \/ HeartbeatExpires(w)
      PROVE  Inv'
  BY <1>3, HeartbeatPreserves, HeartbeatExpiresPreserves
<1>4. ASSUME NEW w \in Worker, WorkerStep(w) \/ WorkerStops(w)
      PROVE  Inv'
  BY <1>4, WorkerStartsPreserves, WorkerRejectsPreserves, WorkerCompletesPreserves,
     WorkerReportsArtifactPreserves, WorkerFailsPreserves, WorkerStopsPreserves DEF WorkerStep
<1>5. CASE CheckForStaleWorkers
  BY <1>5, CheckForStaleWorkersPreserves
<1>6. CASE Restart
  BY <1>6, ProcessDiesPreserves DEF Restart
<1>7. CASE UNCHANGED vars
  BY <1>7, JobsOnly DEF vars
<1>8. QED
  BY <1>1, <1>2, <1>3, <1>4, <1>5, <1>6, <1>7 DEF Next

\* The strengthened invariant holds in every reachable state: TypeOK and
\* NothingRunsAhead together are inductive.
THEOREM InvAlways == Spec => []Inv
<1>1. Init => Inv
  BY InitInv
<1>2. Inv /\ [Next]_vars => Inv'
  BY NextPreserves
<1>3. QED
  BY <1>1, <1>2, PTL DEF Spec

\* Every variable keeps its type, and with it every handler's local variables,
\* for any workflow, any number of workers and any mix of faults.
THEOREM TypeCorrect == Spec => []TypeOK
<1>1. Inv => TypeOK
  BY DEF Inv
<1>2. QED
  BY <1>1, InvAlways, PTL

\* Wherever a task or a verdict waits, in the queue, in a handler's variables,
\* in a message or with a worker, what it depends on is already there.
THEOREM NothingRunsAheadAlways == Spec => []NothingRunsAhead
<1>1. Inv => NothingRunsAhead
  BY DEF Inv
<1>2. QED
  BY <1>1, InvAlways, PTL

\* No worker is given a task before what it depends on exists, although the
\* scheduler decides on copies of the DAG that may be out of date, reports may
\* come in any order, and the task manager and the workers may die at any time.
THEOREM DependenciesRespected == Spec => []NoTaskBeforeItsDependencies
<1>1. Inv => NoTaskBeforeItsDependencies
  <2>. SUFFICES ASSUME Inv
                PROVE  NoTaskBeforeItsDependencies
    OBVIOUS
  <2>1. \A n \in Node : status[n] \in {"queued", "running", "succeeded", "failed"} => DepsMet(n)
    BY DEF Inv, NothingRunsAhead, DagSound, Released
  <2>2. \A w \in Worker : \A n \in TasksOf(w) : DepsMet(n)
    BY ProcessFacts DEF TasksOf
  <2>3. QED
    BY <2>1, <2>2 DEF NoTaskBeforeItsDependencies
<1>2. QED
  BY <1>1, InvAlways, PTL

\* A workflow is only ever reported as succeeded with its criteria met, although
\* the verdict is taken on a copy and written by a later, unconditional update.
THEOREM SuccessIsDeserved == Spec => []SucceededWorkflowMeetsCriteria
<1>1. Inv => SucceededWorkflowMeetsCriteria
  BY DEF Inv, NothingRunsAhead, CriteriaMet, SucceededWorkflowMeetsCriteria
<1>2. QED
  BY <1>1, InvAlways, PTL

-----------------------------------------------------------------------------
(* The lifecycle                                                           *)

\* A step that the lifecycle does not show.
Silent == UNCHANGED <<status, stored, workflow>>

\* A status change of one task that has what it depends on.
Advance(n, s) ==
    /\ setNodeStatus(n, s)
    /\ DepsMet(n)
    /\ UNCHANGED <<stored, workflow>>

\* The cancelation of one pending task.
Cancel(n) ==
    /\ status[n] = "pending"
    /\ status' = [status EXCEPT ![n] = "canceled"]
    /\ UNCHANGED <<stored, workflow>>

\* What an operation of a handler does to statuses, storage and verdict.
LEMMA HandlerStepEffect ==
    ASSUME Inv, NEW j \in jobs, HandlerStep(j)
    PROVE  \/ Silent
           \/ \E n \in Node : \E s \in {"queued", "running", "succeeded", "failed"} : Advance(n, s)
           \/ \E n \in Node : Cancel(n)
           \/ workflow' = "succeeded" /\ CriteriaMet /\ UNCHANGED <<status, stored>>
           \/ /\ workflow' = "failed" /\ UNCHANGED <<status, stored>>
              /\ \E n \in Node : Released(n)
<1>1. GoodJob(j) /\ DagSound
  BY JobInFlight DEF Inv, NothingRunsAhead
<1>2. CASE \/ EnqueueNode(j) \/ AbandonQueueing(j) \/ ScheduleTasksForAllFreeWorkers(j)
           \/ AddArtifact(j) \/ OnArtifactAdded(j) \/ OnArtifactUploaded(j)
           \/ FindWorkerWorkingOnNode(j) \/ TakeQueuedTask(j) \/ NothingToTake(j)
           \/ AssignmentRefused(j) \/ RequeueTask(j) \/ GetWorker(j)
  BY <1>2 DEF Silent, dagVars, processVars, EnqueueNode, AbandonQueueing,
     ScheduleTasksForAllFreeWorkers, AddArtifact, OnArtifactAdded, OnArtifactUploaded,
     FindWorkerWorkingOnNode, TakeQueuedTask, NothingToTake, AssignmentRefused, RequeueTask,
     GetWorker
<1>3. CASE \/ ClearWorkOfFailedTask(j) \/ TakeHeldTask(j) \/ ClearWorkOfWorker(j) \/ AssignTask(j)
           \/ SendTask(j) \/ MarkWorkerStale(j) \/ UnholdTaskOfStaleWorker(j) \/ Reject(j)
  BY <1>3 DEF Silent, dagVars, processVars, ClearWorkOfFailedTask, TakeHeldTask,
     ClearWorkOfWorker, AssignTask, SendTask, deliver, MarkWorkerStale,
     UnholdTaskOfStaleWorker, Reject, ProcessDies
<1>4. CASE MarkNodeAsQueued(j)
  <2>1. PICK n \in j.todo : setNodeStatus(n, "queued") /\ UNCHANGED <<stored, workflow>>
    BY <1>4 DEF MarkNodeAsQueued, processVars
  <2>2. n \in Node /\ DepsMet(n)
    BY <1>1, <1>4, <2>1, JobInFlight DEF MarkNodeAsQueued, GoodJob, JobSound
  <2>3. Advance(n, "queued")
    BY <2>1, <2>2 DEF Advance
  <2>4. QED
    BY <2>2, <2>3
<1>5. ASSUME NEW s \in {"running", "succeeded"}, NEW n, setNodeStatus(n, s),
             UNCHANGED <<stored, workflow>>
      PROVE  n \in Node /\ Advance(n, s)
  BY <1>1, <1>5 DEF setNodeStatus, MayBecome, proceedingStatuses, Advance, DagSound, Released
<1>6. CASE TaskStarted(j) \/ TaskCompleted(j)
  <2>1. \E s \in {"running", "succeeded"} :
           setNodeStatus(j.node, s) /\ UNCHANGED <<stored, workflow>>
    BY <1>6 DEF TaskStarted, TaskCompleted, processVars
  <2>2. QED
    BY <1>5, <2>1
<1>7. CASE UpdateDagNodeStati(j)
  <2>1. \/ \E n \in j.todo : setNodeStatus(n, "succeeded") /\ UNCHANGED <<stored, workflow>>
        \/ Silent
    BY <1>7 DEF UpdateDagNodeStati, processVars, Silent
  <2>2. QED
    BY <1>5, <2>1
<1>8. CASE TaskFailed(j)
  <2>1. /\ j.op = "taskFailed" /\ setNodeStatus(j.node, "failed")
        /\ UNCHANGED <<stored, workflow>>
    BY <1>8 DEF TaskFailed, increaseRetryCountOfNodeAndSetStatusFailed, processVars
  <2>2. j.node \in Node /\ DepsMet(j.node)
    BY <1>1, <2>1 DEF setNodeStatus, MayBecome, GoodJob, JobSound
  <2>3. Advance(j.node, "failed")
    BY <2>1, <2>2 DEF Advance
  <2>4. QED
    BY <2>2, <2>3
<1>9. CASE CancelPendingTasks(j)
  BY <1>9 DEF CancelPendingTasks, cancelAllPendingTasksOf, Silent, Cancel, processVars
<1>10. CASE FinishWorkflow(j)
  BY <1>1, <1>10 DEF FinishWorkflow, GoodJob, JobSound, dagVars, processVars
<1>11. CASE OnDagFailed(j)
  BY <1>1, <1>11 DEF OnDagFailed, GoodJob, JobSound, dagVars, processVars
<1>12. QED
  BY <1>2, <1>3, <1>4, <1>6, <1>7, <1>8, <1>9, <1>10, <1>11 DEF HandlerStep

\* What any step does to statuses, storage and verdict.
LEMMA StepEffect ==
    ASSUME Inv, [Next]_vars
    PROVE  \/ Silent
           \/ \E n \in Node : \E s \in {"queued", "running", "succeeded", "failed"} : Advance(n, s)
           \/ \E n \in Node : Cancel(n)
           \/ workflow' = "succeeded" /\ CriteriaMet /\ UNCHANGED <<status, stored>>
           \/ /\ workflow' = "failed" /\ UNCHANGED <<status, stored>>
              /\ \E n \in Node : Released(n)
           \/ workflow = "none" /\ workflow' = "running" /\ UNCHANGED <<status, stored>>
           \/ /\ stored \subseteq stored' /\ stored' \subseteq Artifact
              /\ UNCHANGED <<status, workflow>>
<1>1. CASE CreateWorkflow
  BY <1>1 DEF CreateWorkflow, dagVars, processVars
<1>2. CASE \E j \in jobs : HandlerStep(j)
  BY <1>2, HandlerStepEffect
<1>3. ASSUME NEW w \in Worker, Heartbeat(w) \/ HeartbeatExpires(w) \/ WorkerStarts(w)
                               \/ WorkerRejects(w) \/ WorkerReportsArtifact(w)
                               \/ WorkerFails(w) \/ WorkerStops(w)
      PROVE  Silent
  BY <1>3 DEF Silent, dagVars, processVars, Heartbeat, HeartbeatExpires, WorkerStarts, StartTask,
     WorkerRejects, RejectTask, WorkerReportsArtifact, ReportArtifact, WorkerFails, FailTask,
     WorkerStops, StopWorker
<1>4. ASSUME NEW w \in Worker, WorkerCompletes(w)
      PROVE  /\ stored \subseteq stored' /\ stored' \subseteq Artifact
             /\ UNCHANGED <<status, workflow>>
  <2>1. PICK n \in Node : stored' = stored \cup Results[n]
    BY <1>4 DEF WorkerCompletes, CompleteTask
  <2>2. Results[n] \subseteq Artifact /\ stored \subseteq Artifact
    BY DagAssumption, ProcessFacts
  <2>3. UNCHANGED <<status, workflow>>
    BY <1>4 DEF WorkerCompletes, dagVars
  <2>4. QED
    BY <2>1, <2>2, <2>3
<1>5. CASE CheckForStaleWorkers \/ Restart \/ UNCHANGED vars
  BY <1>5 DEF CheckForStaleWorkers, Restart, ProcessDies, vars, Silent, dagVars, processVars
<1>6. QED
  BY <1>1, <1>2, <1>3, <1>4, <1>5 DEF Next, WorkerStep

\* A task that has succeeded stays so: no late, repeated or misdirected report
\* and no cancelation changes it.
THEOREM SuccessIsFinal == Spec => SucceededIsFinal
<1>1. ASSUME Inv, [Next]_vars
      PROVE  \A n \in Node : status[n] = "succeeded" => status'[n] = "succeeded"
  <2>. SUFFICES ASSUME NEW n \in Node, status[n] = "succeeded"
                PROVE  status'[n] = "succeeded"
    OBVIOUS
  <2>1. status \in [Node -> DagNodeStatus]
    BY <1>1 DEF Inv, TypeOK, DagTypeOK
  <2>2. ASSUME NEW m \in Node, NEW s \in {"queued", "running", "succeeded", "failed"},
               Advance(m, s)
        PROVE  status'[n] = "succeeded"
    <3>1. /\ status[m] \in proceedingStatuses(s)
          /\ status' = [status EXCEPT ![m] = s]
      BY <2>2 DEF Advance, setNodeStatus, MayBecome
    <3>2. m # n
      BY <3>1 DEF proceedingStatuses
    <3>3. QED
      BY <2>1, <3>1, <3>2
  <2>3. ASSUME NEW m \in Node, Cancel(m)
        PROVE  status'[n] = "succeeded"
    BY <2>1, <2>3 DEF Cancel
  <2>4. QED
    BY <1>1, <2>2, <2>3, StepEffect DEF Silent
<1>2. QED
  BY <1>1, InvAlways, PTL DEF Spec, SucceededIsFinal

\* The state of the lifecycle that a state of the scheduler stands for.
released == {n \in Node : status[n] \in {"queued", "running", "failed", "succeeded"}}

succeeded == {n \in Node : status[n] = "succeeded"}

\* A status change releases a task, lets a released one succeed, or is not seen.
LEMMA AdvanceRefines ==
    ASSUME Inv, NEW n \in Node, NEW s \in {"queued", "running", "succeeded", "failed"},
           Advance(n, s)
    PROVE  [Lifecycle!LifecycleNext]_(Lifecycle!lifecycleVars)
<1>1. status \in [Node -> DagNodeStatus] /\ DagSound
  BY DEF Inv, TypeOK, DagTypeOK, NothingRunsAhead
<1>2. /\ status[n] \in proceedingStatuses(s)
      /\ status' = [status EXCEPT ![n] = s]
      /\ DepsMet(n) /\ UNCHANGED <<stored, workflow>>
  BY DEF Advance, setNodeStatus, MayBecome
<1>3. status[n] # "succeeded"
  BY <1>2 DEF proceedingStatuses
<1>4. released' = released \cup {n}
  BY <1>1, <1>2 DEF released
<1>5. CASE s = "succeeded"
  <2>1. n \in released /\ succeeded' = succeeded \cup {n}
    BY <1>1, <1>2, <1>5 DEF released, succeeded, proceedingStatuses
  <2>2. Lifecycle!Succeed(n)
    BY <1>2, <1>4, <2>1 DEF Lifecycle!Succeed, released, succeeded
  <2>3. QED
    BY <2>2 DEF Lifecycle!LifecycleNext
<1>6. CASE s # "succeeded"
  <2>1. succeeded' = succeeded
    BY <1>1, <1>2, <1>3, <1>6 DEF succeeded
  <2>2. CASE n \in released
    BY <1>2, <1>4, <2>1, <2>2 DEF Lifecycle!lifecycleVars, released, succeeded
  <2>3. CASE n \notin released
    <3>1. TaskDeps[n] \subseteq succeeded /\ ArtifactDeps[n] \subseteq stored
      BY <1>2, DagAssumption DEF DepsMet, succeeded
    <3>2. Lifecycle!Release(n)
      BY <1>2, <1>4, <2>1, <2>3, <3>1 DEF Lifecycle!Release, released, succeeded
    <3>3. QED
      BY <3>2 DEF Lifecycle!LifecycleNext
  <2>4. QED
    BY <2>2, <2>3
<1>7. QED
  BY <1>5, <1>6

\* The handlers, their stale copies, the queue, the workers and their failures
\* implement the lifecycle of a workflow: each step of the scheduler is a step
\* of the lifecycle or invisible in it.
THEOREM SchedulerImplementsLifecycle == Spec => ImplementsLifecycle
<1>1. Init => Lifecycle!LifecycleInit
  BY DEF Init, DagInit, ProcessInit, NewDag, Lifecycle!LifecycleInit
<1>2. ASSUME Inv, [Next]_vars
      PROVE  [Lifecycle!LifecycleNext]_(Lifecycle!lifecycleVars)
  <2>1. CASE Silent
    BY <2>1 DEF Silent, Lifecycle!lifecycleVars
  <2>2. ASSUME NEW n \in Node, NEW s \in {"queued", "running", "succeeded", "failed"},
               Advance(n, s)
        PROVE  [Lifecycle!LifecycleNext]_(Lifecycle!lifecycleVars)
    BY <1>2, <2>2, AdvanceRefines
  <2>3. ASSUME NEW n \in Node, Cancel(n)
        PROVE  UNCHANGED Lifecycle!lifecycleVars
    <3>1. status \in [Node -> DagNodeStatus]
      BY <1>2 DEF Inv, TypeOK, DagTypeOK
    <3>2. released' = released /\ succeeded' = succeeded
      BY <2>3, <3>1 DEF Cancel, released, succeeded
    <3>3. QED
      BY <2>3, <3>2 DEF Cancel, Lifecycle!lifecycleVars, released, succeeded
  <2>4. CASE workflow' = "succeeded" /\ CriteriaMet /\ UNCHANGED <<status, stored>>
    <3>1. Lifecycle!ReportSuccess
      BY <2>4, SchedulerAssumption DEF Lifecycle!ReportSuccess, CriteriaMet
    <3>2. QED
      BY <3>1 DEF Lifecycle!LifecycleNext
  <2>5. CASE /\ workflow' = "failed" /\ UNCHANGED <<status, stored>>
             /\ \E n \in Node : Released(n)
    <3>1. Lifecycle!ReportFailure
      BY <2>5 DEF Lifecycle!ReportFailure, Released
    <3>2. QED
      BY <3>1 DEF Lifecycle!LifecycleNext
  <2>6. CASE workflow = "none" /\ workflow' = "running" /\ UNCHANGED <<status, stored>>
    <3>1. Lifecycle!Submit
      BY <2>6 DEF Lifecycle!Submit
    <3>2. QED
      BY <3>1 DEF Lifecycle!LifecycleNext
  <2>7. CASE /\ stored \subseteq stored' /\ stored' \subseteq Artifact
             /\ UNCHANGED <<status, workflow>>
    <3>1. Lifecycle!Produce
      BY <2>7 DEF Lifecycle!Produce
    <3>2. QED
      BY <3>1 DEF Lifecycle!LifecycleNext
  <2>8. QED
    BY <1>2, <2>1, <2>2, <2>3, <2>4, <2>5, <2>6, <2>7, StepEffect
<1>3. QED
  BY <1>1, <1>2, InvAlways, PTL DEF Spec, ImplementsLifecycle, Lifecycle!LifecycleSpec
=============================================================================
