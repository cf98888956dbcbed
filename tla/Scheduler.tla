----------------------------- MODULE Scheduler ------------------------------
(***************************************************************************)
(* The task manager at work on one workflow: the scheduler service, the    *)
(* controllers and event listeners that call it, and the workers it        *)
(* schedules, composed from the modules of the services they share.        *)
(*                                                                         *)
(* The task manager is one Node.js process.  Its handlers are async        *)
(* functions: they interleave at every await, and every await is one       *)
(* atomic operation of MongoDB or RabbitMQ.  "jobs" holds every handler in *)
(* flight as a record: which handler it is (op), the operation it waits    *)
(* for (at) and the local variables it will still use.  One action below   *)
(* is one such operation together with the synchronous code after it.      *)
(*                                                                         *)
(* A message of a worker is a job at the first operation of its handler:   *)
(* RabbitMQ may still have it, or the process may have it in flight.  The  *)
(* consumers run without acknowledgements, so a message handed to a        *)
(* process that dies is lost.                                              *)
(*                                                                         *)
(* The executor that retries a status change at most four times is one     *)
(* step that succeeds when the change is allowed, or gives up when it is   *)
(* not: a refused attempt has no effect, so a few refused attempts before  *)
(* either outcome are stuttering steps.                                    *)
(***************************************************************************)
EXTENDS DagService, WorkersService, WorkerProcess, TaskQueue, FiniteSets

CONSTANTS
    WorkflowTaskCriteria,      \* completion criteria of the workflow, "task"
    WorkflowArtifactCriteria,  \* completion criteria of the workflow, "artifact"
    FailureModes,              \* how a task may fail: "parse", "build", "process"
    MayBeLate,                 \* workers whose heartbeats may stay out too long
    MayStop,                   \* workers whose process may end
    MayRestart,                \* the task manager may be restarted at any time
    MaxFailures                \* bound: how often one task fails while it runs

ASSUME SchedulerAssumption ==
    /\ None \notin Node
    /\ None \notin Worker
    /\ Priority \in [Node -> Nat]
    /\ WorkflowTaskCriteria \subseteq Node
    /\ WorkflowArtifactCriteria \subseteq Artifact
    /\ FailureModes \subseteq {"parse", "build", "process"}
    /\ MayBeLate \subseteq Worker
    /\ MayStop \subseteq Worker
    /\ MayRestart \in BOOLEAN
    /\ MaxFailures \in Nat

VARIABLES
    workflow,          \* "none" before it is submitted, then its status
    jobs,              \* the handlers in flight
    crashed            \* the task manager process has died at least once

vars == <<dagVars, workerVars, processVars, queue, workflow, jobs, crashed>>

-----------------------------------------------------------------------------
(* Jobs                                                                    *)

Op == {"create", "taskStarted", "taskCompleted", "taskFailed", "addArtifact",
       "onArtifactUploaded", "onArtifactAdded", "finishWorkflow", "onDagFailed",
       "scheduleNext", "scheduleFree", "checkForStaleWorkers", "onWorkerStale",
       "taskHoldRequested"}

Point == {"mark", "add", "read", "complete", "queue", "enqueue", "cancel", "clear",
          "free", "find", "getWorker", "take", "assign", "send", "requeue", "clearWorker",
          "write", "scan", "unhold", "dag", "dequeue", "push"}

Job(op, at, n) ==
    [op |-> op, at |-> at, node |-> n, worker |-> None, by |-> "message", tries |-> 0,
     dag |-> NewDag, store |-> {}, todo |-> {}, done |-> {}, task |-> None,
     held |-> <<>>, workers |-> {}]

\* Job j makes its step and is replaced by its successors, if any.
Become(j, successors) == jobs' = (jobs \ {j}) \cup successors

\* The controllers that receive messages do not wait for the service they call.
MessageOps == {"taskStarted", "taskCompleted", "taskFailed", "addArtifact"}

Undelivered(j) == j.op \in MessageOps /\ j.at \in {"mark", "add"}

-----------------------------------------------------------------------------
(* The artifact store.  addArtifactToStoreOfDag writes inside a            *)
(* transaction that it never commits, and ending the session aborts it: a  *)
(* later read finds no store and returns an empty one.  The event that is  *)
(* emitted carries the store as it looked inside the transaction.          *)

findForDag == {}

-----------------------------------------------------------------------------
(* What a handler does next, as the set of jobs that take its place.       *)

\* scheduleTaskForWorkerWorkingOnNode, called without await.
scheduleNextJob(n) == Job("scheduleNext", "find", n)

\* The heartbeat of a worker without work reads the worker's document next.
heartbeatJob(w) ==
    [Job("scheduleFree", "getWorker", None) EXCEPT !.worker = w, !.by = "heartbeat"]

\* scheduleTaskForFreeWorker, for the copy of the worker the caller read.
scheduleFreeJob(w, by, n, tries) ==
    [Job("scheduleFree", "take", n) EXCEPT
        !.worker = w, !.by = by, !.tries = tries, !.held = nodesOnHold[w]]

\* Mutants of checkCompletionCriteria: artifacts are not looked at, a task counts
\* unless it has failed.
TaskCriteriaOnly(n, dag, store) ==
    IF \A m \in WorkflowTaskCriteria : dag[m] = "succeeded"
    THEN {[Job("finishWorkflow", "write", n) EXCEPT !.store = store]}
    ELSE {}

CriteriaUnlessFailed(n, dag, store) ==
    IF /\ \A m \in WorkflowTaskCriteria : dag[m] # "failed"
       /\ WorkflowArtifactCriteria \subseteq store
    THEN {[Job("finishWorkflow", "write", n) EXCEPT !.store = store]}
    ELSE {}

\* The criteria of the workflow are met in a copy of the DAG and a store: the
\* update of the workflow's status is the next operation.
checkCompletionCriteria(n, dag, store) ==
    IF /\ \A m \in WorkflowTaskCriteria : dag[m] = "succeeded"
       /\ WorkflowArtifactCriteria \subseteq store
    THEN {[Job("finishWorkflow", "write", n) EXCEPT !.store = store]}
    ELSE {}

\* What follows once every task that j wanted to queue is in the queue.
AfterQueueing(j) ==
    CASE j.op = "create"             -> {[j EXCEPT !.at = "free"]}
      [] j.op = "taskCompleted"      -> checkCompletionCriteria(j.node, j.dag, findForDag)
                                            \cup {scheduleNextJob(j.node)}
      [] j.op = "onArtifactUploaded" -> {scheduleNextJob(n) : n \in j.done}
      [] j.op = "taskFailed"         -> {[j EXCEPT !.at = "clear"]}
      [] j.op = "onWorkerStale"      -> {[j EXCEPT !.at = "unhold"]}

\* queueDagNode for each node of todo, in order.
QueueAll(j, todo) ==
    IF todo = {} THEN AfterQueueing([j EXCEPT !.todo = {}])
                 ELSE {[j EXCEPT !.at = "queue", !.todo = todo]}

queueOutStandingTasks(j, dag, store) ==
    QueueAll(j, getOutstandingTasksOfDag(dag, store))

-----------------------------------------------------------------------------
(* Queueing tasks: queueDagNode, on behalf of several handlers.            *)

MarkNodeAsQueued(j) ==
    /\ j.at = "queue"
    /\ \E n \in j.todo :
         /\ IsFirst(n, j.todo)
         /\ setNodeStatus(n, "queued")
         /\ Become(j, {[j EXCEPT !.at = "enqueue", !.task = n]})
    /\ UNCHANGED <<retryCount, workerVars, processVars, queue, workflow, crashed>>

EnqueueNode(j) ==
    /\ j.at = "enqueue"
    /\ enqueueNode(j.task)
    /\ Become(j, QueueAll([j EXCEPT !.task = None], j.todo \ {j.task}))
    /\ UNCHANGED <<dagVars, workerVars, processVars, workflow, crashed>>

\* The first node j still wants to queue can no longer become "queued".
QueueingRefused(j) ==
    /\ j.at = "queue"
    /\ \E n \in j.todo : IsFirst(n, j.todo) /\ ~MayBecome(n, "queued")

\* create answers its caller with the error; the errors of event listeners are
\* caught and logged.  Either way the rest of the handler is skipped.
AbandonQueueing(j) ==
    /\ j.op \in {"create", "onArtifactUploaded", "onWorkerStale"}
    /\ QueueingRefused(j)
    /\ Become(j, {})
    /\ UNCHANGED <<dagVars, workerVars, processVars, queue, workflow, crashed>>

-----------------------------------------------------------------------------
(* Workflows                                                               *)

\* The definition and its DAG are saved, and the tasks without dependencies
\* are queued.
CreateWorkflow ==
    /\ workflow = "none"
    /\ workflow' = "running"
    /\ jobs' = jobs \cup queueOutStandingTasks(Job("create", "queue", None), NewDag, findForDag)
    /\ UNCHANGED <<dagVars, workerVars, processVars, queue, crashed>>

ScheduleTasksForAllFreeWorkers(j) ==
    /\ j.at = "free"
    /\ Become(j, {scheduleFreeJob(w, j.op, j.node, j.tries) : w \in findFreeWorkers})
    /\ UNCHANGED <<dagVars, workerVars, processVars, queue, workflow, crashed>>

\* The workflow becomes "succeeded", whatever its status is.
FinishWorkflow(j) ==
    /\ j.op = "finishWorkflow"
    /\ workflow' = "succeeded"
    /\ Become(j, {})
    /\ UNCHANGED <<dagVars, workerVars, processVars, queue, crashed>>

OnDagFailed(j) ==
    /\ j.op = "onDagFailed"
    /\ workflow' = "failed"
    /\ Become(j, {})
    /\ UNCHANGED <<dagVars, workerVars, processVars, queue, crashed>>

-----------------------------------------------------------------------------
(* Task events                                                             *)

TaskStarted(j) ==
    /\ j.op = "taskStarted"
    /\ setNodeStatus(j.node, "running")
    /\ Become(j, {})
    /\ UNCHANGED <<retryCount, workerVars, processVars, queue, workflow, crashed>>

TaskCompleted(j) ==
    /\ j.op = "taskCompleted"
    /\ j.at = "mark"
    /\ setNodeStatus(j.node, "succeeded")
    /\ Become(j, queueOutStandingTasks([j EXCEPT !.dag = status'], status', findForDag))
    /\ UNCHANGED <<retryCount, workerVars, processVars, queue, workflow, crashed>>

\* A node that has used up its retries takes the workflow down, any other is
\* queued again.
TaskFailed(j) ==
    /\ j.op = "taskFailed"
    /\ j.at = "mark"
    /\ increaseRetryCountOfNodeAndSetStatusFailed(j.node)
    /\ LET k == [j EXCEPT !.tries = retryCount[j.node] + 1]
       IN  Become(j, IF k.tries > MaxRetryCount[j.node]
                     THEN {[k EXCEPT !.at = "cancel"]}
                     ELSE QueueAll(k, {j.node}))
    /\ UNCHANGED <<workerVars, processVars, queue, workflow, crashed>>

CancelPendingTasks(j) ==
    /\ j.at = "cancel"
    /\ cancelAllPendingTasksOf
    /\ Become(j, {[j EXCEPT !.at = "clear"]})
    /\ UNCHANGED <<retryCount, workerVars, processVars, queue, workflow, crashed>>

ClearWorkOfFailedTask(j) ==
    /\ j.at = "clear"
    /\ clearWorkOfWorkerWorkingOn(j.node)
    /\ Become(j, IF j.tries > MaxRetryCount[j.node]
                 THEN {[Job("onDagFailed", "write", j.node) EXCEPT !.tries = j.tries]}
                 ELSE {[j EXCEPT !.at = "free"]})
    /\ UNCHANGED <<dagVars, processVars, queue, workflow, crashed>>

-----------------------------------------------------------------------------
(* Artifact events                                                         *)

\* Mutant of AddArtifact: the workflow service is not told.
AddArtifactUnannounced(j) ==
    /\ j.op = "addArtifact"
    /\ Become(j, {[j EXCEPT !.op = "onArtifactUploaded", !.at = "read"]})
    /\ UNCHANGED <<dagVars, workerVars, processVars, queue, workflow, crashed>>

\* The artifact is added inside the transaction that will be rolled back, and
\* the scheduler's and the workflow service's listeners start.
AddArtifact(j) ==
    /\ j.op = "addArtifact"
    /\ LET k == [j EXCEPT !.at = "read", !.store = findForDag \cup @]
       IN  Become(j, {[k EXCEPT !.op = "onArtifactUploaded"], [k EXCEPT !.op = "onArtifactAdded"]})
    /\ UNCHANGED <<dagVars, workerVars, processVars, queue, workflow, crashed>>

\* The workflow service's listener.
OnArtifactAdded(j) ==
    /\ j.op = "onArtifactAdded"
    /\ Become(j, checkCompletionCriteria(j.node, status, j.store))
    /\ UNCHANGED <<dagVars, workerVars, processVars, queue, workflow, crashed>>

\* The scheduler's listener reads the DAG, completes the running nodes whose
\* criteria the artifact meets, one by one, and then queues what is outstanding
\* in its own copy.
CompleteAll(j, todo) ==
    IF todo = {} THEN queueOutStandingTasks([j EXCEPT !.dag = NewDag, !.todo = {}], j.dag, j.store)
                 ELSE {[j EXCEPT !.at = "complete", !.todo = todo]}

OnArtifactUploaded(j) ==
    /\ j.op = "onArtifactUploaded"
    /\ j.at = "read"
    /\ Become(j, CompleteAll([j EXCEPT !.dag = status], nodesMeetingCriteria(status, j.store)))
    /\ UNCHANGED <<dagVars, workerVars, processVars, queue, workflow, crashed>>

UpdateDagNodeStati(j) ==
    /\ j.at = "complete"
    /\ \E n \in j.todo :
         /\ IsFirst(n, j.todo)
         /\ \/ /\ setNodeStatus(n, "succeeded")
               /\ Become(j, CompleteAll([j EXCEPT !.dag[n] = "succeeded", !.done = @ \cup {n}],
                                        j.todo \ {n}))
            \/ /\ ~MayBecome(n, "succeeded")
               /\ UNCHANGED status
               /\ Become(j, CompleteAll(j, j.todo \ {n}))
    /\ UNCHANGED <<retryCount, workerVars, processVars, queue, workflow, crashed>>

-----------------------------------------------------------------------------
(* Giving work to workers                                                  *)

\* A worker that is not online keeps the finished node in its document.
FindWorkerWorkingOnNode(j) ==
    /\ j.at = "find"
    /\ \E w \in findWorkerWorkingOn(j.node) :
         Become(j, IF workerStatus[w] = "online"
                   THEN {[j EXCEPT !.at = "take", !.worker = w, !.held = nodesOnHold[w]]}
                   ELSE {})
    /\ UNCHANGED <<dagVars, workerVars, processVars, queue, workflow, crashed>>

\* getNextQueuedTaskToScheduleFor decides on the copy of the worker it was
\* given: a held task first, otherwise the next task of the queue.
TakeHeldTask(j) ==
    /\ j.at = "take"
    /\ j.held # <<>>
    /\ unholdOneOf(j.worker)
    /\ Become(j, {[j EXCEPT !.at = "assign", !.task = Head(j.held), !.held = <<>>]})
    /\ UNCHANGED <<dagVars, processVars, queue, workflow, crashed>>

TakeQueuedTask(j) ==
    /\ j.at = "take"
    /\ j.held = <<>>
    /\ \E n \in Node : /\ dequeue(n)
                       /\ Become(j, {[j EXCEPT !.at = "assign", !.task = n]})
    /\ UNCHANGED <<dagVars, workerVars, processVars, workflow, crashed>>

\* Mutant of NothingToTake: the worker whose task ended is not cleared.
NothingToTakeNoClear(j) ==
    /\ j.at = "take"
    /\ j.held = <<>>
    /\ queue = <<>>
    /\ Become(j, {})
    /\ UNCHANGED <<dagVars, workerVars, processVars, queue, workflow, crashed>>

NothingToTake(j) ==
    /\ j.at = "take"
    /\ j.held = <<>>
    /\ queue = <<>>
    /\ Become(j, IF j.op = "scheduleNext" THEN {[j EXCEPT !.at = "clearWorker"]} ELSE {})
    /\ UNCHANGED <<dagVars, workerVars, processVars, queue, workflow, crashed>>

ClearWorkOfWorker(j) ==
    /\ j.at = "clearWorker"
    /\ clearWorkOfWorker(j.worker)
    /\ Become(j, {})
    /\ UNCHANGED <<dagVars, processVars, queue, workflow, crashed>>

\* scheduleNext overwrites the worker's node, scheduleFree must find it unset.
Forced(j) == j.op = "scheduleNext"

AssignTask(j) ==
    /\ j.at = "assign"
    /\ updateWorkOfWorker(j.worker, j.task, Forced(j))
    /\ Become(j, {[j EXCEPT !.at = "send"]})
    /\ UNCHANGED <<dagVars, processVars, queue, workflow, crashed>>

\* Mutant of AssignmentRefused: the task in hand is dropped.
AssignmentRefusedDrops(j) ==
    /\ j.at = "assign"
    /\ ~MayAssign(j.worker, Forced(j))
    /\ Become(j, {})
    /\ UNCHANGED <<dagVars, workerVars, processVars, queue, workflow, crashed>>

AssignmentRefused(j) ==
    /\ j.at = "assign"
    /\ ~MayAssign(j.worker, Forced(j))
    /\ Become(j, {[j EXCEPT !.at = "requeue"]})
    /\ UNCHANGED <<dagVars, workerVars, processVars, queue, workflow, crashed>>

\* Mutant of RequeueTask: the node of the event is queued, not the task in hand.
RequeueWrongNode(j) ==
    /\ j.at = "requeue"
    /\ enqueueNode(j.node)
    /\ Become(j, {})
    /\ UNCHANGED <<dagVars, workerVars, processVars, workflow, crashed>>

RequeueTask(j) ==
    /\ j.at = "requeue"
    /\ enqueueNode(j.task)
    /\ Become(j, {})
    /\ UNCHANGED <<dagVars, workerVars, processVars, workflow, crashed>>

SendTask(j) ==
    /\ j.at = "send"
    /\ deliver(j.worker, j.task)
    /\ Become(j, {})
    /\ UNCHANGED <<dagVars, workerVars, queue, workflow, crashed>>

-----------------------------------------------------------------------------
(* Heartbeats and stale workers                                            *)

\* A heartbeat is sent and received.  Its period is far longer than a handler:
\* the previous one has been dealt with.
Heartbeat(w) ==
    /\ alive[w]
    /\ ~\E j \in jobs : j.op = "scheduleFree" /\ j.by = "heartbeat" /\ j.worker = w
    /\ processWorkerHeartbeat(w)
    /\ jobs' = jobs \cup (IF HasNoWork(w) THEN {heartbeatJob(w)} ELSE {})
    /\ UNCHANGED <<dagVars, processVars, queue, workflow, crashed>>

\* worker.noWork carries the document as it is now.
GetWorker(j) ==
    /\ j.at = "getWorker"
    /\ Become(j, {[j EXCEPT !.at = "take", !.held = nodesOnHold[j.worker]]})
    /\ UNCHANGED <<dagVars, workerVars, processVars, queue, workflow, crashed>>

StaleCheckRunning == \E j \in jobs : j.op \in {"checkForStaleWorkers", "onWorkerStale"}

\* Time passes without a heartbeat.  The threshold is longer than a check.
HeartbeatExpires(w) ==
    /\ w \in MayBeLate \/ ~alive[w]
    /\ workerStatus[w] # "unknown"
    /\ ~overdue[w]
    /\ ~StaleCheckRunning
    /\ overdue' = [overdue EXCEPT ![w] = TRUE]
    /\ UNCHANGED <<dagVars, workerStatus, workingOn, nodesOnHold, processVars, queue,
                   workflow, jobs, crashed>>

\* The interval timer fires: all overdue workers are read, the ones already
\* stale too.
CheckForStaleWorkers ==
    /\ ~StaleCheckRunning
    /\ \E w \in Worker : overdue[w]
    /\ jobs' = jobs \cup {[Job("checkForStaleWorkers", "scan", None) EXCEPT
                               !.workers = {w \in Worker : overdue[w]}]}
    /\ UNCHANGED <<dagVars, workerVars, processVars, queue, workflow, crashed>>

\* One conditional update per worker; worker.stale starts the listener, which
\* queues every held task and takes it off the hold, concurrently.
MarkWorkerStale(j) ==
    /\ j.op = "checkForStaleWorkers"
    /\ \E w \in j.workers :
         /\ markStale(w)
         /\ LET rest == j.workers \ {w}
                held == {nodesOnHold[w][i] : i \in 1..Len(nodesOnHold[w])}
            IN  Become(j, (IF rest = {} THEN {} ELSE {[j EXCEPT !.workers = rest]})
                          \cup {[Job("onWorkerStale", "queue", n) EXCEPT
                                     !.worker = w, !.todo = {n}] : n \in held})
    /\ UNCHANGED <<dagVars, processVars, queue, workflow, crashed>>

UnholdTaskOfStaleWorker(j) ==
    /\ j.at = "unhold"
    /\ unholdOneOf(j.worker)
    /\ Become(j, {})
    /\ UNCHANGED <<dagVars, processVars, queue, workflow, crashed>>

-----------------------------------------------------------------------------
(* The task manager process dies: a promise is rejected that nobody waits  *)
(* for, or the process is restarted.  All handlers end where they are;     *)
(* RabbitMQ still has some of the messages that were not handed out.       *)

UnhandledRejection(j) ==
    \/ j.op = "taskStarted" /\ ~MayBecome(j.node, "running")
    \/ j.op = "taskCompleted" /\ j.at = "mark" /\ ~MayBecome(j.node, "succeeded")
    \/ j.op = "taskFailed" /\ j.at = "mark" /\ ~MayBecome(j.node, "failed")
    \/ j.op \in {"taskCompleted", "taskFailed"} /\ QueueingRefused(j)
    \/ j.at = "find" /\ findWorkerWorkingOn(j.node) = {}
    \/ j.op = "checkForStaleWorkers" /\ \E w \in j.workers : ~overdue[w]

ProcessDies(lost) ==
    /\ crashed' = TRUE
    /\ \E kept \in SUBSET {j \in jobs \ lost : Undelivered(j)} : jobs' = kept
    /\ UNCHANGED <<dagVars, workerVars, processVars, queue, workflow>>

Reject(j) == UnhandledRejection(j) /\ ProcessDies({j})

Restart == MayRestart /\ ProcessDies({})

-----------------------------------------------------------------------------
(* The workers                                                             *)

\* A message names the task and the worker.
Report(op, at, n, w) == [Job(op, at, n) EXCEPT !.worker = w]

WorkerStarts(w) ==
    /\ \E n \in Node : /\ StartTask(w, n)
                       /\ jobs' = jobs \cup {Report("taskStarted", "mark", n, w)}
    /\ UNCHANGED <<dagVars, workerVars, queue, workflow, crashed>>

\* A message that cannot be parsed is reported with an id no node has, a task
\* that cannot be built is reported as failed without having been started.
WorkerRejects(w) ==
    /\ \E n \in Node :
         /\ RejectTask(w, n)
         /\ \/ /\ "parse" \in FailureModes
               /\ jobs' = jobs \cup {Report("taskFailed", "mark", None, w)}
            \/ /\ "build" \in FailureModes
               /\ jobs' = jobs \cup {Report("taskFailed", "mark", n, w)}
    /\ UNCHANGED <<dagVars, workerVars, queue, workflow, crashed>>

WorkerCompletes(w) ==
    /\ \E n \in Node : /\ CompleteTask(w, n)
                       /\ jobs' = jobs \cup {Report("taskCompleted", "mark", n, w)}
    /\ UNCHANGED <<dagVars, workerVars, queue, workflow, crashed>>

WorkerReportsArtifact(w) ==
    /\ \E a \in uploading[w] :
         /\ ReportArtifact(w, a)
         /\ jobs' = jobs \cup {[Report("addArtifact", "add", executing[w], w) EXCEPT
                                    !.store = {a}]}
    /\ UNCHANGED <<dagVars, workerVars, queue, workflow, crashed>>

WorkerFails(w) ==
    /\ "process" \in FailureModes
    /\ \E n \in Node : /\ FailTask(w, n)
                       /\ retryCount[n] < MaxFailures
                       /\ jobs' = jobs \cup {Report("taskFailed", "mark", n, w)}
    /\ UNCHANGED <<dagVars, workerVars, queue, workflow, crashed>>

WorkerStops(w) ==
    /\ w \in MayStop
    /\ StopWorker(w)
    /\ UNCHANGED <<dagVars, workerVars, queue, workflow, jobs, crashed>>

-----------------------------------------------------------------------------
(* Specification                                                           *)

Init ==
    /\ DagInit
    /\ WorkersInit
    /\ ProcessInit
    /\ queue = <<>>
    /\ workflow = "none"
    /\ jobs = {}
    /\ crashed = FALSE

\* One operation of the handler j.
HandlerStep(j) ==
    \/ MarkNodeAsQueued(j) \/ EnqueueNode(j) \/ AbandonQueueing(j)
    \/ ScheduleTasksForAllFreeWorkers(j) \/ FinishWorkflow(j) \/ OnDagFailed(j)
    \/ TaskStarted(j) \/ TaskCompleted(j) \/ TaskFailed(j)
    \/ CancelPendingTasks(j) \/ ClearWorkOfFailedTask(j)
    \/ AddArtifact(j) \/ OnArtifactAdded(j) \/ OnArtifactUploaded(j) \/ UpdateDagNodeStati(j)
    \/ FindWorkerWorkingOnNode(j) \/ TakeHeldTask(j) \/ TakeQueuedTask(j) \/ NothingToTake(j)
    \/ ClearWorkOfWorker(j) \/ AssignTask(j) \/ AssignmentRefused(j)
    \/ RequeueTask(j) \/ SendTask(j) \/ GetWorker(j)
    \/ MarkWorkerStale(j) \/ UnholdTaskOfStaleWorker(j)
    \/ Reject(j)

\* The worker's own progress on the task it has.
WorkerStep(w) ==
    \/ WorkerStarts(w) \/ WorkerRejects(w) \/ WorkerCompletes(w)
    \/ WorkerReportsArtifact(w) \/ WorkerFails(w)

Next ==
    \/ CreateWorkflow
    \/ \E j \in jobs : HandlerStep(j)
    \/ \E w \in Worker : \/ Heartbeat(w) \/ HeartbeatExpires(w)
                         \/ WorkerStep(w) \/ WorkerStops(w)
    \/ CheckForStaleWorkers
    \/ Restart

Spec == Init /\ [][Next]_vars
=============================================================================
