------------------------ MODULE SchedulerProperties -------------------------
(***************************************************************************)
(* What the scheduler promises, stated over the state of module Scheduler. *)
(***************************************************************************)
EXTENDS Scheduler

JobType ==
    [op : Op, at : Point, node : Node \cup {None}, worker : Worker \cup {None},
     by : Op \cup {"message", "heartbeat"}, tries : Nat,
     dag : [Node -> DagNodeStatus], store : SUBSET Artifact,
     todo : SUBSET Node, done : SUBSET Node, task : Node \cup {None},
     held : Seq(Node), workers : SUBSET Worker]

WorkersTypeOK ==
    /\ workerStatus \in [Worker -> {"unknown", "online", "stale"}]
    /\ overdue \in [Worker -> BOOLEAN]
    /\ workingOn \in [Worker -> Node \cup {None}]
    /\ nodesOnHold \in [Worker -> Seq(Node)]

ProcessTypeOK ==
    /\ alive \in [Worker -> BOOLEAN]
    /\ mailbox \in [Worker -> Seq(Node)]
    /\ executing \in [Worker -> Node \cup {None}]
    /\ uploading \in [Worker -> SUBSET Artifact]
    /\ stored \subseteq Artifact

\* Every variable holds a value of its type, every handler in flight included.
TypeOK ==
    /\ DagTypeOK
    /\ WorkersTypeOK
    /\ ProcessTypeOK
    /\ queue \in Seq(Node)
    /\ workflow \in {"none", "running", "succeeded", "failed"}
    /\ jobs \subseteq JobType
    /\ crashed \in BOOLEAN

\* What task n needs is there: the tasks it depends on have succeeded and the
\* artifacts it depends on are in the storage.
DepsMet(n) ==
    /\ \A m \in TaskDeps[n] : status[m] = "succeeded"
    /\ ArtifactDeps[n] \subseteq stored

\* The tasks a worker has been given and has not finished.
TasksOf(w) == {mailbox[w][i] : i \in 1..Len(mailbox[w])} \cup ({executing[w]} \ {None})

\* A worker is never given a task before the tasks it depends on have succeeded
\* and its input artifacts exist, although the scheduler decides on copies of
\* the DAG that are out of date when it acts on them.
NoTaskBeforeItsDependencies ==
    /\ \A n \in Node : status[n] \in {"queued", "running", "succeeded", "failed"} => DepsMet(n)
    /\ \A w \in Worker : \A n \in TasksOf(w) : DepsMet(n)

\* Everything that will lead to another execution of n: its entries in the
\* queue, the handlers that have it in hand, the messages sent to workers and
\* the executions themselves.
Copies(n) ==
    {<<"queue", i>> : i \in {i \in 1..Len(queue) : queue[i] = n}}
      \cup {<<"handler", j>> : j \in {j \in jobs : j.task = n}}
      \cup {<<"execution", w>> : w \in {w \in Worker : executing[w] = n /\ uploading[w] = {}}}
      \cup UNION {{<<"message", w, i>> : i \in {i \in 1..Len(mailbox[w]) : mailbox[w][i] = n}} :
                      w \in Worker}

\* No task is on its way to two executions at once, and none is on its way to
\* one while it is pending, has succeeded, failed or been canceled.
AtMostOneExecution ==
    \A n \in Node :
        /\ \A c, d \in Copies(n) : c = d
        /\ Copies(n) # {} => status[n] \in {"queued", "running"}

\* Every task that has completion criteria is complete with an artifact that no
\* other task uploads: so are the workflows of the end-to-end tests and the ones
\* the api builds.
OwnCriteria ==
    \A n \in Node :
        ArtifactCriteria[n] \cup TaskCriteria[n] # {} =>
            \E a \in ArtifactCriteria[n] : \A m \in Node \ {n} : a \notin Results[m]

\* As long as no process has died, a queued task is not lost: it is on its way
\* to an execution, or the report of its start has not been handled yet, or the
\* report of a worker that could not even start it (under its own id or none).
NoQueuedTaskLost ==
    (~crashed /\ \A w \in Worker : alive[w]) =>
        \A n \in Node : status[n] = "queued" =>
            \/ Copies(n) # {}
            \/ \E j \in jobs : j.op \in {"taskStarted", "taskFailed"} /\ j.node \in {n, None}

\* A workflow that is reported as succeeded meets its completion criteria, with
\* the verdict taken on a copy of the DAG and written later.
SucceededWorkflowMeetsCriteria ==
    workflow = "succeeded" =>
        /\ \A n \in WorkflowTaskCriteria : status[n] = "succeeded"
        /\ WorkflowArtifactCriteria \subseteq stored

\* A node that has succeeded stays so, whatever report or hold comes late.
SucceededIsFinal ==
    [][\A n \in Node : status[n] = "succeeded" => status'[n] = "succeeded"]_vars

\* The scheduler seen from outside: a task is released when it leaves the
\* states in which it waits.
Lifecycle == INSTANCE WorkflowLifecycle WITH
    Task <- Node, Item <- Artifact, NeedsTasks <- TaskDeps, NeedsItems <- ArtifactDeps,
    GoalTasks <- WorkflowTaskCriteria, GoalItems <- WorkflowArtifactCriteria,
    released <- {n \in Node : status[n] \in {"queued", "running", "failed", "succeeded"}},
    succeeded <- {n \in Node : status[n] = "succeeded"},
    available <- stored,
    verdict <- workflow

\* The handlers, with all their stale copies, implement the lifecycle.
ImplementsLifecycle == Lifecycle!LifecycleSpec

-----------------------------------------------------------------------------
(* Why the scheduler implements the lifecycle although its handlers act on *)
(* old copies: what a copy allows stays allowed, because success and the   *)
(* existence of an artifact are final.                                     *)

\* Task n has been handed over for execution.
Released(n) == status[n] \in {"queued", "running", "failed", "succeeded"}

CriteriaMet ==
    /\ \A n \in WorkflowTaskCriteria : status[n] = "succeeded"
    /\ WorkflowArtifactCriteria \subseteq stored

\* Which handler may wait for which operation, with which variables set.
JobShape(j) ==
    /\ j.held = <<>>
    /\ j.at \in {"queue", "enqueue"} =>
         j.op \in {"create", "taskCompleted", "onArtifactUploaded", "taskFailed", "onWorkerStale"}
    /\ j.at = "complete" => j.op = "onArtifactUploaded"
    /\ j.at \in {"cancel", "clear"} => j.op = "taskFailed"
    /\ j.at \in {"enqueue", "assign", "send", "requeue"} => j.task \in Node
    /\ j.at = "getWorker" => j.worker \in Worker

\* What handler j relies on: its copies are no further than the truth, and the
\* tasks it is about to queue, send or fail have their dependencies met.
JobSound(j) ==
    /\ \A m \in Node : j.dag[m] = "succeeded" => status[m] = "succeeded"
    /\ j.store \subseteq stored
    /\ j.at # "complete" => \A n \in j.todo : DepsMet(n)
    /\ j.task \in Node => DepsMet(j.task)
    /\ j.op = "taskFailed" /\ j.node \in Node => DepsMet(j.node)
    /\ j.op = "onDagFailed" \/ (j.op = "taskFailed" /\ j.at # "mark") =>
         j.node \in Node /\ Released(j.node)
    /\ j.op = "finishWorkflow" => CriteriaMet

DagSound ==
    \A n \in Node : /\ status[n] # "on-hold"
                    /\ Released(n) => DepsMet(n)

QueueSound == \A i \in 1..Len(queue) : DepsMet(queue[i])

WorkersSound ==
    \A w \in Worker : /\ nodesOnHold[w] = <<>>
                      /\ \A i \in 1..Len(mailbox[w]) : DepsMet(mailbox[w][i])
                      /\ executing[w] \in Node => DepsMet(executing[w])
                      /\ uploading[w] \subseteq stored

\* Wherever a task or a verdict waits (queue, handler, message, execution), what
\* it depends on is already there.
NothingRunsAhead ==
    /\ DagSound
    /\ QueueSound
    /\ WorkersSound
    /\ \A j \in jobs : JobShape(j) /\ JobSound(j)
    /\ workflow = "succeeded" => CriteriaMet

-----------------------------------------------------------------------------
\* Every handler that can go on does: those of heartbeats, which never cease,
\* each by itself, and the others, of which there are only so many, together.
\* Workers go on with their tasks and send their heartbeats.
Fairness ==
    /\ WF_vars(CreateWorkflow)
    /\ WF_vars(\E j \in jobs : j.by # "heartbeat" /\ HandlerStep(j))
    /\ \A w \in Worker :
         /\ WF_vars(\E j \in jobs : j.by = "heartbeat" /\ j.worker = w /\ HandlerStep(j))
         /\ WF_vars(WorkerStep(w))
         /\ WF_vars(Heartbeat(w))

FairSpec == Spec /\ Fairness

\* The workflow comes to an end, unless the task manager process dies: no
\* interleaving leaves a task where no handler, worker or heartbeat moves it on.
WorkflowEnds == <>(crashed \/ workflow \in {"succeeded", "failed"})

\* A task has failed and may have been queued again.
Retried == \E n \in Node : retryCount[n] > 0 /\ MaxRetryCount[n] > 0

\* No worker stays marked as busy for good, unless the process dies: the one
\* whose task ended is found and given another or cleared.  Nothing is promised
\* when a task is tried again: taskFailed queues it before it looks for the worker
\* to clear, which may by then be the one that has the task now
\* (scheduler.service.ts:129).
WorkersReleased == <>[](crashed \/ Retried \/ \A w \in Worker : workingOn[w] = None)

-----------------------------------------------------------------------------
(* What comments, messages and tests of the repository say, and the code   *)
(* does not always keep.                                                   *)

\* "Cancelling all pending tasks of dag": once the failure of a task has failed
\* the workflow, none of its tasks is still pending.
FailedWorkflowHasNoPendingTask ==
    workflow = "failed" => \A n \in Node : status[n] # "pending"

\* "Error while processing completed task": the controllers log a report that
\* cannot be applied.  When no report of a start is outstanding, so that none
\* has been overtaken, handling another one does not end the process.
ReportsAreNotFatal ==
    [][(~crashed /\ ~\E j \in jobs : j.op = "taskStarted") => ~crashed']_vars
=============================================================================
