--------------------------- MODULE SchedulerHold ----------------------------
(***************************************************************************)
(* The scheduler with hold requests: a worker that is busy asks for the    *)
(* task it will get next, so that it can fetch the artifacts in advance.   *)
(* The task manager takes these requests and its tests make them; the      *)
(* worker program of the repository does not make them yet, so that the    *)
(* sender is external.                                                     *)
(***************************************************************************)
EXTENDS SchedulerProperties

CONSTANT MaxTries      \* attempts of the executor: its maxTries of 3, plus one

ASSUME HoldAssumption == MaxTries \in Nat \ {0}

\* A worker that processes a task sends one request at a time.  Its document is
\* read: it must be online, must not hold a task yet and must have a node.
TaskHoldRequested(w) ==
    /\ executing[w] # None
    /\ ~\E j \in jobs : j.op = "taskHoldRequested" /\ j.worker = w
    /\ workerStatus[w] = "online"
    /\ nodesOnHold[w] = <<>>
    /\ workingOn[w] # None
    /\ jobs' = jobs \cup {[Job("taskHoldRequested", "dag", workingOn[w]) EXCEPT !.worker = w]}
    /\ UNCHANGED <<dagVars, workerVars, processVars, queue, workflow, crashed>>

\* The tasks that would be outstanding if n had succeeded, in a copy of the DAG.
getTasksThatWouldGetScheduledIfNodeGetsCompleted(n, dag) ==
    getOutstandingTasksOfDag([dag EXCEPT ![n] = "succeeded"], findForDag \cup Results[n])

\* putTaskOnHoldFor prefers a task that the end of the current one makes ready.
\* It decides on the copy of the DAG read here, at every attempt.
ReadDagForHold(j) ==
    /\ j.op = "taskHoldRequested"
    /\ j.at = "dag"
    /\ LET prefered == getTasksThatWouldGetScheduledIfNodeGetsCompleted(j.node, status)
       IN  \/ /\ prefered = {}
              /\ Become(j, {[j EXCEPT !.at = "dequeue"]})
           \/ \E n \in prefered :
                /\ IsFirst(n, prefered)
                /\ Become(j, {[j EXCEPT !.at = "mark", !.todo = {n}]})
    /\ UNCHANGED <<dagVars, workerVars, processVars, queue, workflow, crashed>>

\* An attempt has failed; after the last one the request is given up.
NextAttempt(j) ==
    IF j.tries + 1 < MaxTries
    THEN {[j EXCEPT !.at = "dequeue", !.task = None, !.tries = @ + 1]}
    ELSE {}

\* Without a preferred task the next one in line is taken off the queue.
DequeueForHold(j) ==
    /\ j.at = "dequeue"
    /\ \/ \E n \in Node : /\ dequeue(n)
                          /\ Become(j, {[j EXCEPT !.at = "mark", !.task = n]})
       \/ /\ queue = <<>>
          /\ UNCHANGED queue
          /\ Become(j, NextAttempt(j))
    /\ UNCHANGED <<dagVars, workerVars, processVars, workflow, crashed>>

\* The task chosen: the preferred one of todo, or the one taken off the queue.
Chosen(j) == IF j.task = None THEN j.todo ELSE {j.task}

MarkNodeAsOnHold(j) ==
    /\ j.op = "taskHoldRequested"
    /\ j.at = "mark"
    /\ \E n \in Chosen(j) :
         \/ /\ setNodeStatus(n, "on-hold")
            /\ Become(j, {[j EXCEPT !.at = "push", !.task = n, !.todo = {}]})
         \/ /\ ~MayBecome(n, "on-hold")
            /\ UNCHANGED status
            /\ Become(j, IF j.task = None THEN {} ELSE NextAttempt(j))
    /\ UNCHANGED <<retryCount, workerVars, processVars, queue, workflow, crashed>>

\* The prefetch command that follows names artifacts only.
AddTaskToWorkerHold(j) ==
    /\ j.at = "push"
    /\ addTaskToWorkerHold(j.worker, j.task)
    /\ Become(j, {})
    /\ UNCHANGED <<dagVars, processVars, queue, workflow, crashed>>

HoldStep(j) ==
    \/ ReadDagForHold(j) \/ DequeueForHold(j) \/ MarkNodeAsOnHold(j) \/ AddTaskToWorkerHold(j)

HoldNext ==
    \/ Next
    \/ \E w \in Worker : TaskHoldRequested(w)
    \/ \E j \in jobs : HoldStep(j)

HoldSpec == Init /\ [][HoldNext]_vars

-----------------------------------------------------------------------------
\* No task is held twice, by one worker or by two, although every request picks
\* its task from a copy of the DAG that is old when the task is stored.  A task
\* that has failed may be: it may be held and queued as well, and is queued again.
HeldOnce ==
    \A v, w \in Worker :
        \A i \in 1..Len(nodesOnHold[v]), k \in 1..Len(nodesOnHold[w]) :
            nodesOnHold[v][i] = nodesOnHold[w][k] /\ retryCount[nodesOnHold[v][i]] = 0 =>
                v = w /\ i = k
=============================================================================
