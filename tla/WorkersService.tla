--------------------------- MODULE WorkersService ---------------------------
(***************************************************************************)
(* The worker documents of the task manager (task-manager/src/workers):    *)
(* who is known, who is online, which node a worker works on and which     *)
(* nodes it holds.  A document appears with the first heartbeat of its     *)
(* worker.  Every operator that primes a variable is one atomic update.    *)
(***************************************************************************)
EXTENDS Naturals, Sequences

CONSTANTS
    Worker,            \* names of the workers
    None               \* no value (an unset field)

VARIABLES
    workerStatus,      \* "unknown" (no document), "online" or "stale"
    overdue,           \* overdue[w]: lastHeartbeat is older than the threshold
    workingOn,         \* workingOn[w]: the node, or None when unset
    nodesOnHold        \* nodesOnHold[w]: the array of held tasks

workerVars == <<workerStatus, overdue, workingOn, nodesOnHold>>

WorkersInit ==
    /\ workerStatus = [w \in Worker |-> "unknown"]
    /\ overdue = [w \in Worker |-> FALSE]
    /\ workingOn = [w \in Worker |-> None]
    /\ nodesOnHold = [w \in Worker |-> <<>>]

\* The upsert of a heartbeat.
processWorkerHeartbeat(w) ==
    /\ workerStatus' = [workerStatus EXCEPT ![w] = "online"]
    /\ overdue' = [overdue EXCEPT ![w] = FALSE]
    /\ UNCHANGED <<workingOn, nodesOnHold>>

\* Mutant of HasNoWork: only a worker that was not online asks for work.
OnlyReturningHasNoWork(w) == workerStatus[w] # "online"

\* The heartbeat is followed by worker.noWork: a worker that is new, was stale,
\* or has no node in its document.
HasNoWork(w) == workerStatus[w] # "online" \/ workingOn[w] = None

findFreeWorkers == {w \in Worker : workerStatus[w] = "online" /\ workingOn[w] = None}

findWorkerWorkingOn(n) == {w \in Worker : workerStatus[w] # "unknown" /\ workingOn[w] = n}

\* updateWorkOfWorker matches the document unless the field is set; with
\* force = true it overwrites the field.
MayAssign(w, force) == force \/ workingOn[w] = None

updateWorkOfWorker(w, n, force) ==
    /\ MayAssign(w, force)
    /\ workingOn' = [workingOn EXCEPT ![w] = n]
    /\ UNCHANGED <<workerStatus, overdue, nodesOnHold>>

clearWorkOfWorker(w) ==
    /\ workingOn' = [workingOn EXCEPT ![w] = None]
    /\ UNCHANGED <<workerStatus, overdue, nodesOnHold>>

\* Unsets the field of one document that matches, if there is one.
clearWorkOfWorkerWorkingOn(n) ==
    \/ \E w \in findWorkerWorkingOn(n) : clearWorkOfWorker(w)
    \/ findWorkerWorkingOn(n) = {} /\ UNCHANGED workerVars

addTaskToWorkerHold(w, n) ==
    /\ nodesOnHold' = [nodesOnHold EXCEPT ![w] = Append(@, n)]
    /\ UNCHANGED <<workerStatus, overdue, workingOn>>

\* $pop: -1 removes the first element of the stored array, whatever the caller
\* shifted off its own copy; on an empty array it does nothing.
unholdOneOf(w) ==
    /\ nodesOnHold' = [nodesOnHold EXCEPT ![w] = IF @ = <<>> THEN @ ELSE Tail(@)]
    /\ UNCHANGED <<workerStatus, overdue, workingOn>>

markStale(w) ==
    /\ overdue[w]
    /\ workerStatus' = [workerStatus EXCEPT ![w] = "stale"]
    /\ UNCHANGED <<overdue, workingOn, nodesOnHold>>
=============================================================================
