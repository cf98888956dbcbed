---------------------------- MODULE HoldProofs ------------------------------
(***************************************************************************)
(* Proofs about the hold requests, for every workflow, any number of       *)
(* workers and any combination of faults: a task that has not failed is    *)
(* held once at most, success is final and its report is deserved.         *)
(*                                                                         *)
(* A request marks its task as on hold before it stores it.  That the mark *)
(* is refused to all but the first needs more than the mark: a task that   *)
(* is held, or is about to be stored, never becomes pending or queued      *)
(* again unless it fails (HoldNode).                                       *)
(***************************************************************************)
EXTENDS SchedulerHold, TLAPS

\* The handlers that queue tasks.
QueueingOps == {"create", "taskCompleted", "onArtifactUploaded", "taskFailed", "onWorkerStale"}

JobFields == {"op", "at", "node", "worker", "by", "tries", "dag", "store", "todo", "done",
              "task", "held", "workers"}

\* Only a hold request stores a task, and it has one.
HoldJob(j) ==
    /\ j = [f \in JobFields |-> j[f]]
    /\ j.at \in {"queue", "enqueue"} => j.op \in QueueingOps
    /\ j.at = "complete" => j.op = "onArtifactUploaded"
    /\ j.op = "checkForStaleWorkers" => j.at = "scan"
    /\ j.at = "push" => j.task \in Node

\* A handler that is not about to store a task.
Ordinary(j) == HoldJob(j) /\ j.at # "push"

Storing(n) == {j \in jobs : j.at = "push" /\ j.task = n}

\* The positions at which n is held.
HeldAt(n) ==
    UNION {{<<w, i>> : i \in {i \in 1..Len(nodesOnHold[w]) : nodesOnHold[w][i] = n}} : w \in Worker}

AtMostOne(S) == \A x, y \in S : x = y

\* A task that has not failed is stored or held once, and then no longer waits.
HoldNode(n) ==
    /\ status[n] = "failed" => retryCount[n] # 0
    /\ retryCount[n] = 0 =>
        /\ Storing(n) # {} \/ HeldAt(n) # {} => status[n] \notin {"pending", "queued"}
        /\ AtMostOne(Storing(n)) /\ AtMostOne(HeldAt(n))
        /\ Storing(n) = {} \/ HeldAt(n) = {}

HoldTypeOK ==
    /\ status \in [Node -> DagNodeStatus]
    /\ retryCount \in [Node -> Nat]
    /\ nodesOnHold \in [Worker -> Seq(Node)]

\* The inductive invariant.
HoldInv ==
    /\ HoldTypeOK
    /\ \A j \in jobs : HoldJob(j)
    /\ \A n \in Node : HoldNode(n)

-----------------------------------------------------------------------------
(* Steps that store no task.                                               *)

\* No task becomes pending or queued that was on its way or done, no failure is
\* forgotten.
StatusMovesOn ==
    /\ status' \in [Node -> DagNodeStatus]
    /\ retryCount' \in [Node -> Nat]
    /\ \A n \in Node : retryCount'[n] = 0 =>
         /\ retryCount[n] = 0
         /\ status'[n] # "failed" \/ status[n] = "failed"
         /\ status'[n] \in {"pending", "queued"} => status[n] \in {"pending", "queued", "failed"}

\* No worker gets a task to hold.
HoldsShrink ==
    /\ nodesOnHold' \in [Worker -> Seq(Node)]
    /\ \A w \in Worker : nodesOnHold'[w] \in {nodesOnHold[w], Tail(nodesOnHold[w])}
    /\ \A w \in Worker : nodesOnHold[w] = <<>> => nodesOnHold'[w] = <<>>

\* No handler gets to the point where it stores a task.
JobsOrdinary == \A i \in jobs' : i \in jobs \/ Ordinary(i)

LEMMA HeldPositions ==
    ASSUME NEW n, NEW w \in Worker, NEW i
    PROVE  /\ <<w, i>> \in HeldAt(n) <=> i \in 1..Len(nodesOnHold[w]) /\ nodesOnHold[w][i] = n
           /\ <<w, i>> \in HeldAt(n)' <=> i \in 1..Len(nodesOnHold'[w]) /\ nodesOnHold'[w][i] = n
BY DEF HeldAt

LEMMA HeldPairs ==
    ASSUME NEW n
    PROVE  /\ \A p \in HeldAt(n) : \E w \in Worker : \E i \in 1..Len(nodesOnHold[w]) : p = <<w, i>>
           /\ \A p \in HeldAt(n)' : \E w \in Worker : \E i \in 1..Len(nodesOnHold'[w]) : p = <<w, i>>
BY DEF HeldAt

\* A task that is not held does not appear on hold, one that is held once is
\* not held twice.
LEMMA ShrinkingHolds ==
    ASSUME HoldTypeOK, HoldsShrink, NEW n
    PROVE  /\ HeldAt(n) = {} => HeldAt(n)' = {}
           /\ AtMostOne(HeldAt(n)) => AtMostOne(HeldAt(n)')
<1>1. ASSUME NEW w \in Worker, NEW i, <<w, i>> \in HeldAt(n)'
      PROVE  \/ i \in Nat /\ nodesOnHold'[w] = nodesOnHold[w] /\ <<w, i>> \in HeldAt(n)
             \/ i \in Nat /\ nodesOnHold'[w] # nodesOnHold[w] /\ <<w, i + 1>> \in HeldAt(n)
  <2>1. nodesOnHold[w] \in Seq(Node)
    BY DEF HoldTypeOK
  <2>2. PICK q \in Seq(Node) : q = nodesOnHold[w]
    BY <2>1
  <2>3. i \in 1..Len(nodesOnHold'[w]) /\ nodesOnHold'[w][i] = n
    BY <1>1, HeldPositions
  <2>4. CASE nodesOnHold'[w] = nodesOnHold[w]
    BY <2>1, <2>3, <2>4, HeldPositions
  <2>5. CASE nodesOnHold'[w] # nodesOnHold[w]
    <3>1. q # <<>> /\ nodesOnHold'[w] = Tail(q)
      BY <2>2, <2>5 DEF HoldsShrink
    <3>2. Len(Tail(q)) = Len(q) - 1 /\ \A k \in 1..(Len(q) - 1) : Tail(q)[k] = q[k + 1]
      BY <3>1
    <3>3. i \in Nat /\ i + 1 \in 1..Len(q) /\ q[i + 1] = n
      BY <2>3, <3>1, <3>2
    <3>4. <<w, i + 1>> \in HeldAt(n)
      BY <2>2, <3>3, HeldPositions
    <3>5. QED
      BY <2>5, <3>3, <3>4
  <2>6. QED
    BY <2>4, <2>5
<1>2. HeldAt(n) = {} => HeldAt(n)' = {}
  BY <1>1, HeldPairs
<1>3. ASSUME AtMostOne(HeldAt(n)), NEW x \in HeldAt(n)', NEW y \in HeldAt(n)'
      PROVE  x = y
  <2>1. PICK v \in Worker : \E i \in 1..Len(nodesOnHold'[v]) : x = <<v, i>>
    BY HeldPairs
  <2>2. PICK i \in 1..Len(nodesOnHold'[v]) : x = <<v, i>>
    BY <2>1
  <2>3. PICK w \in Worker : \E k \in 1..Len(nodesOnHold'[w]) : y = <<w, k>>
    BY HeldPairs
  <2>4. PICK k \in 1..Len(nodesOnHold'[w]) : y = <<w, k>>
    BY <2>3
  <2>5. <<v, i>> \in HeldAt(n)' /\ <<w, k>> \in HeldAt(n)'
    BY <1>3, <2>2, <2>4
  <2>6. /\ i \in Nat /\ k \in Nat
        /\ <<v, i>> \in HeldAt(n) \/ <<v, i + 1>> \in HeldAt(n)
        /\ <<w, k>> \in HeldAt(n) \/ <<w, k + 1>> \in HeldAt(n)
    BY <1>1, <2>5
  <2>7. v = w
    <3>1. \A a, b : <<v, a>> \in HeldAt(n) /\ <<w, b>> \in HeldAt(n) => <<v, a>> = <<w, b>>
      BY <1>3 DEF AtMostOne
    <3>2. \A a, b : <<v, a>> = <<w, b>> => v = w
      OBVIOUS
    <3>3. QED
      BY <2>6, <3>1, <3>2
  <2>8. \/ <<w, i>> \in HeldAt(n) /\ <<w, k>> \in HeldAt(n)
        \/ <<w, i + 1>> \in HeldAt(n) /\ <<w, k + 1>> \in HeldAt(n)
    BY <1>1, <2>5, <2>7
  <2>9. i = k
    <3>1. CASE <<w, i>> \in HeldAt(n) /\ <<w, k>> \in HeldAt(n)
      <4>1. <<w, i>> = <<w, k>>
        BY <1>3, <3>1 DEF AtMostOne
      <4>2. QED
        BY <4>1
    <3>2. CASE <<w, i + 1>> \in HeldAt(n) /\ <<w, k + 1>> \in HeldAt(n)
      <4>1. <<w, i + 1>> = <<w, k + 1>>
        BY <1>3, <3>2 DEF AtMostOne
      <4>2. i + 1 = k + 1
        BY <4>1
      <4>3. QED
        BY <2>6, <4>2
    <3>3. QED
      BY <2>8, <3>1, <3>2
  <2>10. QED
    BY <2>2, <2>4, <2>7, <2>9
<1>4. QED
  BY <1>2, <1>3 DEF AtMostOne

\* A step that stores no task keeps the invariant.
LEMMA QuietHold ==
    ASSUME HoldInv, StatusMovesOn, HoldsShrink, JobsOrdinary
    PROVE  HoldInv'
<1>1. HoldTypeOK'
  BY DEF StatusMovesOn, HoldsShrink, HoldTypeOK
<1>2. \A j \in jobs' : HoldJob(j)'
  BY DEF HoldInv, JobsOrdinary, Ordinary, HoldJob
<1>3. ASSUME NEW n \in Node
      PROVE  HoldNode(n)'
  <2>1. Storing(n)' \subseteq Storing(n)
    BY DEF Storing, JobsOrdinary, Ordinary
  <2>2. /\ HeldAt(n) = {} => HeldAt(n)' = {}
        /\ AtMostOne(HeldAt(n)) => AtMostOne(HeldAt(n)')
    BY ShrinkingHolds DEF HoldInv
  <2>3. HoldNode(n)
    BY DEF HoldInv
  <2>4. retryCount'[n] = 0 => retryCount[n] = 0 /\ status[n] # "failed" /\ status'[n] # "failed"
    BY <2>3 DEF StatusMovesOn, HoldNode
  <2>5. ASSUME retryCount'[n] = 0
        PROVE  /\ Storing(n)' # {} \/ HeldAt(n)' # {} => status'[n] \notin {"pending", "queued"}
               /\ AtMostOne(Storing(n)') /\ AtMostOne(HeldAt(n)')
               /\ Storing(n)' = {} \/ HeldAt(n)' = {}
    BY <2>1, <2>2, <2>3, <2>4, <2>5 DEF HoldNode, StatusMovesOn, AtMostOne
  <2>6. QED
    BY <2>4, <2>5 DEF HoldNode, AtMostOne
<1>4. QED
  BY <1>1, <1>2, <1>3 DEF HoldInv

\* A step that changes neither the stored DAG nor a hold.
LEMMA HandlersOnly ==
    ASSUME HoldInv, UNCHANGED <<dagVars, nodesOnHold>>, JobsOrdinary
    PROVE  HoldInv'
<1>1. StatusMovesOn /\ HoldsShrink
  BY DEF HoldInv, HoldTypeOK, StatusMovesOn, HoldsShrink, dagVars
<1>2. QED
  BY <1>1, QuietHold

\* A step that changes the status of one task, but does not mark it as on hold.
LEMMA StatusOnly ==
    ASSUME HoldInv, UNCHANGED <<retryCount, nodesOnHold>>, JobsOrdinary,
           NEW n, NEW s \in {"queued", "running", "succeeded"}, setNodeStatus(n, s)
    PROVE  HoldInv'
<1>1. /\ n \in Node /\ status[n] \in proceedingStatuses(s) /\ status' = [status EXCEPT ![n] = s]
      /\ status \in [Node -> DagNodeStatus] /\ retryCount \in [Node -> Nat]
      /\ nodesOnHold \in [Worker -> Seq(Node)]
  BY DEF setNodeStatus, MayBecome, HoldInv, HoldTypeOK
<1>2. s = "queued" => status[n] \in {"pending", "failed"}
  BY <1>1 DEF proceedingStatuses
<1>3. \A m \in Node : status'[m] = IF m = n THEN s ELSE status[m]
  BY <1>1
<1>4. s \in DagNodeStatus /\ status' \in [Node -> DagNodeStatus]
  BY <1>1 DEF DagNodeStatus
<1>5. StatusMovesOn /\ HoldsShrink
  BY <1>1, <1>2, <1>3, <1>4 DEF StatusMovesOn, HoldsShrink
<1>6. QED
  BY <1>5, QuietHold

\* The successors of a handler.
LEMMA BecomeOrdinary ==
    ASSUME NEW j, NEW S, Become(j, S), \A i \in S : Ordinary(i)
    PROVE  JobsOrdinary
BY DEF Become, JobsOrdinary

\* A handler that may have one successor.
LEMMA BecomeOneOrdinary ==
    ASSUME NEW j, NEW i, Ordinary(i), Become(j, {i}) \/ Become(j, {})
    PROVE  JobsOrdinary
BY DEF Become, JobsOrdinary

\* A new handler stores no task.
LEMMA FreshOrdinary ==
    ASSUME NEW op, NEW at, NEW n,
           at \notin {"push", "queue", "enqueue", "complete"}, op # "checkForStaleWorkers"
    PROVE  /\ Ordinary(Job(op, at, n))
           /\ Job(op, at, n).op = op /\ Job(op, at, n).at = at
BY DEF Job, Ordinary, HoldJob, JobFields

\* A change of the fields that do not matter here.
LEMMA OtherFields ==
    ASSUME NEW j, Ordinary(j), NEW d, NEW t, NEW s, NEW w, NEW h, NEW b, NEW r
    PROVE  /\ Ordinary([j EXCEPT !.store = s])
           /\ Ordinary([j EXCEPT !.dag = d, !.todo = t])
           /\ Ordinary([j EXCEPT !.worker = w, !.by = b])
           /\ Ordinary([j EXCEPT !.workers = w])
           /\ Ordinary([j EXCEPT !.worker = w])
           /\ Ordinary([j EXCEPT !.tries = r])
           /\ Ordinary([j EXCEPT !.worker = w, !.by = b, !.tries = r, !.held = h])
BY DEF Ordinary, HoldJob, JobFields

LEMMA ScheduleNextOrdinary ==
    ASSUME NEW n
    PROVE  Ordinary(scheduleNextJob(n))
BY FreshOrdinary DEF scheduleNextJob

LEMMA ScheduleFreeOrdinary ==
    ASSUME NEW w, NEW by, NEW n, NEW tries
    PROVE  Ordinary(scheduleFreeJob(w, by, n, tries))
<1>1. PICK f : f = Job("scheduleFree", "take", n)
  OBVIOUS
<1>2. Ordinary(f)
  BY <1>1, FreshOrdinary
<1>3. scheduleFreeJob(w, by, n, tries)
          = [f EXCEPT !.worker = w, !.by = by, !.tries = tries, !.held = nodesOnHold[w]]
  BY <1>1 DEF scheduleFreeJob
<1>4. Ordinary([f EXCEPT !.worker = w, !.by = by, !.tries = tries, !.held = nodesOnHold[w]])
  BY <1>2, OtherFields
<1>5. QED
  BY <1>3, <1>4

LEMMA CompletionCheckOrdinary ==
    ASSUME NEW n, NEW dag, NEW store, NEW i \in checkCompletionCriteria(n, dag, store)
    PROVE  Ordinary(i)
<1>1. i = [Job("finishWorkflow", "write", n) EXCEPT !.store = store]
  BY DEF checkCompletionCriteria
<1>2. QED
  BY <1>1, FreshOrdinary, OtherFields

\* What follows the queueing of tasks stores none.
LEMMA AfterQueueingOrdinary ==
    ASSUME NEW k, k = [f \in JobFields |-> k[f]], k.op \in QueueingOps, NEW i \in AfterQueueing(k)
    PROVE  Ordinary(i)
<1>1. ASSUME NEW at \in {"free", "clear", "unhold"}
      PROVE  Ordinary([k EXCEPT !.at = at])
  BY DEF Ordinary, HoldJob, JobFields, QueueingOps
<1>2. CASE k.op = "create"
  BY <1>1, <1>2 DEF AfterQueueing
<1>3. CASE k.op = "taskCompleted"
  BY <1>3, CompletionCheckOrdinary, ScheduleNextOrdinary DEF AfterQueueing
<1>4. CASE k.op = "onArtifactUploaded"
  BY <1>4, ScheduleNextOrdinary DEF AfterQueueing
<1>5. CASE k.op = "taskFailed"
  BY <1>1, <1>5 DEF AfterQueueing
<1>6. CASE k.op = "onWorkerStale"
  BY <1>1, <1>6 DEF AfterQueueing
<1>7. QED
  BY <1>2, <1>3, <1>4, <1>5, <1>6 DEF QueueingOps

\* The same for the handler that goes on to queue the tasks of todo.
LEMMA QueueAllOrdinary ==
    ASSUME NEW k, k = [f \in JobFields |-> k[f]], k.op \in QueueingOps,
           NEW todo, NEW i \in QueueAll(k, todo)
    PROVE  Ordinary(i)
<1>1. CASE todo = {}
  <2>1. PICK c : c = [k EXCEPT !.todo = {}]
    OBVIOUS
  <2>2. c = [f \in JobFields |-> c[f]] /\ c.op = k.op
    BY <2>1 DEF JobFields
  <2>3. i \in AfterQueueing(c)
    BY <1>1, <2>1 DEF QueueAll
  <2>4. QED
    BY <2>2, <2>3, AfterQueueingOrdinary
<1>2. CASE todo # {}
  <2>1. i = [k EXCEPT !.at = "queue", !.todo = todo]
    BY <1>2 DEF QueueAll
  <2>2. QED
    BY <2>1 DEF Ordinary, HoldJob, JobFields, QueueingOps
<1>3. QED
  BY <1>1, <1>2

\* ... and for the one that goes on to complete them.
LEMMA CompleteAllOrdinary ==
    ASSUME NEW k, k = [f \in JobFields |-> k[f]], k.op = "onArtifactUploaded",
           NEW todo, NEW i \in CompleteAll(k, todo)
    PROVE  Ordinary(i)
<1>1. CASE todo = {}
  <2>1. PICK c : c = [k EXCEPT !.dag = NewDag, !.todo = {}]
    OBVIOUS
  <2>2. c = [f \in JobFields |-> c[f]] /\ c.op = k.op
    BY <2>1 DEF JobFields
  <2>3. i \in QueueAll(c, getOutstandingTasksOfDag(k.dag, k.store))
    BY <1>1, <2>1 DEF CompleteAll, queueOutStandingTasks
  <2>4. QED
    BY <2>2, <2>3, QueueAllOrdinary DEF QueueingOps
<1>2. CASE todo # {}
  <2>1. i = [k EXCEPT !.at = "complete", !.todo = todo]
    BY <1>2 DEF CompleteAll
  <2>2. QED
    BY <2>1 DEF Ordinary, HoldJob, JobFields
<1>3. QED
  BY <1>1, <1>2

-----------------------------------------------------------------------------
(* The steps of the handlers.                                              *)

LEMMA QueueingKeepsHolds ==
    ASSUME HoldInv, NEW j \in jobs,
           \/ MarkNodeAsQueued(j) \/ EnqueueNode(j) \/ AbandonQueueing(j)
           \/ ScheduleTasksForAllFreeWorkers(j) \/ FinishWorkflow(j) \/ OnDagFailed(j)
    PROVE  HoldInv'
<1>1. HoldJob(j)
  BY DEF HoldInv
<1>2. CASE MarkNodeAsQueued(j)
  <2>1. PICK n : setNodeStatus(n, "queued") /\ Become(j, {[j EXCEPT !.at = "enqueue", !.task = n]})
    BY <1>2 DEF MarkNodeAsQueued
  <2>2. Ordinary([j EXCEPT !.at = "enqueue", !.task = n])
    BY <1>1, <1>2 DEF MarkNodeAsQueued, Ordinary, HoldJob, JobFields
  <2>3. JobsOrdinary
    BY <2>1, <2>2, BecomeOrdinary
  <2>4. QED
    BY <1>2, <2>1, <2>3, StatusOnly DEF MarkNodeAsQueued, workerVars
<1>3. CASE EnqueueNode(j)
  <2>1. PICK k : k = [j EXCEPT !.task = None]
    OBVIOUS
  <2>2. k = [f \in JobFields |-> k[f]] /\ k.op \in QueueingOps
    BY <1>1, <1>3, <2>1 DEF EnqueueNode, HoldJob, JobFields
  <2>3. Become(j, QueueAll(k, j.todo \ {j.task}))
    BY <1>3, <2>1 DEF EnqueueNode
  <2>4. JobsOrdinary
    BY <2>2, <2>3, QueueAllOrdinary, BecomeOrdinary
  <2>5. QED
    BY <1>3, <2>4, HandlersOnly DEF EnqueueNode, workerVars
<1>4. CASE AbandonQueueing(j) \/ FinishWorkflow(j) \/ OnDagFailed(j)
  <2>1. Become(j, {}) /\ UNCHANGED <<dagVars, nodesOnHold>>
    BY <1>4 DEF AbandonQueueing, FinishWorkflow, OnDagFailed, workerVars
  <2>2. QED
    BY <2>1, BecomeOrdinary, HandlersOnly
<1>5. CASE ScheduleTasksForAllFreeWorkers(j)
  <2>1. /\ Become(j, {scheduleFreeJob(w, j.op, j.node, j.tries) : w \in findFreeWorkers})
        /\ UNCHANGED <<dagVars, nodesOnHold>>
    BY <1>5 DEF ScheduleTasksForAllFreeWorkers, workerVars
  <2>2. JobsOrdinary
    BY <2>1, ScheduleFreeOrdinary, BecomeOrdinary
  <2>3. QED
    BY <2>1, <2>2, HandlersOnly
<1>6. QED
  BY <1>2, <1>3, <1>4, <1>5

\* A failure is counted in the step that makes it: a task that has failed may
\* wait again.
LEMMA TaskFailedKeepsHolds ==
    ASSUME HoldInv, NEW j \in jobs, TaskFailed(j)
    PROVE  HoldInv'
<1>1. HoldJob(j) /\ j.op = "taskFailed"
  BY DEF HoldInv, TaskFailed
<1>2. PICK k : k = [j EXCEPT !.tries = retryCount[j.node] + 1]
  OBVIOUS
<1>3. k = [f \in JobFields |-> k[f]] /\ k.op = "taskFailed"
  BY <1>1, <1>2 DEF HoldJob, JobFields
<1>4. Become(j, IF k.tries > MaxRetryCount[j.node] THEN {[k EXCEPT !.at = "cancel"]}
                                                  ELSE QueueAll(k, {j.node}))
  BY <1>2 DEF TaskFailed
<1>5. Ordinary([k EXCEPT !.at = "cancel"])
  BY <1>3 DEF Ordinary, HoldJob, JobFields
<1>6. JobsOrdinary
  <2>1. CASE k.tries > MaxRetryCount[j.node]
    BY <1>4, <1>5, <2>1, BecomeOrdinary
  <2>2. CASE ~(k.tries > MaxRetryCount[j.node])
    BY <1>3, <1>4, <2>2, QueueAllOrdinary, BecomeOrdinary DEF QueueingOps
  <2>3. QED
    BY <2>1, <2>2
<1>7. PICK n \in Node : n = j.node
  BY DEF TaskFailed, increaseRetryCountOfNodeAndSetStatusFailed, setNodeStatus, MayBecome
<1>8. /\ status' = [status EXCEPT ![n] = "failed"] /\ retryCount' = [retryCount EXCEPT ![n] = @ + 1]
      /\ status \in [Node -> DagNodeStatus] /\ retryCount \in [Node -> Nat]
      /\ nodesOnHold \in [Worker -> Seq(Node)] /\ nodesOnHold' = nodesOnHold
  BY <1>7 DEF TaskFailed, increaseRetryCountOfNodeAndSetStatusFailed, setNodeStatus,
     HoldInv, HoldTypeOK, workerVars
<1>9. \A m \in Node : IF m = n THEN retryCount'[m] # 0
                               ELSE status'[m] = status[m] /\ retryCount'[m] = retryCount[m]
  BY <1>8
<1>10. status' \in [Node -> DagNodeStatus] /\ retryCount' \in [Node -> Nat]
  BY <1>8 DEF DagNodeStatus
<1>11. StatusMovesOn /\ HoldsShrink
  BY <1>8, <1>9, <1>10 DEF StatusMovesOn, HoldsShrink
<1>12. QED
  BY <1>6, <1>11, QuietHold

LEMMA CancelPendingTasksKeepsHolds ==
    ASSUME HoldInv, NEW j \in jobs, CancelPendingTasks(j)
    PROVE  HoldInv'
<1>1. HoldJob(j) /\ HoldTypeOK
  BY DEF HoldInv
<1>2. Ordinary([j EXCEPT !.at = "clear"])
  BY <1>1 DEF CancelPendingTasks, Ordinary, HoldJob, JobFields
<1>3. JobsOrdinary
  BY <1>2, BecomeOrdinary DEF CancelPendingTasks
<1>4. retryCount' = retryCount /\ nodesOnHold' = nodesOnHold
  BY DEF CancelPendingTasks, workerVars
<1>5. CASE UNCHANGED status
  BY <1>3, <1>4, <1>5, HandlersOnly DEF dagVars
<1>6. CASE status' # status
  <2>1. PICK n \in Node : status[n] = "pending" /\ status' = [status EXCEPT ![n] = "canceled"]
    BY <1>6 DEF CancelPendingTasks, cancelAllPendingTasksOf, IsFirst
  <2>2. \A m \in Node : status'[m] = IF m = n THEN "canceled" ELSE status[m]
    BY <1>1, <2>1 DEF HoldTypeOK
  <2>3. status' \in [Node -> DagNodeStatus]
    BY <1>1, <2>1 DEF HoldTypeOK, DagNodeStatus
  <2>4. StatusMovesOn /\ HoldsShrink
    BY <1>1, <1>4, <2>2, <2>3 DEF StatusMovesOn, HoldsShrink, HoldTypeOK
  <2>5. QED
    BY <1>3, <2>4, QuietHold
<1>7. QED
  BY <1>5, <1>6

LEMMA TaskEventsKeepHolds ==
    ASSUME HoldInv, NEW j \in jobs,
           \/ TaskStarted(j) \/ TaskCompleted(j) \/ TaskFailed(j)
           \/ CancelPendingTasks(j) \/ ClearWorkOfFailedTask(j)
    PROVE  HoldInv'
<1>1. HoldJob(j)
  BY DEF HoldInv
<1>2. CASE TaskStarted(j)
  BY <1>2, BecomeOrdinary, StatusOnly DEF TaskStarted, workerVars
<1>3. CASE TaskCompleted(j)
  <2>1. PICK k : k = [j EXCEPT !.dag = status']
    OBVIOUS
  <2>2. k = [f \in JobFields |-> k[f]] /\ k.op \in QueueingOps
    BY <1>1, <1>3, <2>1 DEF TaskCompleted, HoldJob, JobFields, QueueingOps
  <2>3. Become(j, QueueAll(k, getOutstandingTasksOfDag(status', findForDag)))
    BY <1>3, <2>1 DEF TaskCompleted, queueOutStandingTasks
  <2>4. JobsOrdinary
    BY <2>2, <2>3, QueueAllOrdinary, BecomeOrdinary
  <2>5. QED
    BY <1>3, <2>4, StatusOnly DEF TaskCompleted, workerVars
<1>4. CASE ClearWorkOfFailedTask(j)
  <2>1. PICK f : f = Job("onDagFailed", "write", j.node)
    OBVIOUS
  <2>2. Ordinary(f)
    BY <2>1, FreshOrdinary
  <2>3. Ordinary([f EXCEPT !.tries = j.tries])
    BY <2>2, OtherFields
  <2>4. Ordinary([j EXCEPT !.at = "free"])
    BY <1>1, <1>4 DEF ClearWorkOfFailedTask, Ordinary, HoldJob, JobFields
  <2>5. JobsOrdinary
    BY <1>4, <2>1, <2>3, <2>4, BecomeOrdinary DEF ClearWorkOfFailedTask
  <2>6. nodesOnHold' = nodesOnHold
    BY <1>4 DEF ClearWorkOfFailedTask, clearWorkOfWorkerWorkingOn, clearWorkOfWorker, workerVars
  <2>7. QED
    BY <1>4, <2>5, <2>6, HandlersOnly DEF ClearWorkOfFailedTask
<1>5. QED
  BY <1>2, <1>3, <1>4, TaskFailedKeepsHolds, CancelPendingTasksKeepsHolds

LEMMA ArtifactEventsKeepHolds ==
    ASSUME HoldInv, NEW j \in jobs,
           AddArtifact(j) \/ OnArtifactAdded(j) \/ OnArtifactUploaded(j) \/ UpdateDagNodeStati(j)
    PROVE  HoldInv'
<1>1. HoldJob(j)
  BY DEF HoldInv
<1>2. CASE AddArtifact(j)
  <2>1. PICK k : k = [j EXCEPT !.at = "read", !.store = findForDag \cup @]
    OBVIOUS
  <2>2. k = [f \in JobFields |-> k[f]] /\ k.at = "read"
    BY <1>1, <2>1 DEF HoldJob, JobFields
  <2>3. Ordinary([k EXCEPT !.op = "onArtifactUploaded"]) /\ Ordinary([k EXCEPT !.op = "onArtifactAdded"])
    BY <2>2 DEF Ordinary, HoldJob, JobFields
  <2>4. JobsOrdinary
    BY <1>2, <2>1, <2>3, BecomeOrdinary DEF AddArtifact
  <2>5. QED
    BY <1>2, <2>4, HandlersOnly DEF AddArtifact, workerVars
<1>3. CASE OnArtifactAdded(j)
  <2>1. JobsOrdinary
    BY <1>3, CompletionCheckOrdinary, BecomeOrdinary DEF OnArtifactAdded
  <2>2. QED
    BY <1>3, <2>1, HandlersOnly DEF OnArtifactAdded, workerVars
<1>4. CASE OnArtifactUploaded(j)
  <2>1. PICK k : k = [j EXCEPT !.dag = status]
    OBVIOUS
  <2>2. k = [f \in JobFields |-> k[f]] /\ k.op = "onArtifactUploaded"
    BY <1>1, <1>4, <2>1 DEF OnArtifactUploaded, HoldJob, JobFields
  <2>3. JobsOrdinary
    BY <1>4, <2>1, <2>2, CompleteAllOrdinary, BecomeOrdinary DEF OnArtifactUploaded
  <2>4. QED
    BY <1>4, <2>3, HandlersOnly DEF OnArtifactUploaded, workerVars
<1>5. CASE UpdateDagNodeStati(j)
  <2>1. j.op = "onArtifactUploaded" /\ retryCount' = retryCount /\ nodesOnHold' = nodesOnHold
    BY <1>1, <1>5 DEF UpdateDagNodeStati, HoldJob, workerVars
  <2>2. ASSUME NEW n, setNodeStatus(n, "succeeded"),
               Become(j, CompleteAll([j EXCEPT !.dag[n] = "succeeded", !.done = @ \cup {n}],
                                     j.todo \ {n}))
        PROVE  HoldInv'
    <3>1. PICK k : k = [j EXCEPT !.dag[n] = "succeeded", !.done = @ \cup {n}]
      OBVIOUS
    <3>2. k = [f \in JobFields |-> k[f]] /\ k.op = "onArtifactUploaded"
      BY <1>1, <2>1, <3>1 DEF HoldJob, JobFields
    <3>3. Become(j, CompleteAll(k, j.todo \ {n}))
      BY <2>2, <3>1
    <3>4. JobsOrdinary
      BY <3>2, <3>3, CompleteAllOrdinary, BecomeOrdinary
    <3>5. QED
      BY <2>1, <2>2, <3>4, StatusOnly
  <2>3. ASSUME NEW n, UNCHANGED status, Become(j, CompleteAll(j, j.todo \ {n}))
        PROVE  HoldInv'
    <3>1. JobsOrdinary
      BY <1>1, <2>1, <2>3, CompleteAllOrdinary, BecomeOrdinary DEF HoldJob
    <3>2. QED
      BY <2>1, <2>3, <3>1, HandlersOnly DEF dagVars
  <2>4. QED
    BY <1>5, <2>2, <2>3 DEF UpdateDagNodeStati
<1>6. QED
  BY <1>2, <1>3, <1>4, <1>5

\* A worker gives up the first of its tasks.
LEMMA UnholdKeepsHolds ==
    ASSUME HoldInv, UNCHANGED dagVars, JobsOrdinary, NEW w, unholdOneOf(w)
    PROVE  HoldInv'
<1>1. HoldTypeOK
  BY DEF HoldInv
<1>2. \A v \in Worker : nodesOnHold'[v] = IF v = w /\ nodesOnHold[v] # <<>> THEN Tail(nodesOnHold[v])
                                                                           ELSE nodesOnHold[v]
  BY <1>1 DEF unholdOneOf, HoldTypeOK
<1>3. \A q \in Seq(Node) : q # <<>> => Tail(q) \in Seq(Node)
  OBVIOUS
<1>4. nodesOnHold' \in [Worker -> Seq(Node)]
  BY <1>1, <1>3 DEF unholdOneOf, HoldTypeOK
<1>5. HoldsShrink
  BY <1>2, <1>4 DEF HoldsShrink
<1>6. StatusMovesOn
  BY <1>1 DEF dagVars, StatusMovesOn, HoldTypeOK
<1>7. QED
  BY <1>5, <1>6, QuietHold

LEMMA GivingWorkKeepsHolds ==
    ASSUME HoldInv, NEW j \in jobs,
           \/ FindWorkerWorkingOnNode(j) \/ TakeHeldTask(j) \/ TakeQueuedTask(j) \/ NothingToTake(j)
           \/ ClearWorkOfWorker(j) \/ AssignTask(j) \/ AssignmentRefused(j)
           \/ RequeueTask(j) \/ SendTask(j) \/ GetWorker(j) \/ UnholdTaskOfStaleWorker(j)
    PROVE  HoldInv'
<1>1. HoldJob(j) /\ HoldTypeOK
  BY DEF HoldInv
<1>2. UNCHANGED dagVars
  BY DEF FindWorkerWorkingOnNode, TakeHeldTask, TakeQueuedTask, NothingToTake, ClearWorkOfWorker,
     AssignTask, AssignmentRefused, RequeueTask, SendTask, GetWorker, UnholdTaskOfStaleWorker
<1>3. CASE FindWorkerWorkingOnNode(j)
  <2>1. ASSUME NEW w
        PROVE  Ordinary([j EXCEPT !.at = "take", !.worker = w, !.held = nodesOnHold[w]])
    BY <1>1, <1>3 DEF FindWorkerWorkingOnNode, Ordinary, HoldJob, JobFields
  <2>2. PICK w : \/ Become(j, {[j EXCEPT !.at = "take", !.worker = w, !.held = nodesOnHold[w]]})
                 \/ Become(j, {})
    BY <1>3 DEF FindWorkerWorkingOnNode
  <2>3. JobsOrdinary
    BY <2>1, <2>2, BecomeOneOrdinary
  <2>4. QED
    BY <1>2, <1>3, <2>3, HandlersOnly DEF FindWorkerWorkingOnNode, workerVars
<1>4. CASE TakeHeldTask(j)
  <2>1. Ordinary([j EXCEPT !.at = "assign", !.task = Head(j.held), !.held = <<>>])
    BY <1>1, <1>4 DEF TakeHeldTask, Ordinary, HoldJob, JobFields
  <2>2. JobsOrdinary
    BY <1>4, <2>1, BecomeOrdinary DEF TakeHeldTask
  <2>3. QED
    BY <1>2, <1>4, <2>2, UnholdKeepsHolds DEF TakeHeldTask
<1>5. CASE UnholdTaskOfStaleWorker(j)
  <2>1. JobsOrdinary
    BY <1>5, BecomeOrdinary DEF UnholdTaskOfStaleWorker
  <2>2. QED
    BY <1>2, <1>5, <2>1, UnholdKeepsHolds DEF UnholdTaskOfStaleWorker
<1>6. CASE TakeQueuedTask(j)
  <2>1. ASSUME NEW n
        PROVE  Ordinary([j EXCEPT !.at = "assign", !.task = n])
    BY <1>1, <1>6 DEF TakeQueuedTask, Ordinary, HoldJob, JobFields
  <2>2. PICK n : Become(j, {[j EXCEPT !.at = "assign", !.task = n]})
    BY <1>6 DEF TakeQueuedTask
  <2>3. JobsOrdinary
    BY <2>1, <2>2, BecomeOneOrdinary
  <2>4. QED
    BY <1>2, <1>6, <2>3, HandlersOnly DEF TakeQueuedTask, workerVars
<1>7. CASE NothingToTake(j)
  <2>1. Ordinary([j EXCEPT !.at = "clearWorker"])
    BY <1>1, <1>7 DEF NothingToTake, Ordinary, HoldJob, JobFields
  <2>2. Become(j, {[j EXCEPT !.at = "clearWorker"]}) \/ Become(j, {})
    BY <1>7 DEF NothingToTake
  <2>3. JobsOrdinary
    BY <2>1, <2>2, BecomeOneOrdinary
  <2>4. QED
    BY <1>2, <1>7, <2>3, HandlersOnly DEF NothingToTake, workerVars
<1>8. CASE ClearWorkOfWorker(j) \/ RequeueTask(j) \/ SendTask(j)
  <2>1. Become(j, {}) /\ nodesOnHold' = nodesOnHold
    BY <1>8 DEF ClearWorkOfWorker, clearWorkOfWorker, RequeueTask, SendTask, workerVars
  <2>2. JobsOrdinary
    BY <2>1, BecomeOrdinary
  <2>3. QED
    BY <1>2, <2>1, <2>2, HandlersOnly
<1>9. CASE AssignTask(j)
  <2>1. Ordinary([j EXCEPT !.at = "send"])
    BY <1>1, <1>9 DEF AssignTask, Ordinary, HoldJob, JobFields
  <2>2. JobsOrdinary
    BY <1>9, <2>1, BecomeOrdinary DEF AssignTask
  <2>3. QED
    BY <1>2, <1>9, <2>2, HandlersOnly DEF AssignTask, updateWorkOfWorker
<1>10. CASE AssignmentRefused(j)
  <2>1. Ordinary([j EXCEPT !.at = "requeue"])
    BY <1>1, <1>10 DEF AssignmentRefused, Ordinary, HoldJob, JobFields
  <2>2. JobsOrdinary
    BY <1>10, <2>1, BecomeOrdinary DEF AssignmentRefused
  <2>3. QED
    BY <1>2, <1>10, <2>2, HandlersOnly DEF AssignmentRefused, workerVars
<1>11. CASE GetWorker(j)
  <2>1. Ordinary([j EXCEPT !.at = "take", !.held = nodesOnHold[j.worker]])
    BY <1>1, <1>11 DEF GetWorker, Ordinary, HoldJob, JobFields
  <2>2. JobsOrdinary
    BY <1>11, <2>1, BecomeOrdinary DEF GetWorker
  <2>3. QED
    BY <1>2, <1>11, <2>2, HandlersOnly DEF GetWorker, workerVars
<1>12. QED
  BY <1>3, <1>4, <1>5, <1>6, <1>7, <1>8, <1>9, <1>10, <1>11

\* A held task of a worker that went stale would be queued again; being on
\* hold, it is refused.
LEMMA MarkWorkerStaleKeepsHolds ==
    ASSUME HoldInv, NEW j \in jobs, MarkWorkerStale(j)
    PROVE  HoldInv'
<1>1. HoldJob(j) /\ j.op = "checkForStaleWorkers"
  BY DEF HoldInv, MarkWorkerStale
<1>2. UNCHANGED <<dagVars, nodesOnHold>>
  BY DEF MarkWorkerStale, markStale
<1>3. \A rest : Ordinary([j EXCEPT !.workers = rest])
  BY <1>1 DEF Ordinary, HoldJob, JobFields
<1>4. ASSUME NEW n, NEW w
      PROVE  Ordinary([Job("onWorkerStale", "queue", n) EXCEPT !.worker = w, !.todo = {n}])
  BY DEF Job, Ordinary, HoldJob, JobFields, QueueingOps
<1>5. PICK w \in j.workers :
        LET rest == j.workers \ {w}
            held == {nodesOnHold[w][i] : i \in 1..Len(nodesOnHold[w])}
        IN  Become(j, (IF rest = {} THEN {} ELSE {[j EXCEPT !.workers = rest]})
                      \cup {[Job("onWorkerStale", "queue", n) EXCEPT !.worker = w, !.todo = {n}] :
                                n \in held})
  BY DEF MarkWorkerStale
<1>6. PICK rest, held :
        Become(j, (IF rest = {} THEN {} ELSE {[j EXCEPT !.workers = rest]})
                  \cup {[Job("onWorkerStale", "queue", n) EXCEPT !.worker = w, !.todo = {n}] : n \in held})
  BY <1>5
<1>7. ASSUME NEW i \in jobs', i \notin jobs
      PROVE  Ordinary(i)
  <2>1. \/ i = [j EXCEPT !.workers = rest]
        \/ \E n \in held : i = [Job("onWorkerStale", "queue", n) EXCEPT !.worker = w, !.todo = {n}]
    BY <1>6, <1>7 DEF Become
  <2>2. CASE i = [j EXCEPT !.workers = rest]
    BY <1>3, <2>2
  <2>3. ASSUME NEW n \in held,
               i = [Job("onWorkerStale", "queue", n) EXCEPT !.worker = w, !.todo = {n}]
        PROVE  Ordinary(i)
    BY <1>4, <2>3
  <2>4. QED
    BY <2>1, <2>2, <2>3
<1>8. JobsOrdinary
  BY <1>7 DEF JobsOrdinary
<1>9. QED
  BY <1>2, <1>8, HandlersOnly

\* A process that dies takes handlers with it.
LEMMA ProcessDiesKeepsHolds ==
    ASSUME HoldInv, NEW lost, ProcessDies(lost)
    PROVE  HoldInv'
<1>1. UNCHANGED <<dagVars, nodesOnHold>> /\ JobsOrdinary
  BY DEF ProcessDies, JobsOrdinary, workerVars
<1>2. QED
  BY <1>1, HandlersOnly

\* No operation of the scheduler stores a task.
LEMMA NextKeepsHolds ==
    ASSUME HoldInv, Next
    PROVE  HoldInv'
<1>1. CASE CreateWorkflow
  <2>1. PICK k : k = Job("create", "queue", None)
    OBVIOUS
  <2>2. k = [f \in JobFields |-> k[f]] /\ k.op \in QueueingOps
    BY <2>1 DEF Job, JobFields, QueueingOps
  <2>3. jobs' = jobs \cup QueueAll(k, getOutstandingTasksOfDag(NewDag, findForDag))
    BY <1>1, <2>1 DEF CreateWorkflow, queueOutStandingTasks
  <2>4. JobsOrdinary
    BY <2>2, <2>3, QueueAllOrdinary DEF JobsOrdinary
  <2>5. QED
    BY <1>1, <2>4, HandlersOnly DEF CreateWorkflow, workerVars
<1>2. ASSUME NEW j \in jobs, HandlerStep(j)
      PROVE  HoldInv'
  <2>1. CASE Reject(j)
    BY <2>1, ProcessDiesKeepsHolds DEF Reject
  <2>2. QED
    BY <1>2, <2>1, QueueingKeepsHolds, TaskEventsKeepHolds, ArtifactEventsKeepHolds,
       GivingWorkKeepsHolds, MarkWorkerStaleKeepsHolds DEF HandlerStep
<1>3. ASSUME NEW w \in Worker, Heartbeat(w)
      PROVE  HoldInv'
  <2>1. PICK f : f = Job("scheduleFree", "getWorker", None)
    OBVIOUS
  <2>2. Ordinary(f)
    BY <2>1, FreshOrdinary
  <2>3. Ordinary([f EXCEPT !.worker = w, !.by = "heartbeat"])
    BY <2>2, OtherFields
  <2>4. Ordinary(heartbeatJob(w))
    BY <2>1, <2>3 DEF heartbeatJob
  <2>5. JobsOrdinary
    BY <1>3, <2>4 DEF Heartbeat, JobsOrdinary
  <2>6. QED
    BY <1>3, <2>5, HandlersOnly DEF Heartbeat, processWorkerHeartbeat
<1>4. ASSUME NEW w \in Worker, HeartbeatExpires(w) \/ WorkerStops(w)
      PROVE  HoldInv'
  <2>1. UNCHANGED <<dagVars, nodesOnHold>> /\ JobsOrdinary
    BY <1>4 DEF HeartbeatExpires, WorkerStops, JobsOrdinary, workerVars
  <2>2. QED
    BY <2>1, HandlersOnly
<1>5. ASSUME NEW w \in Worker, WorkerStep(w)
      PROVE  HoldInv'
  <2>1. ASSUME NEW op \in {"taskStarted", "taskCompleted", "taskFailed", "addArtifact"},
               NEW at \in {"mark", "add"}, NEW n, NEW s
        PROVE  /\ Ordinary(Report(op, at, n, w))
               /\ Ordinary([Report(op, at, n, w) EXCEPT !.store = s])
    <3>1. PICK f : f = Job(op, at, n)
      OBVIOUS
    <3>2. Ordinary(f)
      BY <3>1, FreshOrdinary
    <3>3. Ordinary([f EXCEPT !.worker = w])
      BY <3>2, OtherFields
    <3>4. Ordinary(Report(op, at, n, w))
      BY <3>1, <3>3 DEF Report
    <3>5. QED
      BY <3>4, OtherFields
  <2>2. \E i : Ordinary(i) /\ jobs' = jobs \cup {i}
    BY <1>5, <2>1 DEF WorkerStep, WorkerStarts, WorkerRejects, WorkerCompletes,
       WorkerReportsArtifact, WorkerFails
  <2>3. JobsOrdinary
    BY <2>2 DEF JobsOrdinary
  <2>4. UNCHANGED <<dagVars, nodesOnHold>>
    BY <1>5 DEF WorkerStep, WorkerStarts, WorkerRejects, WorkerCompletes,
       WorkerReportsArtifact, WorkerFails, workerVars
  <2>5. QED
    BY <2>3, <2>4, HandlersOnly
<1>6. CASE CheckForStaleWorkers
  <2>1. PICK ws : jobs' = jobs \cup {[Job("checkForStaleWorkers", "scan", None) EXCEPT !.workers = ws]}
    BY <1>6 DEF CheckForStaleWorkers
  <2>2. Ordinary([Job("checkForStaleWorkers", "scan", None) EXCEPT !.workers = ws])
    BY DEF Job, Ordinary, HoldJob, JobFields
  <2>3. JobsOrdinary
    BY <2>1, <2>2 DEF JobsOrdinary
  <2>4. QED
    BY <1>6, <2>3, HandlersOnly DEF CheckForStaleWorkers, workerVars
<1>7. CASE Restart
  BY <1>7, ProcessDiesKeepsHolds DEF Restart
<1>8. QED
  BY <1>1, <1>2, <1>3, <1>4, <1>5, <1>6, <1>7 DEF Next

-----------------------------------------------------------------------------
(* The steps of a hold request.                                            *)

LEMMA RequestKeepsHolds ==
    ASSUME HoldInv, NEW w \in Worker, TaskHoldRequested(w)
    PROVE  HoldInv'
<1>1. PICK f : f = Job("taskHoldRequested", "dag", workingOn[w])
  OBVIOUS
<1>2. Ordinary(f)
  BY <1>1, FreshOrdinary
<1>3. Ordinary([f EXCEPT !.worker = w])
  BY <1>2, OtherFields
<1>4. JobsOrdinary
  BY <1>1, <1>3 DEF TaskHoldRequested, JobsOrdinary
<1>5. QED
  BY <1>4, HandlersOnly DEF TaskHoldRequested, workerVars

LEMMA NextAttemptOrdinary ==
    ASSUME NEW j, HoldJob(j), j.op # "checkForStaleWorkers", Become(j, NextAttempt(j))
    PROVE  JobsOrdinary
<1>1. Ordinary([j EXCEPT !.at = "dequeue", !.task = None, !.tries = @ + 1])
  BY DEF Ordinary, HoldJob, JobFields
<1>2. \/ Become(j, {[j EXCEPT !.at = "dequeue", !.task = None, !.tries = @ + 1]})
      \/ Become(j, {})
  BY DEF NextAttempt
<1>3. QED
  BY <1>1, <1>2, BecomeOneOrdinary

LEMMA ChoosingKeepsHolds ==
    ASSUME HoldInv, NEW j \in jobs, ReadDagForHold(j) \/ DequeueForHold(j)
    PROVE  HoldInv'
<1>1. HoldJob(j)
  BY DEF HoldInv
<1>2. UNCHANGED <<dagVars, nodesOnHold>>
  BY DEF ReadDagForHold, DequeueForHold, workerVars
<1>3. CASE ReadDagForHold(j)
  <2>1. ASSUME NEW n
        PROVE  Ordinary([j EXCEPT !.at = "mark", !.todo = {n}])
    BY <1>1, <1>3 DEF ReadDagForHold, Ordinary, HoldJob, JobFields
  <2>2. Ordinary([j EXCEPT !.at = "dequeue"])
    BY <1>1, <1>3 DEF ReadDagForHold, Ordinary, HoldJob, JobFields
  <2>3. \/ Become(j, {[j EXCEPT !.at = "dequeue"]})
        \/ \E n : Become(j, {[j EXCEPT !.at = "mark", !.todo = {n}]})
    BY <1>3 DEF ReadDagForHold
  <2>4. JobsOrdinary
    BY <2>1, <2>2, <2>3, BecomeOneOrdinary
  <2>5. QED
    BY <1>2, <2>4, HandlersOnly
<1>4. CASE DequeueForHold(j)
  <2>1. ASSUME NEW n
        PROVE  Ordinary([j EXCEPT !.at = "mark", !.task = n])
    BY <1>1, <1>4 DEF DequeueForHold, Ordinary, HoldJob, JobFields
  <2>2. j.op # "checkForStaleWorkers"
    BY <1>1, <1>4 DEF DequeueForHold, HoldJob
  <2>3. \/ Become(j, NextAttempt(j))
        \/ \E n : Become(j, {[j EXCEPT !.at = "mark", !.task = n]})
    BY <1>4 DEF DequeueForHold
  <2>4. JobsOrdinary
    <3>1. CASE Become(j, NextAttempt(j))
      BY <1>1, <2>2, <3>1, NextAttemptOrdinary
    <3>2. ASSUME NEW n, Become(j, {[j EXCEPT !.at = "mark", !.task = n]})
          PROVE  JobsOrdinary
      BY <2>1, <3>2, BecomeOneOrdinary
    <3>3. QED
      BY <2>3, <3>1, <3>2
  <2>5. QED
    BY <1>2, <2>4, HandlersOnly
<1>5. QED
  BY <1>3, <1>4

\* The mark is refused for a task that is held or about to be stored, unless it
\* has failed.
LEMMA MarkingKeepsHolds ==
    ASSUME HoldInv, NEW j \in jobs, MarkNodeAsOnHold(j)
    PROVE  HoldInv'
<1>1. /\ HoldJob(j) /\ j.op = "taskHoldRequested" /\ j.at = "mark"
      /\ retryCount' = retryCount /\ nodesOnHold' = nodesOnHold /\ HoldTypeOK
  BY DEF HoldInv, MarkNodeAsOnHold, workerVars
<1>2. CASE UNCHANGED status /\ (Become(j, {}) \/ Become(j, NextAttempt(j)))
  <2>1. JobsOrdinary
    BY <1>1, <1>2, NextAttemptOrdinary, BecomeOrdinary
  <2>2. QED
    BY <1>1, <1>2, <2>1, HandlersOnly DEF dagVars
<1>3. ASSUME NEW n, setNodeStatus(n, "on-hold"),
             Become(j, {[j EXCEPT !.at = "push", !.task = n, !.todo = {}]})
      PROVE  HoldInv'
  <2>1. /\ n \in Node /\ status[n] \in {"pending", "queued"}
        /\ status' = [status EXCEPT ![n] = "on-hold"]
    BY <1>3 DEF setNodeStatus, MayBecome, proceedingStatuses
  <2>2. PICK i : i = [j EXCEPT !.at = "push", !.task = n, !.todo = {}]
    OBVIOUS
  <2>3. HoldJob(i) /\ i.at = "push" /\ i.task = n
    BY <1>1, <2>1, <2>2 DEF HoldJob, JobFields
  <2>4. jobs' = (jobs \ {j}) \cup {i}
    BY <1>3, <2>2 DEF Become
  <2>5. HoldTypeOK'
    BY <1>1, <2>1 DEF HoldTypeOK, DagNodeStatus
  <2>6. \A k \in jobs' : HoldJob(k)'
    BY <2>3, <2>4 DEF HoldInv, HoldJob
  <2>7. ASSUME NEW m \in Node
        PROVE  HoldNode(m)'
    <3>1. HoldNode(m)
      BY DEF HoldInv
    <3>2. HeldAt(m)' = HeldAt(m)
      BY <1>1 DEF HeldAt
    <3>3. status'[m] = IF m = n THEN "on-hold" ELSE status[m]
      BY <1>1, <2>1 DEF HoldTypeOK
    <3>4. Storing(m)' = IF m = n THEN Storing(m) \cup {i} ELSE Storing(m)
      BY <1>1, <2>3, <2>4 DEF Storing
    <3>5. CASE m = n
      <4>1. retryCount[m] = 0 => Storing(m) = {} /\ HeldAt(m) = {}
        BY <2>1, <3>1, <3>5 DEF HoldNode
      <4>2. status'[m] = "on-hold" /\ Storing(m)' = Storing(m) \cup {i}
        BY <3>3, <3>4, <3>5
      <4>3. retryCount'[m] = 0 => Storing(m)' = {i} /\ HeldAt(m)' = {}
        BY <1>1, <3>2, <4>1, <4>2
      <4>4. QED
        BY <4>2, <4>3 DEF HoldNode, AtMostOne
    <3>6. CASE m # n
      BY <1>1, <3>1, <3>2, <3>3, <3>4, <3>6 DEF HoldNode, AtMostOne
    <3>7. QED
      BY <3>5, <3>6
  <2>8. QED
    BY <2>5, <2>6, <2>7 DEF HoldInv
<1>4. QED
  BY <1>2, <1>3 DEF MarkNodeAsOnHold

\* The task that is stored was about to be stored by this request alone and was
\* not held.
LEMMA StoringKeepsHolds ==
    ASSUME HoldInv, NEW j \in jobs, AddTaskToWorkerHold(j)
    PROVE  HoldInv'
<1>1. /\ HoldJob(j) /\ j.at = "push" /\ HoldTypeOK /\ Become(j, {})
      /\ status' = status /\ retryCount' = retryCount
      /\ nodesOnHold' = [nodesOnHold EXCEPT ![j.worker] = Append(@, j.task)]
  BY DEF HoldInv, AddTaskToWorkerHold, addTaskToWorkerHold, dagVars
<1>2. PICK n \in Node : n = j.task
  BY <1>1 DEF HoldJob
<1>3. PICK w : w = j.worker
  OBVIOUS
<1>4. \A v \in Worker : nodesOnHold'[v] = IF v = w THEN Append(nodesOnHold[v], n) ELSE nodesOnHold[v]
  BY <1>1, <1>2, <1>3 DEF HoldTypeOK
<1>5. nodesOnHold' \in [Worker -> Seq(Node)]
  <2>1. \A q \in Seq(Node) : Append(q, n) \in Seq(Node)
    OBVIOUS
  <2>2. QED
    BY <1>1, <1>2, <1>3, <2>1 DEF HoldTypeOK
<1>6. HoldTypeOK'
  BY <1>1, <1>5 DEF HoldTypeOK
<1>7. jobs' = jobs \ {j}
  BY <1>1 DEF Become
<1>8. \A k \in jobs' : HoldJob(k)'
  BY <1>7 DEF HoldInv, HoldJob
<1>9. ASSUME NEW m \in Node, NEW v \in Worker, NEW i
      PROVE  <<v, i>> \in HeldAt(m)' <=>
                 \/ <<v, i>> \in HeldAt(m)
                 \/ v = w /\ m = n /\ i = Len(nodesOnHold[v]) + 1
  <2>1. PICK q \in Seq(Node) : q = nodesOnHold[v]
    BY <1>1 DEF HoldTypeOK
  <2>2. CASE v # w
    BY <1>4, <2>2, HeldPositions
  <2>3. CASE v = w
    <3>1. nodesOnHold'[v] = Append(q, n)
      BY <1>4, <2>1, <2>3
    <3>2. /\ Len(q) \in Nat /\ Len(Append(q, n)) = Len(q) + 1
          /\ \A k \in 1..Len(q) : Append(q, n)[k] = q[k]
          /\ Append(q, n)[Len(q) + 1] = n
      <4>1. Len(q) \in Nat /\ Len(Append(q, n)) = Len(q) + 1
        OBVIOUS
      <4>2. \A k \in 1..Len(q) : Append(q, n)[k] = q[k]
        OBVIOUS
      <4>3. Append(q, n)[Len(q) + 1] = n
        OBVIOUS
      <4>4. QED
        BY <4>1, <4>2, <4>3
    <3>3. i \in 1..(Len(q) + 1) <=> i \in 1..Len(q) \/ i = Len(q) + 1
      <4>1. \A l \in Nat : 1..(l + 1) = 1..l \cup {l + 1}
        OBVIOUS
      <4>2. QED
        BY <3>2, <4>1
    <3>4. i \in 1..Len(q) => i # Len(q) + 1
      <4>1. \A l \in Nat : \A k \in 1..l : k # l + 1
        OBVIOUS
      <4>2. QED
        BY <3>2, <4>1
    <3>5. <<v, i>> \in HeldAt(m)' <=> i \in 1..(Len(q) + 1) /\ Append(q, n)[i] = m
      <4>1. <<v, i>> \in HeldAt(m)' <=> i \in 1..Len(nodesOnHold'[v]) /\ nodesOnHold'[v][i] = m
        BY HeldPositions
      <4>2. Len(nodesOnHold'[v]) = Len(q) + 1
        BY <3>1, <3>2
      <4>3. nodesOnHold'[v][i] = Append(q, n)[i]
        BY <3>1
      <4>4. QED
        BY <4>1, <4>2, <4>3, Zenon
    <3>6. <<v, i>> \in HeldAt(m) <=> i \in 1..Len(q) /\ q[i] = m
      BY <2>1, HeldPositions
    <3>7. QED
      BY <2>1, <2>3, <3>2, <3>3, <3>4, <3>5, <3>6
  <2>4. QED
    BY <2>2, <2>3
<1>10. ASSUME NEW m \in Node
       PROVE  HoldNode(m)'
  <2>1. HoldNode(m)
    BY DEF HoldInv
  <2>2. CASE m # n
    <3>1. Storing(m)' = Storing(m)
      BY <1>1, <1>2, <1>7, <2>2 DEF Storing
    <3>2. \A p \in HeldAt(m)' : p \in HeldAt(m)
      BY <1>9, <2>2, HeldPairs
    <3>3. QED
      BY <1>1, <2>1, <3>1, <3>2 DEF HoldNode, AtMostOne
  <2>3. CASE m = n
    <3>1. j \in Storing(m)
      BY <1>1, <1>2, <2>3 DEF Storing
    <3>2. Storing(m)' = Storing(m) \ {j}
      BY <1>7 DEF Storing
    <3>3. retryCount[m] = 0 => Storing(m)' = {} /\ HeldAt(m) = {}
      BY <2>1, <3>1, <3>2 DEF HoldNode, AtMostOne
    <3>4. retryCount[m] = 0 => \A p \in HeldAt(m)' : p = <<w, Len(nodesOnHold[w]) + 1>>
      BY <1>9, <2>3, <3>3, HeldPairs
    <3>5. retryCount[m] = 0 => status[m] \notin {"pending", "queued"}
      BY <2>1, <3>1 DEF HoldNode
    <3>6. QED
      BY <1>1, <2>1, <3>3, <3>4, <3>5 DEF HoldNode, AtMostOne
  <2>4. QED
    BY <2>2, <2>3
<1>11. QED
  BY <1>6, <1>8, <1>10 DEF HoldInv

LEMMA HoldNextKeepsHolds ==
    ASSUME HoldInv, [HoldNext]_vars
    PROVE  HoldInv'
<1>1. CASE UNCHANGED vars
  BY <1>1, HandlersOnly DEF vars, workerVars, JobsOrdinary
<1>2. CASE HoldNext
  BY <1>2, NextKeepsHolds, RequestKeepsHolds, ChoosingKeepsHolds, MarkingKeepsHolds,
     StoringKeepsHolds DEF HoldNext, HoldStep
<1>3. QED
  BY <1>1, <1>2

LEMMA InitHoldInv ==
    ASSUME Init
    PROVE  HoldInv
<1>1. HoldTypeOK
  BY DEF Init, DagInit, WorkersInit, NewDag, DagNodeStatus, HoldTypeOK
<1>2. \A n \in Node : HoldNode(n)
  <2>. SUFFICES ASSUME NEW n \in Node
                PROVE  HoldNode(n)
    OBVIOUS
  <2>1. Storing(n) = {}
    BY DEF Init, Storing
  <2>2. \A w \in Worker : Len(nodesOnHold[w]) = 0
    BY DEF Init, WorkersInit
  <2>3. HeldAt(n) = {}
    BY <2>2, HeldPairs
  <2>4. status[n] = "pending"
    BY DEF Init, DagInit, NewDag
  <2>5. QED
    BY <2>1, <2>3, <2>4 DEF HoldNode, AtMostOne
<1>3. QED
  BY <1>1, <1>2 DEF Init, HoldInv

\* The invariant holds in every state of the scheduler with hold requests.
THEOREM HoldAlways == HoldSpec => []HoldInv
<1>1. Init => HoldInv
  BY InitHoldInv
<1>2. HoldInv /\ [HoldNext]_vars => HoldInv'
  BY HoldNextKeepsHolds
<1>3. QED
  BY <1>1, <1>2, PTL DEF HoldSpec

\* A task that has not failed is held once at most, by one worker at most,
\* whatever copies of the DAG the requests decide on.
THEOREM HeldOnceAlways == HoldSpec => []HeldOnce
<1>1. HoldInv => HeldOnce
  <2>. SUFFICES ASSUME HoldInv, NEW v \in Worker, NEW w \in Worker,
                       NEW i \in 1..Len(nodesOnHold[v]), NEW k \in 1..Len(nodesOnHold[w]),
                       nodesOnHold[v][i] = nodesOnHold[w][k], retryCount[nodesOnHold[v][i]] = 0
                PROVE  v = w /\ i = k
    BY DEF HeldOnce
  <2>1. PICK n \in Node : n = nodesOnHold[v][i]
    BY DEF HoldInv, HoldTypeOK
  <2>2. <<v, i>> \in HeldAt(n) /\ <<w, k>> \in HeldAt(n)
    BY <2>1, HeldPositions
  <2>3. AtMostOne(HeldAt(n))
    BY <2>1 DEF HoldInv, HoldNode
  <2>4. <<v, i>> = <<w, k>>
    BY <2>2, <2>3 DEF AtMostOne
  <2>5. QED
    BY <2>4
<1>2. QED
  BY <1>1, HoldAlways, PTL

-----------------------------------------------------------------------------
(* Success is final: no change of a status starts from it.                 *)

\* The ways in which the status of a task changes.
StatusStep ==
    \/ UNCHANGED status
    \/ \E n \in Node : \E s \in {"queued", "running", "succeeded", "failed", "on-hold"} :
           setNodeStatus(n, s)
    \/ cancelAllPendingTasksOf

LEMMA HandlerStatusStep ==
    ASSUME NEW j, HandlerStep(j) \/ HoldStep(j)
    PROVE  StatusStep
<1>1. CASE \/ MarkNodeAsQueued(j) \/ TaskStarted(j) \/ TaskCompleted(j) \/ TaskFailed(j)
           \/ CancelPendingTasks(j) \/ UpdateDagNodeStati(j) \/ MarkNodeAsOnHold(j)
  BY <1>1 DEF MarkNodeAsQueued, TaskStarted, TaskCompleted, TaskFailed, CancelPendingTasks,
     UpdateDagNodeStati, MarkNodeAsOnHold, increaseRetryCountOfNodeAndSetStatusFailed,
     setNodeStatus, MayBecome, StatusStep
<1>2. CASE \/ EnqueueNode(j) \/ AbandonQueueing(j) \/ ScheduleTasksForAllFreeWorkers(j)
           \/ FinishWorkflow(j) \/ OnDagFailed(j) \/ ClearWorkOfFailedTask(j)
           \/ AddArtifact(j) \/ OnArtifactAdded(j) \/ OnArtifactUploaded(j) \/ Reject(j)
  BY <1>2 DEF EnqueueNode, AbandonQueueing, ScheduleTasksForAllFreeWorkers, FinishWorkflow,
     OnDagFailed, ClearWorkOfFailedTask, AddArtifact, OnArtifactAdded, OnArtifactUploaded,
     Reject, ProcessDies, dagVars, StatusStep
<1>3. CASE \/ FindWorkerWorkingOnNode(j) \/ TakeHeldTask(j) \/ TakeQueuedTask(j) \/ NothingToTake(j)
           \/ ClearWorkOfWorker(j) \/ AssignTask(j) \/ AssignmentRefused(j)
           \/ RequeueTask(j) \/ SendTask(j) \/ GetWorker(j)
           \/ MarkWorkerStale(j) \/ UnholdTaskOfStaleWorker(j)
  BY <1>3 DEF FindWorkerWorkingOnNode, TakeHeldTask, TakeQueuedTask, NothingToTake,
     ClearWorkOfWorker, AssignTask, AssignmentRefused, RequeueTask, SendTask, GetWorker,
     MarkWorkerStale, UnholdTaskOfStaleWorker, dagVars, StatusStep
<1>4. CASE ReadDagForHold(j) \/ DequeueForHold(j) \/ AddTaskToWorkerHold(j)
  BY <1>4 DEF ReadDagForHold, DequeueForHold, AddTaskToWorkerHold, dagVars, StatusStep
<1>5. QED
  BY <1>1, <1>2, <1>3, <1>4 DEF HandlerStep, HoldStep

LEMMA HoldNextStatusStep ==
    ASSUME [HoldNext]_vars
    PROVE  StatusStep
<1>1. CASE CreateWorkflow \/ CheckForStaleWorkers \/ Restart \/ UNCHANGED vars
  BY <1>1 DEF CreateWorkflow, CheckForStaleWorkers, Restart, ProcessDies, vars, dagVars, StatusStep
<1>2. ASSUME NEW w, \/ Heartbeat(w) \/ HeartbeatExpires(w) \/ WorkerStops(w) \/ WorkerStep(w)
                    \/ TaskHoldRequested(w)
      PROVE  StatusStep
  BY <1>2 DEF Heartbeat, HeartbeatExpires, WorkerStops, WorkerStep, WorkerStarts, WorkerRejects,
     WorkerCompletes, WorkerReportsArtifact, WorkerFails, TaskHoldRequested, dagVars, StatusStep
<1>3. QED
  BY <1>1, <1>2, HandlerStatusStep DEF HoldNext, Next

\* No status may follow "succeeded".
LEMMA SuccessStays ==
    ASSUME HoldTypeOK, [HoldNext]_vars, NEW n \in Node, status[n] = "succeeded"
    PROVE  status'[n] = "succeeded"
<1>1. status \in [Node -> DagNodeStatus] /\ StatusStep
  BY HoldNextStatusStep DEF HoldTypeOK
<1>2. ASSUME NEW m \in Node, NEW s \in {"queued", "running", "succeeded", "failed", "on-hold"},
             setNodeStatus(m, s)
      PROVE  status'[n] = "succeeded"
  <2>1. status[m] \in proceedingStatuses(s) /\ status' = [status EXCEPT ![m] = s]
    BY <1>2 DEF setNodeStatus, MayBecome
  <2>2. m # n
    BY <2>1 DEF proceedingStatuses
  <2>3. QED
    BY <1>1, <2>1, <2>2
<1>3. CASE cancelAllPendingTasksOf
  BY <1>1, <1>3 DEF cancelAllPendingTasksOf, IsFirst
<1>4. QED
  BY <1>1, <1>2, <1>3 DEF StatusStep

\* A task that has succeeded stays so, whatever request to hold it comes late.
THEOREM HeldSuccessIsFinal == HoldSpec => SucceededIsFinal
<1>1. HoldInv /\ [HoldNext]_vars =>
          \A n \in Node : status[n] = "succeeded" => status'[n] = "succeeded"
  BY SuccessStays DEF HoldInv
<1>2. QED
  BY <1>1, HoldAlways, PTL DEF HoldSpec, SucceededIsFinal

-----------------------------------------------------------------------------
(* The verdict is right: what the handlers have copied is no further than  *)
(* the stored DAG and the storage.                                         *)

\* The criteria of the workflow are met for the statuses st and the artifacts str.
MetIn(st, str) ==
    /\ \A m \in WorkflowTaskCriteria : st[m] = "succeeded"
    /\ WorkflowArtifactCriteria \subseteq str

\* What handler j has copied is no further than st and str.
CopyIn(j, st, str) ==
    /\ j.dag = [m \in Node |-> j.dag[m]]
    /\ \A m \in Node : j.dag[m] = "succeeded" => st[m] = "succeeded"
    /\ j.store \subseteq str
    /\ j.op = "finishWorkflow" => MetIn(st, str)

\* The inductive invariant of the verdict.
CopiesInv ==
    /\ \A j \in jobs : CopyIn(j, status, stored)
    /\ uploading \in [Worker -> SUBSET stored]
    /\ workflow = "succeeded" => MetIn(status, stored)

\* Tasks and artifacts stay.
Onward ==
    /\ \A m \in Node : status[m] = "succeeded" => status'[m] = "succeeded"
    /\ stored \subseteq stored'

\* The handlers that start or go on have copies that are no further than the truth.
CopiesMoveOn == \A i \in jobs' : i \in jobs \/ CopyIn(i, status', stored')

LEMMA OnwardMet ==
    ASSUME Onward
    PROVE  /\ MetIn(status, stored) => MetIn(status', stored')
           /\ \A j : CopyIn(j, status, stored) => CopyIn(j, status', stored')
<1>1. MetIn(status, stored) => MetIn(status', stored')
  BY SchedulerAssumption DEF Onward, MetIn
<1>2. QED
  BY <1>1 DEF Onward, CopyIn

\* A step of a handler keeps the invariant.
LEMMA CopiesKept ==
    ASSUME CopiesInv, Onward, CopiesMoveOn, UNCHANGED <<uploading, stored>>,
           workflow' = "succeeded" => workflow = "succeeded" \/ MetIn(status, stored)
    PROVE  CopiesInv'
<1>1. \A i \in jobs' : CopyIn(i, status', stored')
  BY OnwardMet DEF CopiesInv, CopiesMoveOn
<1>2. QED
  BY <1>1, OnwardMet DEF CopiesInv

\* A handler that goes on with its copies.
SameCopies(i, j) == i.op = j.op /\ i.dag = j.dag /\ i.store = j.store

\* A handler that has made none.
NoCopies(i) == i.op # "finishWorkflow" /\ i.dag = NewDag /\ i.store = {}

LEMMA SameOrNone ==
    ASSUME NEW st, NEW str
    PROVE  /\ \A i, j : SameCopies(i, j) /\ CopyIn(j, st, str) => CopyIn(i, st, str)
           /\ \A i : NoCopies(i) => CopyIn(i, st, str)
BY DEF SameCopies, NoCopies, CopyIn, NewDag

LEMMA FreshCopies ==
    ASSUME NEW op, op # "finishWorkflow", NEW at, NEW n
    PROVE  /\ NoCopies(Job(op, at, n))
           /\ \A w, by, ws, todo, tries :
                /\ NoCopies([Job(op, at, n) EXCEPT !.worker = w])
                /\ NoCopies([Job(op, at, n) EXCEPT !.worker = w, !.by = by])
                /\ NoCopies([Job(op, at, n) EXCEPT !.workers = ws])
                /\ NoCopies([Job(op, at, n) EXCEPT !.worker = w, !.todo = todo])
                /\ NoCopies([Job(op, at, n) EXCEPT !.tries = tries])
           /\ \A w, by, tries, held :
                NoCopies([Job(op, at, n) EXCEPT !.worker = w, !.by = by, !.tries = tries,
                                                !.held = held])
BY DEF Job, NoCopies

\* The verdict is taken on copies that are no further than the truth.
LEMMA VerdictOnCopies ==
    ASSUME NEW j, NEW st, NEW str, CopyIn(j, st, str), NEW n,
           NEW store, store \subseteq str, NEW i \in checkCompletionCriteria(n, j.dag, store)
    PROVE  CopyIn(i, st, str)
<1>1. /\ \A m \in WorkflowTaskCriteria : j.dag[m] = "succeeded"
      /\ WorkflowArtifactCriteria \subseteq store
      /\ i = [Job("finishWorkflow", "write", n) EXCEPT !.store = store]
  BY DEF checkCompletionCriteria
<1>2. MetIn(st, str)
  BY <1>1, SchedulerAssumption DEF CopyIn, MetIn
<1>3. i.dag = NewDag /\ i.store = store
  BY <1>1 DEF Job
<1>4. QED
  BY <1>2, <1>3 DEF CopyIn, NewDag

\* What follows the queueing of tasks has copies that are no further.
LEMMA QueueAllCopies ==
    ASSUME NEW k, k = [f \in JobFields |-> k[f]], k.op \in QueueingOps,
           NEW st, NEW str, CopyIn(k, st, str), NEW todo, NEW i \in QueueAll(k, todo)
    PROVE  CopyIn(i, st, str)
<1>1. CASE todo # {}
  <2>1. i = [k EXCEPT !.at = "queue", !.todo = todo]
    BY <1>1 DEF QueueAll
  <2>2. SameCopies(i, k)
    BY <2>1 DEF SameCopies, JobFields
  <2>3. QED
    BY <2>2, SameOrNone
<1>2. CASE todo = {}
  <2>1. PICK c : c = [k EXCEPT !.todo = {}]
    OBVIOUS
  <2>2. c = [f \in JobFields |-> c[f]] /\ SameCopies(c, k)
    BY <2>1 DEF JobFields, SameCopies
  <2>3. c.op \in QueueingOps /\ CopyIn(c, st, str) /\ i \in AfterQueueing(c)
    BY <1>2, <2>1, <2>2, SameOrNone DEF QueueAll, SameCopies
  <2>4. CASE c.op = "taskCompleted"
    <3>1. i \in checkCompletionCriteria(c.node, c.dag, findForDag) \/ i = scheduleNextJob(c.node)
      BY <2>3, <2>4 DEF AfterQueueing
    <3>2. NoCopies(scheduleNextJob(c.node))
      BY FreshCopies DEF scheduleNextJob
    <3>3. findForDag \subseteq str
      BY DEF findForDag
    <3>4. QED
      BY <2>3, <3>1, <3>2, <3>3, SameOrNone, VerdictOnCopies
  <2>5. CASE c.op = "onArtifactUploaded"
    <3>1. PICK n : i = scheduleNextJob(n)
      BY <2>3, <2>5 DEF AfterQueueing
    <3>2. NoCopies(i)
      BY <3>1, FreshCopies DEF scheduleNextJob
    <3>3. QED
      BY <3>2, SameOrNone
  <2>6. CASE c.op \in {"create", "taskFailed", "onWorkerStale"}
    <3>1. PICK at : i = [c EXCEPT !.at = at]
      BY <2>3, <2>6 DEF AfterQueueing
    <3>2. SameCopies(i, c)
      BY <2>2, <3>1 DEF SameCopies, JobFields
    <3>3. QED
      BY <2>3, <3>2, SameOrNone
  <2>7. QED
    BY <2>3, <2>4, <2>5, <2>6 DEF QueueingOps
<1>3. QED
  BY <1>1, <1>2

\* ... and so has what follows the completion of tasks.
LEMMA CompleteAllCopies ==
    ASSUME NEW k, k = [f \in JobFields |-> k[f]], k.op = "onArtifactUploaded",
           NEW st, NEW str, CopyIn(k, st, str), NEW todo, NEW i \in CompleteAll(k, todo)
    PROVE  CopyIn(i, st, str)
<1>1. CASE todo # {}
  <2>1. i = [k EXCEPT !.at = "complete", !.todo = todo]
    BY <1>1 DEF CompleteAll
  <2>2. SameCopies(i, k)
    BY <2>1 DEF SameCopies, JobFields
  <2>3. QED
    BY <2>2, SameOrNone
<1>2. CASE todo = {}
  <2>1. PICK c : c = [k EXCEPT !.dag = NewDag, !.todo = {}]
    OBVIOUS
  <2>2. c = [f \in JobFields |-> c[f]] /\ c.op = k.op /\ c.dag = NewDag /\ c.store = k.store
    BY <2>1 DEF JobFields
  <2>3. CopyIn(c, st, str)
    BY <2>2 DEF CopyIn, NewDag
  <2>4. i \in QueueAll(c, getOutstandingTasksOfDag(k.dag, k.store))
    BY <1>2, <2>1 DEF CompleteAll, queueOutStandingTasks
  <2>5. QED
    BY <2>2, <2>3, <2>4, QueueAllCopies DEF QueueingOps
<1>3. QED
  BY <1>1, <1>2

\* The handlers in flight, seen after the step.
LEMMA CopiesAfter ==
    ASSUME CopiesInv, HoldInv, [HoldNext]_vars, UNCHANGED stored, NEW j \in jobs
    PROVE  Onward /\ CopyIn(j, status', stored')
<1>1. Onward
  BY SuccessStays DEF Onward, HoldInv
<1>2. QED
  BY <1>1, OnwardMet DEF CopiesInv

-----------------------------------------------------------------------------
\* Handlers whose successors keep their copies or have none.
LEMMA PlainHandlers ==
    ASSUME HoldInv, CopiesInv, NEW j \in jobs,
           CopyIn(j, status', stored'),
           \A i \in jobs' : i \in jobs \/ SameCopies(i, j) \/ NoCopies(i)
    PROVE  CopiesMoveOn
BY SameOrNone DEF CopiesMoveOn

\* The fields that a step changes while the copies stay.
LEMMA OtherFieldsCopies ==
    ASSUME NEW j, j = [f \in JobFields |-> j[f]]
    PROVE  /\ \A at : SameCopies([j EXCEPT !.at = at], j)
           /\ \A at, n : SameCopies([j EXCEPT !.at = at, !.task = n], j)
           /\ \A at, h : SameCopies([j EXCEPT !.at = at, !.held = h], j)
           /\ \A at, n, h : SameCopies([j EXCEPT !.at = at, !.task = n, !.held = h], j)
           /\ \A at, w, h : SameCopies([j EXCEPT !.at = at, !.worker = w, !.held = h], j)
BY DEF SameCopies, JobFields

LEMMA PlainSteps ==
    ASSUME HoldInv, NEW j \in jobs,
           \/ MarkNodeAsQueued(j) \/ AbandonQueueing(j) \/ FinishWorkflow(j) \/ OnDagFailed(j)
           \/ TaskStarted(j) \/ CancelPendingTasks(j) \/ Reject(j)
           \/ FindWorkerWorkingOnNode(j) \/ TakeHeldTask(j) \/ TakeQueuedTask(j)
           \/ NothingToTake(j) \/ ClearWorkOfWorker(j) \/ AssignTask(j) \/ AssignmentRefused(j)
           \/ RequeueTask(j) \/ SendTask(j) \/ GetWorker(j) \/ UnholdTaskOfStaleWorker(j)
           \/ ReadDagForHold(j) \/ DequeueForHold(j) \/ MarkNodeAsOnHold(j)
           \/ AddTaskToWorkerHold(j)
    PROVE  \A i \in jobs' : i \in jobs \/ SameCopies(i, j) \/ NoCopies(i)
<1>1. j = [f \in JobFields |-> j[f]]
  BY DEF HoldInv, HoldJob
<1>2. ASSUME NEW i, SameCopies(i, j), Become(j, {i}) \/ Become(j, {})
      PROVE  \A k \in jobs' : k \in jobs \/ SameCopies(k, j)
  BY <1>2 DEF Become
<1>3. CASE \/ MarkNodeAsQueued(j) \/ CancelPendingTasks(j)
           \/ FindWorkerWorkingOnNode(j) \/ TakeHeldTask(j) \/ TakeQueuedTask(j)
           \/ NothingToTake(j) \/ AssignTask(j) \/ AssignmentRefused(j) \/ GetWorker(j)
  <2>1. CASE MarkNodeAsQueued(j)
    <3>1. PICK n : Become(j, {[j EXCEPT !.at = "enqueue", !.task = n]})
      BY <2>1 DEF MarkNodeAsQueued
    <3>2. QED
      BY <1>1, <1>2, <3>1, OtherFieldsCopies
  <2>2. CASE CancelPendingTasks(j) \/ AssignTask(j) \/ AssignmentRefused(j) \/ NothingToTake(j)
    <3>1. PICK at : Become(j, {[j EXCEPT !.at = at]}) \/ Become(j, {})
      BY <2>2 DEF CancelPendingTasks, AssignTask, AssignmentRefused, NothingToTake
    <3>2. QED
      BY <1>1, <1>2, <3>1, OtherFieldsCopies
  <2>3. CASE FindWorkerWorkingOnNode(j)
    <3>1. PICK w : \/ Become(j, {[j EXCEPT !.at = "take", !.worker = w, !.held = nodesOnHold[w]]})
                   \/ Become(j, {})
      BY <2>3 DEF FindWorkerWorkingOnNode
    <3>2. QED
      BY <1>1, <1>2, <3>1, OtherFieldsCopies
  <2>4. CASE GetWorker(j)
    <3>1. Become(j, {[j EXCEPT !.at = "take", !.held = nodesOnHold[j.worker]]})
      BY <2>4 DEF GetWorker
    <3>2. QED
      BY <1>1, <1>2, <3>1, OtherFieldsCopies
  <2>5. CASE TakeHeldTask(j)
    <3>1. Become(j, {[j EXCEPT !.at = "assign", !.task = Head(j.held), !.held = <<>>]})
      BY <2>5 DEF TakeHeldTask
    <3>2. QED
      BY <1>1, <1>2, <3>1, OtherFieldsCopies
  <2>6. CASE TakeQueuedTask(j)
    <3>1. PICK n : Become(j, {[j EXCEPT !.at = "assign", !.task = n]})
      BY <2>6 DEF TakeQueuedTask
    <3>2. QED
      BY <1>1, <1>2, <3>1, OtherFieldsCopies
  <2>7. QED
    BY <1>3, <2>1, <2>2, <2>3, <2>4, <2>5, <2>6
<1>4. ASSUME NEW i \in jobs', i \notin jobs, ReadDagForHold(j)
      PROVE  SameCopies(i, j)
  <2>1. \/ i = [j EXCEPT !.at = "dequeue"]
        \/ \E n : i = [j EXCEPT !.at = "mark", !.todo = {n}]
    BY <1>4 DEF ReadDagForHold, Become
  <2>2. QED
    BY <1>1, <2>1 DEF SameCopies, JobFields
<1>5. ASSUME NEW i \in jobs', i \notin jobs, DequeueForHold(j) \/ MarkNodeAsOnHold(j)
      PROVE  SameCopies(i, j)
  <2>1. \/ \E n : i = [j EXCEPT !.at = "mark", !.task = n]
        \/ \E n : i = [j EXCEPT !.at = "push", !.task = n, !.todo = {}]
        \/ i = [j EXCEPT !.at = "dequeue", !.task = None, !.tries = @ + 1]
    BY <1>5 DEF DequeueForHold, MarkNodeAsOnHold, NextAttempt, Become
  <2>2. QED
    BY <1>1, <2>1 DEF SameCopies, JobFields
<1>6. ASSUME \/ AbandonQueueing(j) \/ FinishWorkflow(j) \/ OnDagFailed(j) \/ TaskStarted(j)
             \/ ClearWorkOfWorker(j) \/ RequeueTask(j) \/ SendTask(j)
             \/ UnholdTaskOfStaleWorker(j) \/ AddTaskToWorkerHold(j) \/ Reject(j)
      PROVE  jobs' \subseteq jobs
  BY <1>6 DEF AbandonQueueing, FinishWorkflow, OnDagFailed, TaskStarted, ClearWorkOfWorker,
     RequeueTask, SendTask, UnholdTaskOfStaleWorker, AddTaskToWorkerHold, Reject, ProcessDies, Become
<1>7. QED
  BY <1>3, <1>4, <1>5, <1>6

LEMMA ReleasingSteps ==
    ASSUME HoldInv, NEW j \in jobs,
           ScheduleTasksForAllFreeWorkers(j) \/ ClearWorkOfFailedTask(j) \/ MarkWorkerStale(j)
    PROVE  \A i \in jobs' : i \in jobs \/ SameCopies(i, j) \/ NoCopies(i)
<1>1. j = [f \in JobFields |-> j[f]]
  BY DEF HoldInv, HoldJob
<1>2. ASSUME NEW i \in jobs', i \notin jobs, ScheduleTasksForAllFreeWorkers(j)
      PROVE  NoCopies(i)
  <2>1. PICK w : i = scheduleFreeJob(w, j.op, j.node, j.tries)
    BY <1>2 DEF ScheduleTasksForAllFreeWorkers, Become
  <2>2. QED
    BY <2>1, FreshCopies DEF scheduleFreeJob
<1>3. ASSUME NEW i \in jobs', i \notin jobs, ClearWorkOfFailedTask(j)
      PROVE  SameCopies(i, j) \/ NoCopies(i)
  <2>1. \/ i = [Job("onDagFailed", "write", j.node) EXCEPT !.tries = j.tries]
        \/ i = [j EXCEPT !.at = "free"]
    BY <1>3 DEF ClearWorkOfFailedTask, Become
  <2>2. NoCopies([Job("onDagFailed", "write", j.node) EXCEPT !.tries = j.tries])
    BY FreshCopies
  <2>3. SameCopies([j EXCEPT !.at = "free"], j)
    BY <1>1 DEF SameCopies, JobFields
  <2>4. QED
    BY <2>1, <2>2, <2>3
<1>4. ASSUME NEW i \in jobs', i \notin jobs, MarkWorkerStale(j)
      PROVE  SameCopies(i, j) \/ NoCopies(i)
  <2>1. PICK w, rest, held :
          Become(j, (IF rest = {} THEN {} ELSE {[j EXCEPT !.workers = rest]})
                    \cup {[Job("onWorkerStale", "queue", n) EXCEPT !.worker = w, !.todo = {n}] : n \in held})
    BY <1>4 DEF MarkWorkerStale
  <2>2. \/ i = [j EXCEPT !.workers = rest]
        \/ \E n \in held : i = [Job("onWorkerStale", "queue", n) EXCEPT !.worker = w, !.todo = {n}]
    BY <1>4, <2>1 DEF Become
  <2>3. SameCopies([j EXCEPT !.workers = rest], j)
    BY <1>1 DEF SameCopies, JobFields
  <2>4. \A n : NoCopies([Job("onWorkerStale", "queue", n) EXCEPT !.worker = w, !.todo = {n}])
    BY FreshCopies
  <2>5. QED
    BY <2>2, <2>3, <2>4
<1>5. QED
  BY <1>2, <1>3, <1>4

\* Handlers that queue tasks, or take a verdict.
LEMMA QueueingSteps ==
    ASSUME HoldInv, NEW j \in jobs, CopyIn(j, status', stored'),
           EnqueueNode(j) \/ TaskCompleted(j) \/ TaskFailed(j)
    PROVE  CopiesMoveOn
<1>1. HoldJob(j) /\ j = [f \in JobFields |-> j[f]]
  BY DEF HoldInv, HoldJob
<1>2. ASSUME NEW k, k = [f \in JobFields |-> k[f]], k.op \in QueueingOps,
             CopyIn(k, status', stored'), NEW todo, Become(j, QueueAll(k, todo))
      PROVE  CopiesMoveOn
  BY <1>2, QueueAllCopies DEF Become, CopiesMoveOn
<1>3. CASE EnqueueNode(j)
  <2>1. PICK k : k = [j EXCEPT !.task = None]
    OBVIOUS
  <2>2. k = [f \in JobFields |-> k[f]] /\ SameCopies(k, j) /\ j.op \in QueueingOps
    BY <1>1, <1>3, <2>1 DEF EnqueueNode, HoldJob, SameCopies, JobFields
  <2>3. CopyIn(k, status', stored') /\ k.op \in QueueingOps
    BY <2>2, SameOrNone DEF SameCopies
  <2>4. Become(j, QueueAll(k, j.todo \ {j.task}))
    BY <1>3, <2>1 DEF EnqueueNode
  <2>5. QED
    BY <1>2, <2>2, <2>3, <2>4
<1>4. CASE TaskCompleted(j)
  <2>1. PICK k : k = [j EXCEPT !.dag = status']
    OBVIOUS
  <2>2. /\ k = [f \in JobFields |-> k[f]] /\ k.op = "taskCompleted"
        /\ k.dag = status' /\ k.store = j.store
    BY <1>1, <1>4, <2>1 DEF TaskCompleted, JobFields
  <2>3. status' = [m \in Node |-> status'[m]]
    BY <1>4 DEF TaskCompleted, setNodeStatus, HoldInv, HoldTypeOK
  <2>4. CopyIn(k, status', stored')
    BY <2>2, <2>3 DEF CopyIn
  <2>5. Become(j, QueueAll(k, getOutstandingTasksOfDag(status', findForDag)))
    BY <1>4, <2>1 DEF TaskCompleted, queueOutStandingTasks
  <2>6. QED
    BY <1>2, <2>2, <2>4, <2>5 DEF QueueingOps
<1>5. CASE TaskFailed(j)
  <2>1. PICK k : k = [j EXCEPT !.tries = retryCount[j.node] + 1]
    OBVIOUS
  <2>2. k = [f \in JobFields |-> k[f]] /\ SameCopies(k, j) /\ k.op = "taskFailed"
    BY <1>1, <1>5, <2>1 DEF TaskFailed, SameCopies, JobFields
  <2>3. CopyIn(k, status', stored')
    BY <2>2, SameOrNone
  <2>4. \/ Become(j, {[k EXCEPT !.at = "cancel"]})
        \/ Become(j, QueueAll(k, {j.node}))
    BY <1>5, <2>1 DEF TaskFailed
  <2>5. CASE Become(j, {[k EXCEPT !.at = "cancel"]})
    <3>1. SameCopies([k EXCEPT !.at = "cancel"], k)
      BY <2>2 DEF SameCopies, JobFields
    <3>2. CopyIn([k EXCEPT !.at = "cancel"], status', stored')
      BY <2>3, <3>1, SameOrNone
    <3>3. QED
      BY <2>5, <3>2 DEF Become, CopiesMoveOn
  <2>6. CASE Become(j, QueueAll(k, {j.node}))
    BY <1>2, <2>2, <2>3, <2>6 DEF QueueingOps
  <2>7. QED
    BY <2>4, <2>5, <2>6
<1>6. QED
  BY <1>3, <1>4, <1>5

\* Handlers that deal with an artifact.
LEMMA ArtifactSteps ==
    ASSUME HoldInv, NEW j \in jobs, CopyIn(j, status', stored'),
           AddArtifact(j) \/ OnArtifactAdded(j) \/ OnArtifactUploaded(j) \/ UpdateDagNodeStati(j)
    PROVE  CopiesMoveOn
<1>1. HoldJob(j) /\ j = [f \in JobFields |-> j[f]]
  BY DEF HoldInv, HoldJob
<1>2. status \in [Node -> DagNodeStatus]
  BY DEF HoldInv, HoldTypeOK
<1>3. ASSUME NEW k, k = [f \in JobFields |-> k[f]], k.op = "onArtifactUploaded",
             CopyIn(k, status', stored'), NEW todo, Become(j, CompleteAll(k, todo))
      PROVE  CopiesMoveOn
  BY <1>3, CompleteAllCopies DEF Become, CopiesMoveOn
<1>4. CASE AddArtifact(j)
  <2>1. PICK k : k = [j EXCEPT !.at = "read", !.store = findForDag \cup @]
    OBVIOUS
  <2>2. k = [f \in JobFields |-> k[f]] /\ k.dag = j.dag /\ k.store = j.store
    BY <1>1, <2>1 DEF JobFields, findForDag
  <2>3. PICK u, a : u = [k EXCEPT !.op = "onArtifactUploaded"] /\ a = [k EXCEPT !.op = "onArtifactAdded"]
    OBVIOUS
  <2>4. /\ u.op = "onArtifactUploaded" /\ u.dag = j.dag /\ u.store = j.store
        /\ a.op = "onArtifactAdded" /\ a.dag = j.dag /\ a.store = j.store
    BY <2>2, <2>3 DEF JobFields
  <2>5. CopyIn(u, status', stored') /\ CopyIn(a, status', stored')
    BY <2>4 DEF CopyIn
  <2>6. Become(j, {u, a})
    BY <1>4, <2>1, <2>3 DEF AddArtifact
  <2>7. QED
    BY <2>5, <2>6 DEF Become, CopiesMoveOn
<1>5. CASE OnArtifactAdded(j)
  <2>1. PICK k : k = [j EXCEPT !.dag = status]
    OBVIOUS
  <2>2. k.dag = status /\ k.store = j.store /\ k.op = "onArtifactAdded"
    BY <1>1, <1>5, <2>1 DEF OnArtifactAdded, JobFields
  <2>3. status' = status
    BY <1>5 DEF OnArtifactAdded, dagVars
  <2>4. CopyIn(k, status', stored') /\ j.store \subseteq stored'
    BY <1>2, <2>2, <2>3 DEF CopyIn
  <2>5. Become(j, checkCompletionCriteria(j.node, k.dag, j.store))
    BY <1>5, <2>2 DEF OnArtifactAdded
  <2>6. QED
    BY <2>4, <2>5, VerdictOnCopies DEF Become, CopiesMoveOn
<1>6. CASE OnArtifactUploaded(j)
  <2>1. PICK k : k = [j EXCEPT !.dag = status]
    OBVIOUS
  <2>2. /\ k = [f \in JobFields |-> k[f]] /\ k.op = "onArtifactUploaded"
        /\ k.dag = status /\ k.store = j.store
    BY <1>1, <1>6, <2>1 DEF OnArtifactUploaded, JobFields
  <2>3. status' = status
    BY <1>6 DEF OnArtifactUploaded, dagVars
  <2>4. CopyIn(k, status', stored')
    BY <1>2, <2>2, <2>3 DEF CopyIn
  <2>5. Become(j, CompleteAll(k, nodesMeetingCriteria(status, j.store)))
    BY <1>6, <2>1 DEF OnArtifactUploaded
  <2>6. QED
    BY <1>3, <2>2, <2>4, <2>5
<1>7. CASE UpdateDagNodeStati(j)
  <2>1. j.op = "onArtifactUploaded"
    BY <1>1, <1>7 DEF UpdateDagNodeStati, HoldJob
  <2>2. ASSUME NEW n, setNodeStatus(n, "succeeded"),
               Become(j, CompleteAll([j EXCEPT !.dag[n] = "succeeded", !.done = @ \cup {n}],
                                     j.todo \ {n}))
        PROVE  CopiesMoveOn
    <3>1. PICK k : k = [j EXCEPT !.dag[n] = "succeeded", !.done = @ \cup {n}]
      OBVIOUS
    <3>2. /\ k = [f \in JobFields |-> k[f]] /\ k.op = "onArtifactUploaded"
          /\ k.dag = [j.dag EXCEPT ![n] = "succeeded"] /\ k.store = j.store
      BY <1>1, <2>1, <3>1 DEF JobFields
    <3>3. n \in Node /\ status' = [status EXCEPT ![n] = "succeeded"]
      BY <2>2 DEF setNodeStatus, MayBecome
    <3>4. status'[n] = "succeeded"
      BY <1>2, <3>3
    <3>5. PICK d : d = j.dag
      OBVIOUS
    <3>6. /\ k.dag = [m \in Node |-> k.dag[m]]
          /\ \A m \in Node : k.dag[m] = "succeeded" => m = n \/ d[m] = "succeeded"
      <4>1. d = [m \in Node |-> d[m]] /\ k.dag = [d EXCEPT ![n] = "succeeded"]
        BY <3>2, <3>5 DEF CopyIn
      <4>2. QED
        BY <4>1
    <3>7. CopyIn(k, status', stored')
      BY <3>2, <3>4, <3>5, <3>6 DEF CopyIn
    <3>8. Become(j, CompleteAll(k, j.todo \ {n}))
      BY <2>2, <3>1
    <3>9. QED
      BY <1>3, <3>2, <3>7, <3>8
  <2>3. ASSUME NEW n, Become(j, CompleteAll(j, j.todo \ {n}))
        PROVE  CopiesMoveOn
    BY <1>1, <1>3, <2>1, <2>3
  <2>4. QED
    BY <1>7, <2>2, <2>3 DEF UpdateDagNodeStati
<1>8. QED
  BY <1>4, <1>5, <1>6, <1>7

LEMMA HandlersKeepCopies ==
    ASSUME HoldInv, CopiesInv, NEW j \in jobs, HandlerStep(j) \/ HoldStep(j), [HoldNext]_vars
    PROVE  CopiesInv'
<1>1. UNCHANGED <<uploading, stored>>
  <2>1. CASE \/ MarkNodeAsQueued(j) \/ EnqueueNode(j) \/ AbandonQueueing(j)
             \/ ScheduleTasksForAllFreeWorkers(j) \/ FinishWorkflow(j) \/ OnDagFailed(j)
             \/ TaskStarted(j) \/ TaskCompleted(j) \/ TaskFailed(j) \/ CancelPendingTasks(j)
             \/ ClearWorkOfFailedTask(j) \/ AddArtifact(j) \/ OnArtifactAdded(j)
             \/ OnArtifactUploaded(j) \/ UpdateDagNodeStati(j) \/ Reject(j)
    BY <2>1 DEF MarkNodeAsQueued, EnqueueNode, AbandonQueueing, ScheduleTasksForAllFreeWorkers,
       FinishWorkflow, OnDagFailed, TaskStarted, TaskCompleted, TaskFailed, CancelPendingTasks,
       ClearWorkOfFailedTask, AddArtifact, OnArtifactAdded, OnArtifactUploaded,
       UpdateDagNodeStati, Reject, ProcessDies, processVars
  <2>2. CASE \/ FindWorkerWorkingOnNode(j) \/ TakeHeldTask(j) \/ TakeQueuedTask(j) \/ NothingToTake(j)
             \/ ClearWorkOfWorker(j) \/ AssignTask(j) \/ AssignmentRefused(j)
             \/ RequeueTask(j) \/ SendTask(j) \/ GetWorker(j)
             \/ MarkWorkerStale(j) \/ UnholdTaskOfStaleWorker(j)
    BY <2>2 DEF FindWorkerWorkingOnNode, TakeHeldTask, TakeQueuedTask, NothingToTake,
       ClearWorkOfWorker, AssignTask, AssignmentRefused, RequeueTask, SendTask, deliver, GetWorker,
       MarkWorkerStale, UnholdTaskOfStaleWorker, processVars
  <2>3. CASE ReadDagForHold(j) \/ DequeueForHold(j) \/ MarkNodeAsOnHold(j) \/ AddTaskToWorkerHold(j)
    BY <2>3 DEF ReadDagForHold, DequeueForHold, MarkNodeAsOnHold, AddTaskToWorkerHold, processVars
  <2>4. QED
    BY <2>1, <2>2, <2>3 DEF HandlerStep, HoldStep
<1>2. Onward /\ CopyIn(j, status', stored')
  BY <1>1, CopiesAfter
<1>3. CopiesMoveOn
  <2>1. CASE \A i \in jobs' : i \in jobs \/ SameCopies(i, j) \/ NoCopies(i)
    BY <1>2, <2>1, PlainHandlers
  <2>2. QED
    BY <1>2, <2>1, PlainSteps, ReleasingSteps, QueueingSteps, ArtifactSteps DEF HandlerStep, HoldStep
<1>4. workflow' = "succeeded" => workflow = "succeeded" \/ MetIn(status, stored)
  <2>1. CASE FinishWorkflow(j)
    BY <2>1 DEF FinishWorkflow, CopiesInv, CopyIn
  <2>2. CASE OnDagFailed(j)
    BY <2>2 DEF OnDagFailed
  <2>3. CASE \/ MarkNodeAsQueued(j) \/ EnqueueNode(j) \/ AbandonQueueing(j)
             \/ ScheduleTasksForAllFreeWorkers(j)
             \/ TaskStarted(j) \/ TaskCompleted(j) \/ TaskFailed(j) \/ CancelPendingTasks(j)
             \/ ClearWorkOfFailedTask(j) \/ AddArtifact(j) \/ OnArtifactAdded(j)
             \/ OnArtifactUploaded(j) \/ UpdateDagNodeStati(j) \/ Reject(j)
    BY <2>3 DEF MarkNodeAsQueued, EnqueueNode, AbandonQueueing, ScheduleTasksForAllFreeWorkers,
       TaskStarted, TaskCompleted, TaskFailed, CancelPendingTasks,
       ClearWorkOfFailedTask, AddArtifact, OnArtifactAdded, OnArtifactUploaded,
       UpdateDagNodeStati, Reject, ProcessDies
  <2>4. CASE \/ FindWorkerWorkingOnNode(j) \/ TakeHeldTask(j) \/ TakeQueuedTask(j) \/ NothingToTake(j)
             \/ ClearWorkOfWorker(j) \/ AssignTask(j) \/ AssignmentRefused(j)
             \/ RequeueTask(j) \/ SendTask(j) \/ GetWorker(j)
             \/ MarkWorkerStale(j) \/ UnholdTaskOfStaleWorker(j)
    BY <2>4 DEF FindWorkerWorkingOnNode, TakeHeldTask, TakeQueuedTask, NothingToTake,
       ClearWorkOfWorker, AssignTask, AssignmentRefused, RequeueTask, SendTask, GetWorker,
       MarkWorkerStale, UnholdTaskOfStaleWorker
  <2>5. CASE ReadDagForHold(j) \/ DequeueForHold(j) \/ MarkNodeAsOnHold(j) \/ AddTaskToWorkerHold(j)
    BY <2>5 DEF ReadDagForHold, DequeueForHold, MarkNodeAsOnHold, AddTaskToWorkerHold
  <2>6. QED
    BY <2>1, <2>2, <2>3, <2>4, <2>5 DEF HandlerStep, HoldStep
<1>5. QED
  BY <1>1, <1>2, <1>3, <1>4, CopiesKept

\* A worker reports an artifact once it is in the storage.
LEMMA WorkersKeepCopies ==
    ASSUME HoldInv, CopiesInv, NEW w \in Worker, WorkerStep(w) \/ WorkerStops(w)
    PROVE  CopiesInv'
<1>1. workflow' = workflow /\ status' = status /\ uploading \in [Worker -> SUBSET stored]
  BY DEF CopiesInv, WorkerStep, WorkerStarts, WorkerRejects, WorkerCompletes,
     WorkerReportsArtifact, WorkerFails, WorkerStops, dagVars
<1>2. ASSUME Onward, uploading' \in [Worker -> SUBSET stored'], CopiesMoveOn
      PROVE  CopiesInv'
  <2>1. \A i \in jobs' : CopyIn(i, status', stored')
    BY <1>2, OnwardMet DEF CopiesInv, CopiesMoveOn
  <2>2. workflow' = "succeeded" => MetIn(status', stored')
    BY <1>1, <1>2, OnwardMet DEF CopiesInv
  <2>3. QED
    BY <1>2, <2>1, <2>2 DEF CopiesInv
<1>3. ASSUME NEW op \in {"taskStarted", "taskCompleted", "taskFailed"}, NEW n, NEW st, NEW str
      PROVE  CopyIn(Report(op, "mark", n, w), st, str)
  BY FreshCopies, SameOrNone DEF Report
<1>4. CASE WorkerStarts(w) \/ WorkerRejects(w) \/ WorkerFails(w)
  <2>1. /\ stored' = stored /\ uploading' = uploading
        /\ \E n : \E op \in {"taskStarted", "taskFailed"} :
                jobs' = jobs \cup {Report(op, "mark", n, w)}
    BY <1>4 DEF WorkerStarts, WorkerRejects, WorkerFails, StartTask, RejectTask, FailTask
  <2>2. CopiesMoveOn
    BY <1>3, <2>1 DEF CopiesMoveOn
  <2>3. QED
    BY <1>1, <1>2, <2>1, <2>2 DEF Onward
<1>5. CASE WorkerCompletes(w)
  <2>1. PICK n \in Node : CompleteTask(w, n) /\ jobs' = jobs \cup {Report("taskCompleted", "mark", n, w)}
    BY <1>5 DEF WorkerCompletes
  <2>2. stored' = stored \cup Results[n] /\ uploading' = [uploading EXCEPT ![w] = Results[n]]
    BY <2>1 DEF CompleteTask
  <2>3. uploading' \in [Worker -> SUBSET stored']
    BY <1>1, <2>2
  <2>4. CopiesMoveOn
    BY <1>3, <2>1 DEF CopiesMoveOn
  <2>5. QED
    BY <1>1, <1>2, <2>2, <2>3, <2>4 DEF Onward
<1>6. CASE WorkerReportsArtifact(w)
  <2>1. PICK a \in uploading[w] :
            /\ ReportArtifact(w, a)
            /\ jobs' = jobs \cup {[Report("addArtifact", "add", executing[w], w) EXCEPT !.store = {a}]}
    BY <1>6 DEF WorkerReportsArtifact
  <2>2. stored' = stored /\ uploading' = [uploading EXCEPT ![w] = @ \ {a}] /\ a \in stored
    BY <1>1, <2>1 DEF ReportArtifact
  <2>3. uploading' \in [Worker -> SUBSET stored']
    BY <1>1, <2>2
  <2>4. PICK i : i = [Report("addArtifact", "add", executing[w], w) EXCEPT !.store = {a}]
    OBVIOUS
  <2>5. i.dag = NewDag /\ i.store = {a} /\ i.op = "addArtifact"
    BY <2>4 DEF Report, Job
  <2>6. CopyIn(i, status', stored')
    BY <2>2, <2>5 DEF CopyIn, NewDag
  <2>7. CopiesMoveOn
    BY <2>1, <2>4, <2>6 DEF CopiesMoveOn
  <2>8. QED
    BY <1>1, <1>2, <2>2, <2>3, <2>7 DEF Onward
<1>7. CASE WorkerStops(w)
  <2>1. jobs' = jobs /\ stored' = stored /\ uploading' = [uploading EXCEPT ![w] = {}]
    BY <1>7 DEF WorkerStops, StopWorker
  <2>2. uploading' \in [Worker -> SUBSET stored']
    BY <1>1, <2>1
  <2>3. QED
    BY <1>1, <1>2, <2>1, <2>2 DEF Onward, CopiesMoveOn
<1>8. QED
  BY <1>4, <1>5, <1>6, <1>7 DEF WorkerStep

LEMMA HoldNextKeepsCopies ==
    ASSUME HoldInv, CopiesInv, [HoldNext]_vars
    PROVE  CopiesInv'
<1>1. CASE UNCHANGED vars
  <2>1. CopiesMoveOn /\ Onward
    BY <1>1 DEF vars, dagVars, processVars, CopiesMoveOn, Onward
  <2>2. QED
    BY <1>1, <2>1, CopiesKept DEF vars, processVars
<1>2. ASSUME NEW j \in jobs, HandlerStep(j) \/ HoldStep(j)
      PROVE  CopiesInv'
  BY <1>2, HandlersKeepCopies
<1>3. CASE CreateWorkflow
  <2>1. PICK k : k = Job("create", "queue", None)
    OBVIOUS
  <2>2. k = [f \in JobFields |-> k[f]] /\ k.op \in QueueingOps
    BY <2>1 DEF Job, JobFields, QueueingOps
  <2>3. NoCopies(k)
    BY <2>1, FreshCopies
  <2>4. jobs' = jobs \cup QueueAll(k, getOutstandingTasksOfDag(NewDag, findForDag))
    BY <1>3, <2>1 DEF CreateWorkflow, queueOutStandingTasks
  <2>5. CopiesMoveOn
    BY <2>2, <2>3, <2>4, SameOrNone, QueueAllCopies DEF CopiesMoveOn
  <2>6. QED
    BY <1>3, <2>5, CopiesKept DEF CreateWorkflow, dagVars, processVars, Onward
<1>4. ASSUME NEW w \in Worker, Heartbeat(w) \/ HeartbeatExpires(w) \/ TaskHoldRequested(w)
      PROVE  CopiesInv'
  <2>1. NoCopies(heartbeatJob(w))
    BY FreshCopies DEF heartbeatJob
  <2>2. \A n : NoCopies([Job("taskHoldRequested", "dag", n) EXCEPT !.worker = w])
    BY FreshCopies
  <2>3. \A i \in jobs' : i \in jobs \/ NoCopies(i)
    BY <1>4, <2>1, <2>2 DEF Heartbeat, HeartbeatExpires, TaskHoldRequested
  <2>4. CopiesMoveOn
    BY <2>3, SameOrNone DEF CopiesMoveOn
  <2>5. UNCHANGED <<status, uploading, stored, workflow>>
    BY <1>4 DEF Heartbeat, HeartbeatExpires, TaskHoldRequested, dagVars, processVars
  <2>6. QED
    BY <2>4, <2>5, CopiesKept DEF Onward
<1>5. CASE CheckForStaleWorkers
  <2>1. PICK ws : jobs' = jobs \cup {[Job("checkForStaleWorkers", "scan", None) EXCEPT !.workers = ws]}
    BY <1>5 DEF CheckForStaleWorkers
  <2>2. NoCopies([Job("checkForStaleWorkers", "scan", None) EXCEPT !.workers = ws])
    BY FreshCopies
  <2>3. CopiesMoveOn
    BY <2>1, <2>2, SameOrNone DEF CopiesMoveOn
  <2>4. QED
    BY <1>5, <2>3, CopiesKept DEF CheckForStaleWorkers, dagVars, processVars, Onward
<1>6. CASE Restart
  <2>1. CopiesMoveOn /\ UNCHANGED <<status, uploading, stored, workflow>>
    BY <1>6 DEF Restart, ProcessDies, dagVars, processVars, CopiesMoveOn
  <2>2. QED
    BY <2>1, CopiesKept DEF Onward
<1>7. QED
  BY <1>1, <1>2, <1>3, <1>4, <1>5, <1>6, WorkersKeepCopies DEF HoldNext, Next

\* A workflow that is reported as succeeded meets its criteria, with hold
\* requests as well: the handler that takes the verdict does so on a copy of the
\* DAG and a store that are no further than the stored DAG and the storage.
THEOREM HeldSuccessIsDeserved == HoldSpec => []SucceededWorkflowMeetsCriteria
<1>1. Init => CopiesInv
  BY DEF Init, ProcessInit, CopiesInv
<1>2. HoldInv /\ CopiesInv /\ [HoldNext]_vars => CopiesInv'
  BY HoldNextKeepsCopies
<1>3. CopiesInv => SucceededWorkflowMeetsCriteria
  BY DEF CopiesInv, MetIn, SucceededWorkflowMeetsCriteria
<1>4. QED
  BY <1>1, <1>2, <1>3, HoldAlways, PTL DEF HoldSpec
=============================================================================
