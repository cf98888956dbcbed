----------------------------- MODULE DagService -----------------------------
(***************************************************************************)
(* The task manager's view of one workflow: a DAG whose nodes are the      *)
(* tasks of the workflow definition, kept in one MongoDB document          *)
(* (task-manager/src/dag).  Every update of the document is one atomic     *)
(* findOneAndUpdate, so every operator below that primes "status" is one   *)
(* step of whoever calls it.                                               *)
(*                                                                         *)
(* Node ids are w-<workflow>-t-<i>: a node is the index of its task in the *)
(* definition, and the order of the indices is the order of dag.nodes.     *)
(***************************************************************************)
EXTENDS Naturals

CONSTANTS
    NumTasks,          \* number of tasks in the workflow definition
    Artifact,          \* artifact ids the tasks produce and depend on
    TaskDeps,          \* TaskDeps[n]: tasks n depends on (type "task")
    ArtifactDeps,      \* ArtifactDeps[n]: artifacts n depends on
    Results,           \* Results[n]: artifacts task n uploads
    ArtifactCriteria,  \* completion criteria of node n of type "artifact"
    TaskCriteria,      \* completion criteria of node n of type "task"
    MaxRetryCount      \* MaxRetryCount[n]: retryPolicy.maxRetryCount

Node == 0..(NumTasks - 1)

\* What parse() guarantees of a definition it accepts: every dependency names
\* a task or a result of the definition.
ASSUME DagAssumption ==
    /\ NumTasks \in Nat
    /\ TaskDeps \in [Node -> SUBSET Node]
    /\ ArtifactDeps \in [Node -> SUBSET Artifact]
    /\ Results \in [Node -> SUBSET Artifact]
    /\ ArtifactCriteria \in [Node -> SUBSET Artifact]
    /\ TaskCriteria \in [Node -> SUBSET Node]
    /\ MaxRetryCount \in [Node -> Nat]

DagNodeStatus ==
    {"pending", "queued", "running", "failed", "succeeded", "canceled", "on-hold"}

VARIABLES
    status,            \* status[n]: nodes[n].status in the stored DAG
    retryCount         \* retryCount[n]: nodes[n].retryCount

dagVars == <<status, retryCount>>

DagTypeOK ==
    /\ status \in [Node -> DagNodeStatus]
    /\ retryCount \in [Node -> Nat]

\* A freshly parsed DAG.
NewDag == [n \in Node |-> "pending"]

DagInit ==
    /\ status = NewDag
    /\ retryCount = [n \in Node |-> 0]

-----------------------------------------------------------------------------
(* Status changes                                                          *)

\* Mutant of proceedingStatuses: a queued node may be queued again.
QueuedTwiceStatuses(s) ==
    CASE s = "queued"    -> {"pending", "failed", "queued"}
      [] s = "running"   -> {"queued", "on-hold"}
      [] s = "succeeded" -> {"running"}
      [] s = "failed"    -> {"running", "canceled"}
      [] s = "canceled"  -> {"pending"}
      [] s = "on-hold"   -> {"pending", "queued"}

\* Mutant of proceedingStatuses: any node may be put on hold.
HoldAnyStatuses(s) ==
    CASE s = "queued"    -> {"pending", "failed"}
      [] s = "running"   -> {"queued", "on-hold"}
      [] s = "succeeded" -> {"running"}
      [] s = "failed"    -> {"running", "canceled"}
      [] s = "canceled"  -> {"pending"}
      [] s = "on-hold"   -> DagNodeStatus

\* The statuses a node must be in to be given status s.
proceedingStatuses(s) ==
    CASE s = "queued"    -> {"pending", "failed"}
      [] s = "running"   -> {"queued", "on-hold"}
      [] s = "succeeded" -> {"running"}
      [] s = "failed"    -> {"running", "canceled"}
      [] s = "canceled"  -> {"pending"}
      [] s = "on-hold"   -> {"pending", "queued"}

\* The conditional part of setNodeStatus: the update matches a document.  The
\* id reported by a worker need not be the id of a node.
MayBecome(n, s) == n \in Node /\ status[n] \in proceedingStatuses(s)

\* The compare-and-set every markNodeAs... call makes.
setNodeStatus(n, s) ==
    /\ MayBecome(n, s)
    /\ status' = [status EXCEPT ![n] = s]

\* $inc of the retry count and the change to "failed", in one update.
increaseRetryCountOfNodeAndSetStatusFailed(n) ==
    /\ setNodeStatus(n, "failed")
    /\ retryCount' = [retryCount EXCEPT ![n] = @ + 1]

\* n comes first in the DAG's order among the nodes of S.
IsFirst(n, S) == n \in S /\ \A m \in S : n <= m

\* The positional operator "nodes.$" of the update stands for the first
\* matching element, so one call cancels one node.
cancelAllPendingTasksOf ==
    LET pending == {n \in Node : status[n] = "pending"}
    IN  \/ /\ pending = {}
           /\ UNCHANGED status
        \/ \E n \in pending : /\ IsFirst(n, pending)
                              /\ status' = [status EXCEPT ![n] = "canceled"]

-----------------------------------------------------------------------------
(* Questions asked of a copy of the DAG (a function from nodes to statuses *)
(* read earlier) and a set of published artifacts.                         *)

\* Mutants of hasOpenDependencies: artifact edges are ignored, a task edge is met
\* once its origin has left "pending".
ArtifactEdgesIgnored(n, dag, store) == \E m \in TaskDeps[n] : dag[m] # "succeeded"

MetOnceStarted(n, dag, store) ==
    \/ \E m \in TaskDeps[n] : dag[m] = "pending"
    \/ \E a \in ArtifactDeps[n] : a \notin store

\* The requirements of all incoming edges of n are not met: a task edge needs
\* its origin succeeded, an artifact edge its artifact in the store.
hasOpenDependencies(n, dag, store) ==
    \/ \E m \in TaskDeps[n] : dag[m] # "succeeded"
    \/ \E a \in ArtifactDeps[n] : a \notin store

getOutstandingTasksOfDag(dag, store) ==
    {n \in Node : dag[n] = "pending" /\ ~hasOpenDependencies(n, dag, store)}

\* The running nodes of the copy whose completion criteria the store meets; a
\* criterion of type "task" always counts as met, a node without criteria is
\* never completed this way.
nodesMeetingCriteria(dag, store) ==
    {n \in Node : /\ dag[n] = "running"
                  /\ ArtifactCriteria[n] \cup TaskCriteria[n] # {}
                  /\ ArtifactCriteria[n] \subseteq store}
=============================================================================
