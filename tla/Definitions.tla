---------------------------- MODULE Definitions ----------------------------
(***************************************************************************)
(* A workflow definition that is sent to the task manager: it is saved,    *)
(* parsed, and rejected or stored as a DAG (task-manager/src/workflows and *)
(* dag); the nodes of the stored DAG are then started as their incoming    *)
(* edges allow, and succeed.  Which worker runs a node, and failures, are  *)
(* the subject of module Scheduler, whose constants describe a DAG as this *)
(* module stores it.                                                       *)
(***************************************************************************)
EXTENDS DagParsing

CONSTANT Definition      \* the task lists that may be sent

ASSUME DefinitionAssumption == \A list \in Definition : IsDefinition(list)

VARIABLES
    tasks,               \* the definition that is sent
    workflow,            \* status of the workflow's document, "none" before save
    response,            \* "none", "created", or the error: "creation", "cycle"
    stack,               \* the nodes an error about a cycle names
    dag,                 \* the stored DAG, <<>> while there is none
    succeeded            \* the nodes that have succeeded

vars == <<tasks, workflow, response, stack, dag, succeeded>>

Init ==
    /\ tasks \in Definition
    /\ workflow = "none"
    /\ response = "none"
    /\ stack = <<>>
    /\ dag = <<>>
    /\ succeeded = {}

\* The workflow is saved before its definition is parsed.
SaveWorkflow ==
    /\ workflow = "none"
    /\ workflow' = "running"
    /\ UNCHANGED <<tasks, response, stack, dag, succeeded>>

\* The error reaches the client; the saved workflow stays as it is.
RejectDefinition ==
    LET result == parse(tasks)
    IN  /\ workflow = "running" /\ response = "none"
        /\ result.error # "none"
        /\ response' = result.error
        /\ stack' = result.stack
        /\ UNCHANGED <<tasks, workflow, dag, succeeded>>

SaveDag ==
    LET result == parse(tasks)
    IN  /\ workflow = "running" /\ response = "none"
        /\ result.error = "none"
        /\ dag' = converDAGToDto(result.edges)
        /\ response' = "created"
        /\ UNCHANGED <<tasks, workflow, stack, succeeded>>

Published == UNION {ToSet(tasks[n].results) : n \in succeeded}

IsReady(n) ==
    /\ n \notin succeeded
    /\ ~hasOpenDependencies(convertDtoToDAG(dag), n, succeeded, Published)

\* A node that may start is run and succeeds; its results are published.
RunNode(n) ==
    /\ response = "created"
    /\ IsReady(n)
    /\ succeeded' = succeeded \cup {n}
    /\ UNCHANGED <<tasks, workflow, response, stack, dag>>

Answered == response # "none"

Done ==
    /\ Answered
    /\ \A n \in DOMAIN dag : ~IsReady(n)
    /\ UNCHANGED vars

Next ==
    \/ SaveWorkflow
    \/ RejectDefinition
    \/ SaveDag
    \/ \E n \in DOMAIN tasks : RunNode(n)
    \/ Done

Spec == Init /\ [][Next]_vars

-----------------------------------------------------------------------------
(* What the definition says, for itself                                    *)

\* Node m depends on what node n provides.
Depends(n, m) ==
    \E d \in ToSet(tasks[m].dependencies) :
        /\ d.id \in DOMAIN Origins(tasks, d.type)
        /\ n = Origins(tasks, d.type)[d.id]

DependsOnOther(n, m) == n # m /\ Depends(n, m)

\* Each task of a knot depends on another one of it: the knots are the cycles, and
\* what contains one and depends on it.
IsKnot(knot) == knot # {} /\ \A m \in knot : \E n \in knot : DependsOnOther(n, m)

\* A definition is rejected for a cycle exactly when its dependencies, those of
\* a task on itself left aside, have one, whatever the order of its tasks and
\* dependencies in which the search meets them.
CyclesAreRejected ==
    Answered /\ response # "creation" =>
        ((response = "cycle") <=> \E knot \in SUBSET DOMAIN tasks : IsKnot(knot))

\* The nodes an error names are one path along the dependencies, and its last
\* node leads back to one of them.  (Not always to the first, although the
\* message ends with the first.)
ReportedNodesHoldACycle ==
    response = "cycle" =>
        /\ \A i \in 1..(Len(stack) - 1) : DependsOnOther(stack[i], stack[i + 1])
        /\ \E i \in 1..(Len(stack) - 1) : DependsOnOther(stack[Len(stack)], stack[i])

Ids(n) == {<<d.type, d.id>> : d \in ToSet(tasks[n].dependencies)}

\* Whether task m provides d, a name or an artifact.
Provides(m, d) == IF d[1] = "task" THEN tasks[m].name = d[2] ELSE Contains(tasks[m].results, d[2])

\* What an edge stands for: the name of the task it starts at is all a stored
\* edge keeps of a dependency on a task.
DependencyOf(e) ==
    <<e.conditionType, IF e.conditionType = "task" THEN tasks[e.from].name ELSE e.artifactId>>

\* Read back from the database, the DAG holds for every node just the
\* dependencies of its task, each starting at the last task of that name or with
\* that result, although every edge is stored twice and ids replace objects.
StoredDagIsTheDefinition ==
    \A n \in DOMAIN dag :
        LET incoming == incommingEdges(convertDtoToDAG(dag), n)
        IN  /\ {DependencyOf(e) : e \in incoming} = Ids(n)
            /\ \A e \in incoming :
                 /\ Provides(e.from, DependencyOf(e))
                 /\ \A m \in DOMAIN tasks : Provides(m, DependencyOf(e)) => m <= e.from

\* A workflow that was accepted never gets stuck while its tasks succeed: all of
\* them become ready.  A task that depends on itself is not found by the search
\* and never starts.
AcceptedWorkflowCanFinish ==
    /\ response = "created"
    /\ \A n \in DOMAIN dag : ~IsReady(n)
    /\ \A n \in DOMAIN tasks : ~Depends(n, n)
    => succeeded = DOMAIN tasks
=============================================================================
