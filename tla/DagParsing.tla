----------------------------- MODULE DagParsing -----------------------------
(***************************************************************************)
(* From a workflow definition to the DAG the scheduler works on            *)
(* (task-manager/src/dag): parse, the form in which a DAG is stored, and   *)
(* what is read back.                                                      *)
(*                                                                         *)
(* tasks is a sequence of records with the fields name, dependencies (a    *)
(* sequence of [type, id], the type "task" or "artifact") and results (a   *)
(* sequence of artifacts).  A node is the position of its task: an object  *)
(* in memory, and an id "w-<workflow>-t-<position>" in the database.       *)
(***************************************************************************)
EXTENDS CycleDetector

IsSeq(s) == s \in Seq(ToSet(s))

\* What is parsed is a list of tasks that have lists of dependencies and results.
IsDefinition(tasks) ==
    IsSeq(tasks) /\ \A n \in DOMAIN tasks :
        /\ IsSeq(tasks[n].dependencies) /\ IsSeq(tasks[n].results)
        /\ \A d \in ToSet(tasks[n].dependencies) : d.type \in {"task", "artifact"}

NodeId(n) == <<"w", n>>

\* A Map built from pairs keeps the last node of a key.
LastOf(S) == CHOOSE n \in S : \A m \in S : m <= n

taskMap(tasks) ==
    [name \in {tasks[n].name : n \in DOMAIN tasks} |->
        LastOf({n \in DOMAIN tasks : tasks[n].name = name})]

artifactMap(tasks) ==
    [a \in UNION {ToSet(tasks[n].results) : n \in DOMAIN tasks} |->
        LastOf({n \in DOMAIN tasks : Contains(tasks[n].results, a)})]

Origins(tasks, type) == IF type = "task" THEN taskMap(tasks) ELSE artifactMap(tasks)

\* Every dependency names a task or a result of the definition.
IsResolvable(tasks) ==
    \A n \in DOMAIN tasks : \A d \in ToSet(tasks[n].dependencies) :
        d.id \in DOMAIN Origins(tasks, d.type)

EdgeOf(tasks, n, d) ==
    [from |-> Origins(tasks, d.type)[d.id], to |-> n, conditionType |-> d.type,
     artifactId |-> IF d.type = "artifact" THEN d.id ELSE "undefined"]

\* The edges in the order of their creation.
EdgesOf(tasks) ==
    FlattenSeq([n \in DOMAIN tasks |->
        [i \in DOMAIN tasks[n].dependencies |-> EdgeOf(tasks, n, tasks[n].dependencies[i])]])

\* Each edge is pushed to its origin and to its target; to both when they are one.
edgesAt(tasks) ==
    LET edges == EdgesOf(tasks)
        pushed(e, n) == (IF e.from = n THEN <<e>> ELSE <<>>) \o (IF e.to = n THEN <<e>> ELSE <<>>)
    IN  [n \in DOMAIN tasks |-> FlattenSeq([i \in DOMAIN edges |-> pushed(edges[i], n)])]

\* The DAG, or the error: "creation" or "cycle".
parse(tasks) ==
    IF ~IsResolvable(tasks) THEN [error |-> "creation", edges |-> <<>>, stack |-> <<>>]
    ELSE LET edges == edgesAt(tasks)
             search == hasCycles(edges)
         IN  [error |-> IF search.found THEN "cycle" ELSE "none",
              edges |-> edges,
              stack |-> search.stack]

-----------------------------------------------------------------------------
(* The stored DAG: edges name their nodes by id.                           *)

converDAGToDto(edges) ==
    [n \in DOMAIN edges |->
        [id |-> NodeId(n),
         edges |-> [i \in DOMAIN edges[n] |->
             LET e == edges[n][i]
             IN  [fromId |-> NodeId(e.from), toId |-> NodeId(e.to),
                  conditionType |-> e.conditionType, artifactId |-> e.artifactId]]]]

\* Mutant of nodeMap: an id stands for the first node.
FirstNodeMap(dto) == [id \in {dto[n].id : n \in DOMAIN dto} |-> 1]

nodeMap(dto) ==
    [id \in {dto[n].id : n \in DOMAIN dto} |-> LastOf({n \in DOMAIN dto : dto[n].id = id})]

convertDtoToDAG(dto) ==
    [n \in DOMAIN dto |->
        [i \in DOMAIN dto[n].edges |->
            LET e == dto[n].edges[i]
            IN  [from |-> nodeMap(dto)[e.fromId], to |-> nodeMap(dto)[e.toId],
                 conditionType |-> e.conditionType, artifactId |-> e.artifactId]]]

-----------------------------------------------------------------------------
(* Whether a node may start                                                *)

\* Mutant of incommingEdges: all edges of the node.
AnyEdges(edges, n) == ToSet(edges[n])

incommingEdges(edges, n) == {e \in ToSet(edges[n]) : e.to = n}

\* A task edge needs its origin succeeded, an artifact edge its artifact published.
checkRequirements(e, succeeded, published) ==
    IF e.conditionType = "task" THEN e.from \in succeeded ELSE e.artifactId \in published

hasOpenDependencies(edges, n, succeeded, published) ==
    \E e \in incommingEdges(edges, n) : ~checkRequirements(e, succeeded, published)
=============================================================================
