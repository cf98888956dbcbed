------------------------- MODULE DefinitionsProofs --------------------------
(***************************************************************************)
(* Proofs about module Definitions, for any definitions: of any number of  *)
(* tasks, with any dependencies and any names.                             *)
(*                                                                         *)
(* The state of the specification is what parsing made of the definition;  *)
(* what parsing makes of it is the subject of module DagProofs.            *)
(***************************************************************************)
EXTENDS Definitions, DagProofs

\* The inductive invariant.
DefinitionsInv ==
    /\ tasks \in Definition
    /\ response \in {"none", "created", "creation", "cycle"}
    /\ response \in {"creation", "cycle"} => response = parse(tasks).error
    /\ response = "cycle" => stack = parse(tasks).stack
    /\ response = "created" =>
           parse(tasks).error = "none" /\ dag = converDAGToDto(parse(tasks).edges)
    /\ response # "created" => dag = <<>> /\ succeeded = {}
    /\ succeeded \subseteq DOMAIN tasks

LEMMA ParseErrors ==
    ASSUME NEW list \in Definition
    PROVE  IsDefinition(list) /\ parse(list).error \in {"none", "creation", "cycle"}
<1>1. IsDefinition(list)
  BY DefinitionAssumption
<1>2. QED BY <1>1, ParseDef

\* Each action keeps it.
LEMMA DefinitionsStep == DefinitionsInv /\ [Next]_vars => DefinitionsInv'
<1> SUFFICES ASSUME DefinitionsInv, [Next]_vars PROVE DefinitionsInv'
  OBVIOUS
<1> USE DEF DefinitionsInv
<1>1. CASE SaveWorkflow
  BY <1>1 DEF SaveWorkflow
<1>2. CASE RejectDefinition
  <2>1. PICK result : result = parse(tasks)
    OBVIOUS
  <2>2. /\ response = "none" /\ result.error # "none" /\ response' = result.error /\ stack' = result.stack
        /\ tasks' = tasks /\ dag' = dag /\ succeeded' = succeeded
    BY <1>2, <2>1 DEF RejectDefinition
  <2>3. result.error \in {"none", "creation", "cycle"}
    BY <2>1, ParseErrors
  <2> QED BY <2>1, <2>2, <2>3
<1>3. CASE SaveDag
  <2>1. PICK result : result = parse(tasks)
    OBVIOUS
  <2>2. /\ response = "none" /\ result.error = "none" /\ response' = "created"
        /\ dag' = converDAGToDto(result.edges)
        /\ tasks' = tasks /\ stack' = stack /\ succeeded' = succeeded
    BY <1>3, <2>1 DEF SaveDag
  <2> QED BY <2>1, <2>2
<1>4. ASSUME NEW n \in DOMAIN tasks, RunNode(n) PROVE DefinitionsInv'
  BY <1>4 DEF RunNode
<1>5. CASE UNCHANGED vars
  BY <1>5 DEF vars
<1>6. CASE Done
  BY <1>5, <1>6 DEF Done
<1>7. QED BY <1>1, <1>2, <1>3, <1>4, <1>5, <1>6 DEF Next

THEOREM DefinitionsAlways == Spec => []DefinitionsInv
<1>1. Init => DefinitionsInv
  BY DEF Init, DefinitionsInv
<1>2. QED BY <1>1, DefinitionsStep, PTL DEF Spec

-----------------------------------------------------------------------------
(* What parsing has found                                                  *)

LEMMA DependsIsFeeds == \A n, m : Depends(n, m) <=> Feeds(tasks, n, m)
BY DEF Depends, Feeds

\* The successors of a node depend on it.
LEMMA SuccessorsDepend ==
    ASSUME tasks \in Definition, IsResolvable(tasks), NEW n \in DOMAIN tasks, NEW m
    PROVE  m \in Succ(edgesAt(tasks), n) <=> m \in DOMAIN tasks /\ DependsOnOther(n, m)
<1>1. IsDefinition(tasks)
  BY DefinitionAssumption
<1>2. Succ(edgesAt(tasks), n) = {k \in DOMAIN tasks : k # n /\ Feeds(tasks, n, k)}
  BY <1>1, SuccIsFeeds
<1>3. QED BY <1>2, DependsIsFeeds DEF DependsOnOther

\* A definition in which the search found a cycle has one.
LEMMA FoundCycle ==
    ASSUME tasks \in Definition, parse(tasks).error = "cycle"
    PROVE  /\ \E knot \in SUBSET DOMAIN tasks : IsKnot(knot)
           /\ parse(tasks).stack \in Seq(DOMAIN tasks)
           /\ EndsInItself(edgesAt(tasks), parse(tasks).stack)
           /\ IsResolvable(tasks)
<1>1. IsDefinition(tasks)
  BY DefinitionAssumption
<1>2. PICK r : r = parse(tasks)
  OBVIOUS
<1>3. IsResolvable(tasks) /\ r.stack \in Seq(DOMAIN tasks) /\ EndsInItself(edgesAt(tasks), r.stack)
  <2>1. /\ r.error = "creation" <=> ~IsResolvable(tasks)
        /\ r.error = "cycle" => r.stack \in Seq(DOMAIN tasks) /\ EndsInItself(edgesAt(tasks), r.stack)
    BY <1>1, <1>2, ParseDef
  <2> QED BY <1>2, <2>1
<1>4. PICK K \in SUBSET DOMAIN tasks :
          K # {} /\ \A m \in K : \E n \in K : m \in Succ(edgesAt(tasks), n)
  BY <1>3, CycleIsKnot
<1>5. IsKnot(K)
  BY <1>3, <1>4, SuccessorsDepend DEF IsKnot
<1>6. QED BY <1>2, <1>3, <1>5

\* A definition in which it found none has none.
LEMMA NoCycleFound ==
    ASSUME tasks \in Definition, parse(tasks).error = "none"
    PROVE  /\ \A knot \in SUBSET DOMAIN tasks : ~IsKnot(knot)
           /\ IsResolvable(tasks) /\ parse(tasks).edges = edgesAt(tasks)
<1>1. IsDefinition(tasks)
  BY DefinitionAssumption
<1>2. PICK r : r = parse(tasks)
  OBVIOUS
<1>3. IsResolvable(tasks) /\ r.edges = edgesAt(tasks) /\ NoKnot(edgesAt(tasks), DOMAIN tasks)
  <2>1. /\ r.error = "creation" <=> ~IsResolvable(tasks)
        /\ r.error # "creation" => r.edges = edgesAt(tasks)
        /\ r.error = "none" => NoKnot(edgesAt(tasks), DOMAIN tasks)
    BY <1>1, <1>2, ParseDef
  <2> QED BY <1>2, <2>1
<1>4. ASSUME NEW K \in SUBSET DOMAIN tasks PROVE ~IsKnot(K)
  <2>1. SUFFICES ASSUME IsKnot(K) PROVE FALSE
    OBVIOUS
  <2>2. K # {} /\ \A m \in K : \E n \in K : DependsOnOther(n, m)
    BY <2>1 DEF IsKnot
  <2>3. PICK m \in K : \A n \in K : m \notin Succ(edgesAt(tasks), n)
    BY <1>3, <2>2 DEF NoKnot
  <2>4. PICK n \in K : DependsOnOther(n, m)
    BY <2>2
  <2>5. n \in DOMAIN tasks /\ m \in DOMAIN tasks
    OBVIOUS
  <2> QED BY <1>3, <2>3, <2>4, <2>5, SuccessorsDepend
<1>5. QED BY <1>2, <1>3, <1>4

\* What the incoming edges of a node are when they are read back.
LEMMA StoredEdges ==
    ASSUME DefinitionsInv, response = "created", NEW n \in DOMAIN tasks
    PROVE  /\ DOMAIN dag = DOMAIN tasks
           /\ incommingEdges(convertDtoToDAG(dag), n)
                  = {EdgeOf(tasks, n, d) : d \in ToSet(tasks[n].dependencies)}
<1>1. /\ tasks \in Definition /\ parse(tasks).error = "none"
      /\ dag = converDAGToDto(parse(tasks).edges)
  BY DEF DefinitionsInv
<1>2. IsDefinition(tasks)
  BY <1>1, DefinitionAssumption
<1>3. IsResolvable(tasks) /\ dag = converDAGToDto(edgesAt(tasks))
  BY <1>1, NoCycleFound
<1>4. DOMAIN dag = DOMAIN tasks /\ convertDtoToDAG(dag)[n] = edgesAt(tasks)[n]
  BY <1>2, <1>3, ReadBack
<1>5. incommingEdges(convertDtoToDAG(dag), n) = incommingEdges(edgesAt(tasks), n)
  BY <1>4 DEF incommingEdges
<1>6. QED BY <1>2, <1>4, <1>5, IncomingEdges

-----------------------------------------------------------------------------
(* The properties                                                          *)

\* A definition is rejected for a cycle exactly when it has one, whatever the
\* order of its tasks and dependencies (dfs.strategy.ts).
THEOREM CyclesAreAlwaysRejected == Spec => []CyclesAreRejected
<1>1. ASSUME DefinitionsInv PROVE CyclesAreRejected
  <2> SUFFICES ASSUME Answered, response # "creation"
               PROVE  (response = "cycle") <=> \E knot \in SUBSET DOMAIN tasks : IsKnot(knot)
    BY DEF CyclesAreRejected
  <2>1. tasks \in Definition /\ response \in {"cycle", "created"}
    BY <1>1 DEF DefinitionsInv, Answered
  <2>2. CASE response = "cycle"
    <3>1. parse(tasks).error = "cycle"
      BY <1>1, <2>2 DEF DefinitionsInv
    <3> QED BY <2>1, <2>2, <3>1, FoundCycle
  <2>3. CASE response = "created"
    <3>1. parse(tasks).error = "none"
      BY <1>1, <2>3 DEF DefinitionsInv
    <3> QED BY <2>1, <2>3, <3>1, NoCycleFound
  <2> QED BY <2>1, <2>2, <2>3
<1>2. QED BY <1>1, DefinitionsAlways, PTL

\* The nodes named in the error about a cycle are a path that leads back to one
\* of them (dfs.strategy.ts:13-23).
THEOREM ReportedNodesAlwaysHoldACycle == Spec => []ReportedNodesHoldACycle
<1>1. ASSUME DefinitionsInv PROVE ReportedNodesHoldACycle
  <2> SUFFICES ASSUME response = "cycle"
               PROVE  /\ \A i \in 1..(Len(stack) - 1) : DependsOnOther(stack[i], stack[i + 1])
                      /\ \E i \in 1..(Len(stack) - 1) : DependsOnOther(stack[Len(stack)], stack[i])
    BY DEF ReportedNodesHoldACycle
  <2>1. tasks \in Definition /\ parse(tasks).error = "cycle" /\ stack = parse(tasks).stack
    BY <1>1 DEF DefinitionsInv
  <2>2. /\ stack \in Seq(DOMAIN tasks) /\ EndsInItself(edgesAt(tasks), stack)
        /\ IsResolvable(tasks)
    BY <2>1, FoundCycle
  <2>3. PICK L \in Nat : L = Len(stack) /\ \A i \in 1..L : stack[i] \in DOMAIN tasks
    BY <2>2
  <2>4. ASSUME NEW i \in 1..(L - 1) PROVE DependsOnOther(stack[i], stack[i + 1])
    <3>1. i \in 1..L
      BY <2>3
    <3>2. stack[i + 1] \in Succ(edgesAt(tasks), stack[i])
      BY <2>2, <2>3 DEF EndsInItself, IsPath
    <3> QED BY <2>1, <2>2, <2>3, <3>1, <3>2, SuccessorsDepend
  <2>5. PICK i \in 1..L : stack[i] \in Succ(edgesAt(tasks), stack[L])
    BY <2>2, <2>3 DEF EndsInItself
  <2>6. L \in 1..L
    BY <2>3
  <2>7. DependsOnOther(stack[L], stack[i])
    BY <2>1, <2>2, <2>3, <2>5, <2>6, SuccessorsDepend
  <2>8. i # L
    BY <2>7 DEF DependsOnOther
  <2>9. i \in 1..(L - 1)
    BY <2>3, <2>8
  <2> QED BY <2>3, <2>4, <2>7, <2>9
<1>2. QED BY <1>1, DefinitionsAlways, PTL

\* Read back from the database, the DAG has just the dependencies of every task,
\* each at the last task that provides it (dag.service.ts).
THEOREM StoredDagIsAlwaysTheDefinition == Spec => []StoredDagIsTheDefinition
<1>1. ASSUME DefinitionsInv PROVE StoredDagIsTheDefinition
  <2>1. CASE response # "created"
    <3>1. DOMAIN dag = {}
      <4>1. dag = <<>>
        BY <1>1, <2>1 DEF DefinitionsInv
      <4> QED BY <4>1
    <3> QED BY <3>1 DEF StoredDagIsTheDefinition
  <2>2. CASE response = "created"
    <3>1. tasks \in Definition /\ IsDefinition(tasks) /\ IsResolvable(tasks)
      BY <1>1, <2>2, NoCycleFound, DefinitionAssumption DEF DefinitionsInv
    <3> SUFFICES ASSUME NEW n \in DOMAIN dag, NEW incoming, incoming = incommingEdges(convertDtoToDAG(dag), n)
                 PROVE  /\ {DependencyOf(e) : e \in incoming} = Ids(n)
                        /\ \A e \in incoming :
                             /\ Provides(e.from, DependencyOf(e))
                             /\ \A m \in DOMAIN tasks : Provides(m, DependencyOf(e)) => m <= e.from
      BY DEF StoredDagIsTheDefinition
    <3>2. n \in DOMAIN tasks
      <4>1. parse(tasks).error = "none" /\ dag = converDAGToDto(parse(tasks).edges)
        BY <1>1, <2>2 DEF DefinitionsInv
      <4>2. dag = converDAGToDto(edgesAt(tasks))
        BY <3>1, <4>1, NoCycleFound
      <4> QED BY <3>1, <4>2, ReadBack
    <3>3. incoming = {EdgeOf(tasks, n, d) : d \in ToSet(tasks[n].dependencies)}
      BY <1>1, <2>2, <3>2, StoredEdges
    <3>4. ASSUME NEW d \in ToSet(tasks[n].dependencies), NEW e, e = EdgeOf(tasks, n, d)
          PROVE  /\ DependencyOf(e) = <<d.type, d.id>>
                 /\ Provides(e.from, <<d.type, d.id>>)
                 /\ \A m \in DOMAIN tasks : Provides(m, <<d.type, d.id>>) => m <= e.from
      <4>1. d.id \in DOMAIN Origins(tasks, d.type) /\ d.type \in {"task", "artifact"}
        BY <3>1, <3>2 DEF IsResolvable, IsDefinition
      <4>2. PICK from : from = Origins(tasks, d.type)[d.id]
        OBVIOUS
      <4>3. from \in TasksOf(tasks, d.type, d.id) /\ \A m \in TasksOf(tasks, d.type, d.id) : m <= from
        BY <3>1, <4>1, <4>2, OriginIsLast
      <4>4. e.from = from /\ e.conditionType = d.type
            /\ e.artifactId = IF d.type = "artifact" THEN d.id ELSE "undefined"
        BY <3>4, <4>2 DEF EdgeOf
      <4>5. \A m \in DOMAIN tasks : Provides(m, <<d.type, d.id>>) <=> m \in TasksOf(tasks, d.type, d.id)
        BY DEF Provides, TasksOf
      <4>6. from \in DOMAIN tasks
        BY <4>3 DEF TasksOf
      <4>7. DependencyOf(e) = <<d.type, d.id>>
        <5>1. CASE d.type = "task"
          <6>1. tasks[from].name = d.id
            BY <4>3, <5>1 DEF TasksOf
          <6> QED BY <4>4, <5>1, <6>1 DEF DependencyOf
        <5>2. CASE d.type = "artifact"
          BY <4>4, <5>2 DEF DependencyOf
        <5> QED BY <4>1, <5>1, <5>2
      <4> QED BY <4>3, <4>4, <4>5, <4>6, <4>7
    <3>5. {DependencyOf(e) : e \in incoming} = Ids(n)
      <4>1. ASSUME NEW e \in incoming PROVE DependencyOf(e) \in Ids(n)
        <5>1. PICK d \in ToSet(tasks[n].dependencies) : e = EdgeOf(tasks, n, d)
          BY <3>3
        <5>2. DependencyOf(e) = <<d.type, d.id>>
          BY <3>4, <5>1
        <5> QED BY <5>2 DEF Ids
      <4>2. ASSUME NEW x \in Ids(n) PROVE \E e \in incoming : x = DependencyOf(e)
        <5>1. PICK d \in ToSet(tasks[n].dependencies) : x = <<d.type, d.id>>
          BY DEF Ids
        <5>2. PICK e : e = EdgeOf(tasks, n, d)
          OBVIOUS
        <5>3. e \in incoming
          BY <3>3, <5>2
        <5>4. DependencyOf(e) = x
          BY <3>4, <5>1, <5>2
        <5> QED BY <5>3, <5>4
      <4> QED BY <4>1, <4>2, Zenon
    <3>6. ASSUME NEW e \in incoming
          PROVE  /\ Provides(e.from, DependencyOf(e))
                 /\ \A m \in DOMAIN tasks : Provides(m, DependencyOf(e)) => m <= e.from
      <4>1. PICK d \in ToSet(tasks[n].dependencies) : e = EdgeOf(tasks, n, d)
        BY <3>3
      <4> QED BY <3>4, <4>1
    <3> QED BY <3>5, <3>6
  <2> QED BY <2>1, <2>2
<1>2. QED BY <1>1, DefinitionsAlways, PTL

\* An accepted workflow does not get stuck while its tasks succeed, unless a task
\* depends on itself: among the tasks that have not succeeded there is one that
\* depends on none of them.
THEOREM AcceptedWorkflowsCanAlwaysFinish == Spec => []AcceptedWorkflowCanFinish
<1>1. ASSUME DefinitionsInv PROVE AcceptedWorkflowCanFinish
  <2> SUFFICES ASSUME response = "created", \A n \in DOMAIN dag : ~IsReady(n),
                      \A n \in DOMAIN tasks : ~Depends(n, n),
                      succeeded # DOMAIN tasks
               PROVE  FALSE
    BY DEF AcceptedWorkflowCanFinish
  <2>1. /\ tasks \in Definition /\ IsDefinition(tasks) /\ IsResolvable(tasks)
        /\ \A knot \in SUBSET DOMAIN tasks : ~IsKnot(knot)
    BY <1>1, NoCycleFound, DefinitionAssumption DEF DefinitionsInv
  <2>2. PICK open : open = (DOMAIN tasks) \ succeeded
    OBVIOUS
  <2>3. open # {}
    BY <1>1, <2>2 DEF DefinitionsInv
  <2>4. PICK m \in open : \A n \in open : ~DependsOnOther(n, m)
    BY <2>1, <2>2, <2>3 DEF IsKnot
  <2>5. m \in DOMAIN tasks /\ m \notin succeeded
    BY <2>2
  <2>6. /\ m \in DOMAIN dag
        /\ incommingEdges(convertDtoToDAG(dag), m)
               = {EdgeOf(tasks, m, d) : d \in ToSet(tasks[m].dependencies)}
    BY <1>1, <2>5, StoredEdges
  <2>7. hasOpenDependencies(convertDtoToDAG(dag), m, succeeded, Published)
    BY <2>5, <2>6 DEF IsReady
  <2>8. PICK e \in {EdgeOf(tasks, m, d) : d \in ToSet(tasks[m].dependencies)} :
            ~checkRequirements(e, succeeded, Published)
    BY <2>6, <2>7 DEF hasOpenDependencies
  <2>9. PICK d \in ToSet(tasks[m].dependencies) : e = EdgeOf(tasks, m, d)
    BY <2>8
  <2>10. d.id \in DOMAIN Origins(tasks, d.type) /\ d.type \in {"task", "artifact"}
    BY <2>1, <2>5 DEF IsResolvable, IsDefinition
  <2>11. PICK from : from = Origins(tasks, d.type)[d.id]
    OBVIOUS
  <2>12. from \in TasksOf(tasks, d.type, d.id) /\ from \in DOMAIN tasks
    BY <2>1, <2>10, <2>11, OriginIsLast DEF TasksOf
  <2>13. e.from = from /\ e.conditionType = d.type
         /\ e.artifactId = IF d.type = "artifact" THEN d.id ELSE "undefined"
    BY <2>9, <2>11 DEF EdgeOf
  <2>14. from \notin succeeded
    <3>1. CASE d.type = "task"
      BY <2>8, <2>13, <3>1 DEF checkRequirements
    <3>2. CASE d.type = "artifact"
      <4>1. d.id \notin Published
        BY <2>8, <2>13, <3>2 DEF checkRequirements
      <4>2. d.id \in ToSet(tasks[from].results)
        <5>1. tasks[from].results \in Seq(ToSet(tasks[from].results))
          BY <2>1, <2>12 DEF IsDefinition, IsSeq
        <5>2. DOMAIN tasks[from].results = 1..Len(tasks[from].results)
          BY <5>1
        <5>3. Contains(tasks[from].results, d.id)
          BY <2>12, <3>2 DEF TasksOf
        <5> QED BY <5>2, <5>3 DEF Contains, ToSet
      <4> QED BY <4>1, <4>2 DEF Published
    <3> QED BY <2>10, <3>1, <3>2
  <2>15. Depends(from, m)
    BY <2>10, <2>11 DEF Depends
  <2>16. from # m
    BY <2>5, <2>15
  <2> QED BY <2>2, <2>4, <2>12, <2>14, <2>15, <2>16 DEF DependsOnOther
<1>2. QED BY <1>1, DefinitionsAlways, PTL
=============================================================================
