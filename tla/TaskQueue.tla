----------------------------- MODULE TaskQueue ------------------------------
(***************************************************************************)
(* The collection of queued tasks (task-manager/src/task-queue): create()  *)
(* adds a document, findOneAndDelete() sorted by priority and then by the  *)
(* time of insertion removes one.  Both are atomic.                        *)
(***************************************************************************)
EXTENDS Naturals, Sequences, SequencesExt

CONSTANT Priority      \* Priority[n]: task.priority of node n, 500 by default

VARIABLE queue         \* node ids in the order of their addedAt

\* i is the document that sort({priority: 1, addedAt: 1}) lists first.
IsNextInLine(i) ==
    /\ i \in 1..Len(queue)
    /\ \A k \in 1..Len(queue) :
         \/ Priority[queue[i]] < Priority[queue[k]]
         \/ Priority[queue[i]] = Priority[queue[k]] /\ i <= k

enqueueNode(n) == queue' = Append(queue, n)

\* Mutant of dequeue: the document is found but not deleted.
DequeueWithoutDelete(n) ==
    \E i \in 1..Len(queue) : /\ IsNextInLine(i)
                             /\ n = queue[i]
                             /\ UNCHANGED queue

\* Removes the next document in line and hands out its node.
dequeue(n) ==
    \E i \in 1..Len(queue) : /\ IsNextInLine(i)
                             /\ n = queue[i]
                             /\ queue' = RemoveAt(queue, i)
=============================================================================
