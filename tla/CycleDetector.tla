---------------------------- MODULE CycleDetector ----------------------------
(***************************************************************************)
(* The depth-first search that looks for a cycle in a parsed DAG           *)
(* (task-manager/src/dag/cycle-detector).  edges[n] is the list of edges   *)
(* kept at node n, those that start there and those that end there; an     *)
(* edge has its two nodes in the fields "from" and "to".                   *)
(***************************************************************************)
EXTENDS Naturals, SequencesExt

\* A search: the nodes visited, and the recursion stack, a JavaScript Set and so
\* in the order of insertion.  It is passed on from call to call.
Search(visited, stack, found) == [visited |-> visited, stack |-> stack, found |-> found]

Searches(edges) ==
    [visited : SUBSET DOMAIN edges, stack : Seq(DOMAIN edges), found : BOOLEAN]

\* Mutant of Leave: a node stays on the stack.
StaysOnStack(s, node) == s

Leave(s, node) ==
    IF ~Contains(s.stack, node) THEN s
    ELSE [s EXCEPT !.stack = RemoveAt(@, CHOOSE i \in DOMAIN @ : @[i] = node)]

\* Mutant of Follows: the edges that end at the node are not skipped.
FollowsAny(edge, node) == TRUE

\* The edges that end at the node itself are skipped.
Follows(edge, node) == edge.to # node

\* The edges of a node are followed until a cycle is found; visit[n][s] is what a
\* call for node n makes of search s.
followEdges(edges, node, s, visit) ==
    LET at == edges[node]
        after[i \in 0..Len(at)] ==
            IF i = 0 THEN s
            ELSE LET last == after[i - 1]
                 IN  IF last.found \/ ~Follows(at[i], node) THEN last ELSE visit[at[i].to][last]
    IN  after[Len(at)]

visitNode(edges, node, s, visit) ==
    IF Contains(s.stack, node) THEN [s EXCEPT !.found = TRUE]
    ELSE IF node \in s.visited THEN s
    ELSE LET after == followEdges(edges, node, Search(s.visited \cup {node}, Append(s.stack, node), FALSE), visit)
         IN  IF after.found THEN after ELSE Leave(after, node)

\* A call is made with one more node on the stack than the one it is nested in, and
\* the innermost, with all of them there, has found a cycle.
isCyclic(edges, node, s) ==
    LET visit[d \in 0..Len(edges)] ==
            [n \in DOMAIN edges |-> [t \in Searches(edges) |->
                IF d = 0 THEN [t EXCEPT !.found = TRUE] ELSE visitNode(edges, n, t, visit[d - 1])]]
    IN  visit[Len(edges)][node][s]

\* The nodes are tried in their order until a cycle is found; its description
\* names the nodes then on the stack, and the first of them once more.
hasCycles(edges) ==
    LET tried[n \in 0..Len(edges)] ==
            IF n = 0 THEN Search({}, <<>>, FALSE)
            ELSE LET last == tried[n - 1]
                 IN  IF last.found THEN last ELSE isCyclic(edges, n, last)
    IN  tried[Len(edges)]

cycleDescription(s) == Append(s.stack, s.stack[1])
=============================================================================
