----------------------------- MODULE DagProofs -----------------------------
(***************************************************************************)
(* Proofs about the operators of modules CycleDetector and DagParsing: the *)
(* depth-first search finds a cycle if and only if there is one, and every *)
(* edge of a definition is kept where it belongs.                          *)
(***************************************************************************)
EXTENDS DagParsing, FiniteSetTheorems, WellFoundedInduction, TLAPS

\* A set of numbers has a least one.  Induction is done with it: there is no
\* least counterexample.
LEMMA LeastNumber ==
    ASSUME NEW T, T \subseteq Nat, T # {}
    PROVE  \E m \in T : \A k \in T : m <= k
<1>1. PICK R : R = OpToRel(<, Nat)
  OBVIOUS
<1>2. IsWellFoundedOn(R, Nat)
  BY <1>1, NatLessThanWellFounded, Zenon
<1>3. R = {p \in Nat \X Nat : p[1] < p[2]}
  BY <1>1 DEF OpToRel
<1>4. \A k, m \in Nat : k < m => <<k, m>> \in R
  BY <1>3
<1>5. PICK m \in T : \A k \in T : ~(<<k, m>> \in R)
  BY <1>2, WFMin
<1>6. \A k \in T : ~(k < m)
  BY <1>4, <1>5
<1>7. \A k \in T : m <= k
  BY <1>6
<1>8. QED BY <1>7

LEMMA NumbersUpTo ==
    ASSUME NEW n \in Nat
    PROVE  IsFiniteSet(1..n) /\ Cardinality(1..n) = n
<1>1. 1 \in Int /\ n \in Int
  OBVIOUS
<1>2. IsFiniteSet(1..n) /\ Cardinality(1..n) = IF 1 > n THEN 0 ELSE n - 1 + 1
  BY <1>1, FS_Interval
<1>3. QED BY <1>2

\* A sequence is one of its elements.
LEMMA SeqOfElements ==
    ASSUME NEW S, NEW s \in Seq(S)
    PROVE  s \in Seq(ToSet(s))
<1>1. s = [i \in 1..Len(s) |-> s[i]] /\ Len(s) \in Nat
  OBVIOUS
<1>2. \A i \in 1..Len(s) : s[i] \in ToSet(s)
  BY DEF ToSet
<1>3. QED BY <1>1, <1>2

\* An element is left out.
LEMMA RemoveAtDef ==
    ASSUME NEW S, NEW s \in Seq(S), NEW i \in 1..Len(s)
    PROVE  /\ RemoveAt(s, i) \in Seq(S) /\ Len(RemoveAt(s, i)) = Len(s) - 1
           /\ \A k \in 1..(Len(s) - 1) : RemoveAt(s, i)[k] = IF k < i THEN s[k] ELSE s[k + 1]
<1>1. PICK a : a = SubSeq(s, 1, i - 1)
  OBVIOUS
<1>2. PICK b : b = SubSeq(s, i + 1, Len(s))
  OBVIOUS
<1>3. a \in Seq(S) /\ Len(a) = i - 1 /\ \A k \in 1..(i - 1) : a[k] = s[k]
  BY <1>1
<1>4. b \in Seq(S) /\ Len(b) = Len(s) - i /\ \A k \in 1..(Len(s) - i) : b[k] = s[k + i]
  BY <1>2
<1>5. RemoveAt(s, i) = a \o b
  BY <1>1, <1>2 DEF RemoveAt
<1>6. a \o b \in Seq(S) /\ Len(a \o b) = Len(s) - 1
  <2>1. a \o b \in Seq(S)
    BY <1>3, <1>4
  <2>2. \A p, q \in Seq(S) : Len(p \o q) = Len(p) + Len(q)
    OBVIOUS
  <2>3. (i - 1) + (Len(s) - i) = Len(s) - 1
    OBVIOUS
  <2> QED BY <1>3, <1>4, <2>1, <2>2, <2>3
<1>7. ASSUME NEW k \in 1..(Len(s) - 1) PROVE (a \o b)[k] = IF k < i THEN s[k] ELSE s[k + 1]
  <2>1. CASE k < i
    BY <1>3, <1>4, <2>1
  <2>2. CASE ~(k < i)
    <3>1. k - (i - 1) \in 1..(Len(s) - i) /\ (a \o b)[k] = b[k - (i - 1)]
      BY <1>3, <1>4, <2>2
    <3>2. b[k - (i - 1)] = s[(k - (i - 1)) + i]
      BY <1>4, <3>1
    <3>3. (k - (i - 1)) + i = k + 1
      OBVIOUS
    <3> QED BY <2>2, <3>1, <3>2, <3>3
  <2> QED BY <2>1, <2>2
<1>8. QED BY <1>5, <1>6, <1>7

Steps(n, S) == [1..n -> [S -> S]]

IsRun(f, n, S, x, step) ==
    f \in [0..n -> S] /\ f[0] = x /\ \A i \in 1..n : f[i] = step[i][f[i - 1]]

\* A function can be given its values one after the other.
LEMMA Recursion ==
    ASSUME NEW S, NEW n \in Nat, NEW x \in S, NEW step \in Steps(n, S)
    PROVE  \E f : IsRun(f, n, S, x, step)
<1> USE DEF Steps, IsRun
<1> DEFINE Has(k) == \E f \in [0..k -> S] : f[0] = x /\ \A i \in 1..k : f[i] = step[i][f[i - 1]]
           Without == {k \in 0..n : ~Has(k)}
<1>1. Has(0)
  <2>1. PICK f : f = [i \in 0..0 |-> x]
    OBVIOUS
  <2>2. f \in [0..0 -> S] /\ f[0] = x /\ \A i \in 1..0 : FALSE
    BY <2>1
  <2> QED BY <2>2
<1>2. ASSUME NEW k \in 0..n, k + 1 \in 0..n, Has(k) PROVE Has(k + 1)
  <2>1. PICK f \in [0..k -> S] : f[0] = x /\ \A i \in 1..k : f[i] = step[i][f[i - 1]]
    BY <1>2
  <2>2. PICK y \in S : y = step[k + 1][f[k]]
    <3>1. k + 1 \in 1..n /\ f[k] \in S
      BY <1>2
    <3>2. step[k + 1] \in [S -> S]
      BY <3>1
    <3> QED BY <3>1, <3>2
  <2>3. PICK g : g = [i \in 0..(k + 1) |-> IF i = k + 1 THEN y ELSE f[i]]
    OBVIOUS
  <2>4. \A i \in 0..(k + 1) : i = k + 1 \/ i \in 0..k
    OBVIOUS
  <2>5. g \in [0..(k + 1) -> S]
    BY <2>3, <2>4
  <2>6. g[0] = x /\ \A i \in 0..k : g[i] = f[i]
    BY <2>1, <2>3
  <2>7. g[k + 1] = y
    BY <2>3
  <2>8. ASSUME NEW i \in 1..(k + 1) PROVE g[i] = step[i][g[i - 1]]
    <3>1. CASE i = k + 1
      <4>1. i - 1 = k /\ k \in 0..k
        BY <3>1
      <4> QED BY <2>2, <2>6, <2>7, <3>1, <4>1
    <3>2. CASE i # k + 1
      <4>1. i \in 1..k /\ i \in 0..k /\ i - 1 \in 0..k
        BY <3>2
      <4> QED BY <2>1, <2>6, <4>1
    <3> QED BY <3>1, <3>2
  <2> QED BY <2>5, <2>6, <2>8
<1>3. SUFFICES ASSUME Without # {} PROVE FALSE
  <2>1. n \in 0..n
    OBVIOUS
  <2>2. Without = {} => Has(n)
    BY <2>1
  <2> QED BY <2>2
<1>4. PICK m \in Without : \A k \in Without : m <= k
  <2>1. Without \subseteq Nat
    OBVIOUS
  <2> HIDE DEF Without
  <2> QED BY <1>3, <2>1, LeastNumber
<1>5. m \in 0..n /\ ~Has(m) /\ m # 0
  BY <1>1, <1>4
<1>6. m - 1 \in 0..n /\ (m - 1) + 1 = m /\ ~(m <= m - 1)
  BY <1>5
<1> HIDE DEF Has
<1>7. Has(m - 1)
  BY <1>4, <1>6
<1>8. Has((m - 1) + 1)
  BY <1>2, <1>5, <1>6, <1>7
<1>9. QED BY <1>5, <1>6, <1>8

AgreeOn(f, g, n) == f[0] = g[0] /\ \A i \in 1..n : f[i - 1] = g[i - 1] => f[i] = g[i]

\* And only one function has them.
LEMMA RecursionIsUnique ==
    ASSUME NEW n \in Nat, NEW f, NEW g, AgreeOn(f, g, n)
    PROVE  \A i \in 0..n : g[i] = f[i]
<1> USE DEF AgreeOn
<1> DEFINE Bad == {i \in 0..n : g[i] # f[i]}
<1>1. SUFFICES ASSUME Bad # {} PROVE FALSE
  OBVIOUS
<1>2. PICK m \in Bad : \A k \in Bad : m <= k
  <2>1. Bad \subseteq Nat
    OBVIOUS
  <2> HIDE DEF Bad
  <2> QED BY <1>1, <2>1, LeastNumber
<1>3. m \in 0..n /\ g[m] # f[m]
  BY <1>2
<1>4. m \in 1..n /\ m - 1 \in 0..n /\ ~(m <= m - 1)
  BY <1>3
<1>5. g[m - 1] = f[m - 1]
  BY <1>2, <1>4
<1>6. QED BY <1>3, <1>4, <1>5

-----------------------------------------------------------------------------
(* The search as a function                                                *)

\* Edges are kept at nodes, and lead to nodes.
IsDag(edges) ==
    IsSeq(edges) /\ \A n \in DOMAIN edges :
        IsSeq(edges[n]) /\ \A i \in DOMAIN edges[n] : edges[n][i].to \in DOMAIN edges

Calls(edges) == [DOMAIN edges -> [Searches(edges) -> Searches(edges)]]

AfterEdge(edge, node, visit, last) ==
    IF last.found \/ ~Follows(edge, node) THEN last ELSE visit[edge.to][last]

\* The edges of a node are followed in their order.
LEMMA FollowEdgesDef ==
    ASSUME NEW edges, IsDag(edges), NEW node \in DOMAIN edges, NEW s \in Searches(edges),
           NEW visit \in Calls(edges)
    PROVE  \E after \in [0..Len(edges[node]) -> Searches(edges)] :
               /\ after[0] = s
               /\ \A i \in 1..Len(edges[node]) :
                      after[i] = AfterEdge(edges[node][i], node, visit, after[i - 1])
               /\ followEdges(edges, node, s, visit) = after[Len(edges[node])]
<1> DEFINE at == edges[node]
           St == Searches(edges)
           n == Len(at)
           Is(f) == f = [i \in 0..n |->
                         IF i = 0 THEN s
                         ELSE LET last == f[i - 1]
                              IN  IF last.found \/ ~Follows(at[i], node) THEN last
                                  ELSE visit[at[i].to][last]]
<1>1. n \in Nat /\ DOMAIN at = 1..n /\ \A i \in 1..n : at[i].to \in DOMAIN edges
  <2>1. at \in Seq(ToSet(at))
    BY DEF IsDag, IsSeq
  <2>2. n \in Nat /\ DOMAIN at = 1..n
    BY <2>1
  <2> QED BY <2>2 DEF IsDag
<1>2. PICK step : step = [i \in 1..n |-> [t \in St |-> AfterEdge(at[i], node, visit, t)]]
  OBVIOUS
<1>3. \A i \in 1..n : \A t \in St : AfterEdge(at[i], node, visit, t) \in St
  <2> HIDE DEF at, St, n
  <2>1. ASSUME NEW i \in 1..n, NEW t \in St PROVE visit[at[i].to][t] \in St
    <3>1. visit[at[i].to] \in [St -> St]
      BY <1>1 DEF Calls, St
    <3> QED BY <3>1
  <2> QED BY <2>1 DEF AfterEdge
<1>4. step \in [1..n -> [St -> St]]
  <2> HIDE DEF at, St, n
  <2>1. \A i \in 1..n : [t \in St |-> AfterEdge(at[i], node, visit, t)] \in [St -> St]
    BY <1>3
  <2> QED BY <1>2, <2>1
<1>5. PICK f \in [0..n -> St] : f[0] = s /\ \A i \in 1..n : f[i] = step[i][f[i - 1]]
  <2>1. n \in Nat /\ s \in St
    BY <1>1
  <2> HIDE DEF at, St, n, Is
  <2>2. step \in Steps(n, St)
    BY <1>4 DEF Steps
  <2>3. PICK f : IsRun(f, n, St, s, step)
    BY <2>1, <2>2, Recursion
  <2> QED BY <2>3 DEF IsRun
<1>6. \A i \in 1..n : f[i] = AfterEdge(at[i], node, visit, f[i - 1])
  <2> HIDE DEF at, St
  <2>1. ASSUME NEW i \in 1..n PROVE f[i] = AfterEdge(at[i], node, visit, f[i - 1])
    <3>1. i - 1 \in 0..n
      BY <1>1
    <3>2. f[i - 1] \in St
      BY <3>1
    <3>3. step[i] = [t \in St |-> AfterEdge(at[i], node, visit, t)]
      BY <1>2
    <3>4. step[i][f[i - 1]] = AfterEdge(at[i], node, visit, f[i - 1])
      BY <3>2, <3>3
    <3> QED BY <1>5, <3>4
  <2> QED BY <2>1
<1>7. Is(f)
  <2> HIDE DEF at, St
  <2>1. f = [i \in 0..n |-> f[i]]
    OBVIOUS
  <2>2. \A i \in 0..n : i = 0 \/ i \in 1..n
    BY <1>1
  <2>3. \A i \in 0..n : f[i] = IF i = 0 THEN s ELSE AfterEdge(at[i], node, visit, f[i - 1])
    BY <1>5, <1>6, <2>2
  <2>4. f = [i \in 0..n |-> IF i = 0 THEN s ELSE AfterEdge(at[i], node, visit, f[i - 1])]
    BY <2>1, <2>3
  <2> QED BY <2>4 DEF AfterEdge
<1>8. PICK g : g = CHOOSE h : Is(h)
  OBVIOUS
<1>9. Is(g)
  <2> HIDE DEF Is
  <2> QED BY <1>7, <1>8, Zenon
<1>10. followEdges(edges, node, s, visit) = g[n]
  BY <1>8, Zenon DEF followEdges
<1>11. g \in [0..n -> St] /\ g[0] = s /\ \A i \in 1..n : g[i] = AfterEdge(at[i], node, visit, g[i - 1])
  <2>1. g[0] = s
    BY <1>1, <1>9
  <2>2. \A i \in 1..n : g[i] = AfterEdge(at[i], node, visit, g[i - 1])
    <3> SUFFICES ASSUME NEW i \in 1..n PROVE g[i] = AfterEdge(at[i], node, visit, g[i - 1])
      OBVIOUS
    <3>1. i \in 0..n /\ i # 0
      BY <1>1
    <3> QED BY <1>9, <3>1 DEF AfterEdge
  <2>3. g = [i \in 0..n |-> g[i]] /\ f = [i \in 0..n |-> f[i]]
    BY <1>9
  <2> HIDE DEF at, St, n, Is
  <2>4. \A i \in 1..n : f[i - 1] = g[i - 1] => f[i] = g[i]
    BY <1>6, <2>2
  <2>5. \A i \in 0..n : g[i] = f[i]
    <3>1. n \in Nat /\ AgreeOn(f, g, n)
      BY <1>1, <1>5, <2>1, <2>4 DEF AgreeOn
    <3> QED BY <3>1, RecursionIsUnique
  <2>6. g = f
    BY <2>3, <2>5
  <2> QED BY <1>5, <1>6, <2>6
<1>12. QED BY <1>10, <1>11, Zenon
\* The search stays a search.
LEMMA VisitNodeType ==
    ASSUME NEW edges, IsDag(edges), NEW node \in DOMAIN edges, NEW s \in Searches(edges),
           NEW visit \in Calls(edges)
    PROVE  visitNode(edges, node, s, visit) \in Searches(edges)
<1>1. [s EXCEPT !.found = TRUE] \in Searches(edges)
  BY DEF Searches
<1>2. PICK s0 : s0 = Search(s.visited \cup {node}, Append(s.stack, node), FALSE)
  OBVIOUS
<1>3. s0 \in Searches(edges)
  BY <1>2 DEF Search, Searches
<1>4. PICK after \in Searches(edges) : after = followEdges(edges, node, s0, visit)
  <2>1. Len(edges[node]) \in 0..Len(edges[node])
    <3>1. edges[node] \in Seq(ToSet(edges[node]))
      BY DEF IsDag, IsSeq
    <3> QED BY <3>1
  <2>2. PICK f \in [0..Len(edges[node]) -> Searches(edges)] :
            followEdges(edges, node, s0, visit) = f[Len(edges[node])]
    BY <1>3, FollowEdgesDef
  <2> QED BY <2>1, <2>2
<1>5. Leave(after, node) \in Searches(edges)
  <2>1. CASE ~Contains(after.stack, node)
    BY <2>1 DEF Leave
  <2>2. CASE Contains(after.stack, node)
    <3>1. after.stack \in Seq(DOMAIN edges) /\ DOMAIN after.stack = 1..Len(after.stack)
      BY DEF Searches
    <3>2. PICK i \in 1..Len(after.stack) : i = CHOOSE k \in DOMAIN after.stack : after.stack[k] = node
      BY <2>2, <3>1 DEF Contains
    <3>3. PICK rest \in Seq(DOMAIN edges) : rest = RemoveAt(after.stack, i)
      BY <3>1, RemoveAtDef
    <3>4. Leave(after, node) = [after EXCEPT !.stack = rest]
      BY <2>2, <3>2, <3>3 DEF Leave
    <3> QED BY <3>4 DEF Searches
  <2> QED BY <2>1, <2>2
<1>6. visitNode(edges, node, s, visit) \in {[s EXCEPT !.found = TRUE], s, after, Leave(after, node)}
  BY <1>2, <1>4 DEF visitNode
<1>7. QED BY <1>1, <1>5, <1>6

IsVisit(visit, edges) ==
    /\ visit \in [0..Len(edges) -> Calls(edges)]
    /\ \A n \in DOMAIN edges : \A t \in Searches(edges) : visit[0][n][t] = [t EXCEPT !.found = TRUE]
    /\ \A d \in 1..Len(edges) : \A n \in DOMAIN edges : \A t \in Searches(edges) :
           visit[d][n][t] = visitNode(edges, n, t, visit[d - 1])

\* The calls nested in each other are a function of the depth that is left.
LEMMA IsCyclicDef ==
    ASSUME NEW edges, IsDag(edges)
    PROVE  \E visit : /\ IsVisit(visit, edges)
                      /\ \A node \in DOMAIN edges : \A s \in Searches(edges) :
                             isCyclic(edges, node, s) = visit[Len(edges)][node][s]
<1>1. PICK N \in Nat : N = Len(edges) /\ DOMAIN edges = 1..N
  <2>1. edges \in Seq(ToSet(edges))
    BY DEF IsDag, IsSeq
  <2> QED BY <2>1
<1>2. PICK St : St = Searches(edges)
  OBVIOUS
<1>3. PICK innermost : innermost = [n \in DOMAIN edges |-> [t \in St |-> [t EXCEPT !.found = TRUE]]]
  OBVIOUS
<1>4. innermost \in Calls(edges)
  <2>1. \A t \in St : [t EXCEPT !.found = TRUE] \in St
    BY <1>2 DEF Searches
  <2>2. [t \in St |-> [t EXCEPT !.found = TRUE]] \in [St -> St]
    BY <2>1
  <2> QED BY <1>2, <1>3, <2>2 DEF Calls
<1> DEFINE Nested(v) == [n \in DOMAIN edges |-> [t \in St |-> visitNode(edges, n, t, v)]]
<1>5. ASSUME NEW v \in Calls(edges) PROVE Nested(v) \in Calls(edges)
  <2>1. \A n \in DOMAIN edges : \A t \in St : visitNode(edges, n, t, v) \in St
    BY <1>2, VisitNodeType
  <2>2. \A n \in DOMAIN edges : [t \in St |-> visitNode(edges, n, t, v)] \in [St -> St]
    BY <2>1
  <2> QED BY <1>2, <2>2 DEF Calls
<1>6. PICK step : step = [d \in 1..N |-> [v \in Calls(edges) |-> Nested(v)]]
  OBVIOUS
<1>7. step \in Steps(N, Calls(edges))
  <2> HIDE DEF Nested
  <2>1. [v \in Calls(edges) |-> Nested(v)] \in [Calls(edges) -> Calls(edges)]
    BY <1>5
  <2> QED BY <1>6, <2>1 DEF Steps
<1>8. PICK f : IsRun(f, N, Calls(edges), innermost, step)
  BY <1>4, <1>7, Recursion
<1>9. f \in [0..N -> Calls(edges)] /\ f[0] = innermost
  BY <1>8 DEF IsRun
<1>10. ASSUME NEW d \in 1..N PROVE f[d] = Nested(f[d - 1])
  <2> HIDE DEF Nested
  <2>1. d - 1 \in 0..N
    BY <1>1
  <2>2. f[d - 1] \in Calls(edges)
    BY <1>9, <2>1
  <2>3. step[d] = [v \in Calls(edges) |-> Nested(v)]
    BY <1>6
  <2>4. f[d] = step[d][f[d - 1]]
    BY <1>8 DEF IsRun
  <2> QED BY <2>2, <2>3, <2>4
<1> DEFINE Is(g) ==
      g = [d \in 0..N |-> [n \in DOMAIN edges |-> [t \in St |->
              IF d = 0 THEN [t EXCEPT !.found = TRUE] ELSE visitNode(edges, n, t, g[d - 1])]]]
<1>11. ASSUME NEW g, DOMAIN g = 0..N, g = [d \in 0..N |-> g[d]],
              g[0] = innermost, \A d \in 1..N : g[d] = Nested(g[d - 1])
       PROVE  Is(g)
  <2>1. \A d \in 0..N : d = 0 \/ d \in 1..N
    BY <1>1
  <2>2. ASSUME NEW d \in 0..N
        PROVE  g[d] = [n \in DOMAIN edges |-> [t \in St |->
                   IF d = 0 THEN [t EXCEPT !.found = TRUE] ELSE visitNode(edges, n, t, g[d - 1])]]
    <3>1. CASE d = 0
      BY <1>3, <1>11, <3>1
    <3>2. CASE d # 0
      <4>1. d \in 1..N
        BY <2>1, <3>2
      <4>2. g[d] = [n \in DOMAIN edges |-> [t \in St |-> visitNode(edges, n, t, g[d - 1])]]
        BY <1>11, <4>1
      <4> QED BY <3>2, <4>2
    <3> QED BY <3>1, <3>2
  <2> QED BY <1>11, <2>2
<1>12. Is(f)
  <2>1. DOMAIN f = 0..N /\ f = [d \in 0..N |-> f[d]]
    BY <1>9
  <2> HIDE DEF Is, Nested
  <2> QED BY <1>9, <1>10, <1>11, <2>1
<1> DEFINE Defines(g) ==
      g = [d \in 0..Len(edges) |-> [n \in DOMAIN edges |-> [t \in Searches(edges) |->
              IF d = 0 THEN [t EXCEPT !.found = TRUE] ELSE visitNode(edges, n, t, g[d - 1])]]]
<1>13. PICK g : g = CHOOSE h : Defines(h)
  OBVIOUS
<1>14. Is(g)
  <2>1. Defines(f)
    BY <1>1, <1>2, <1>12, Zenon
  <2>2. Defines(g)
    <3> HIDE DEF Defines
    <3> QED BY <2>1, <1>13, Zenon
  <2> QED BY <1>1, <1>2, <2>2, Zenon
<1>15. \A node \in DOMAIN edges : \A s \in Searches(edges) : isCyclic(edges, node, s) = g[Len(edges)][node][s]
  BY <1>13, Zenon DEF isCyclic
<1>16. g = [d \in 0..N |-> g[d]] /\ g[0] = innermost /\ \A d \in 1..N : g[d] = Nested(g[d - 1])
  <2>1. \A d \in 1..N : d \in 0..N /\ d # 0
    BY <1>1
  <2>2. 0 \in 0..N
    BY <1>1
  <2>3. g = [d \in 0..N |-> g[d]]
    BY <1>14
  <2>4. g[0] = innermost
    BY <1>3, <1>14, <2>2
  <2>5. ASSUME NEW d \in 1..N PROVE g[d] = Nested(g[d - 1])
    <3>1. d \in 0..N /\ d # 0
      BY <2>1
    <3>2. g[d] = [n \in DOMAIN edges |-> [t \in St |->
                  IF d = 0 THEN [t EXCEPT !.found = TRUE] ELSE visitNode(edges, n, t, g[d - 1])]]
      BY <1>14, <3>1
    <3> QED BY <3>1, <3>2
  <2> QED BY <2>3, <2>4, <2>5
<1>17. g = f
  <2> HIDE DEF Nested
  <2>1. AgreeOn(f, g, N)
    BY <1>9, <1>10, <1>16 DEF AgreeOn
  <2>2. \A d \in 0..N : g[d] = f[d]
    BY <2>1, RecursionIsUnique
  <2> QED BY <1>9, <1>16, <2>2
<1>18. \A d \in 1..N : \A n \in DOMAIN edges : \A t \in St : f[d][n][t] = visitNode(edges, n, t, f[d - 1])
  <2> SUFFICES ASSUME NEW d \in 1..N, NEW n \in DOMAIN edges, NEW t \in St
               PROVE  f[d][n][t] = visitNode(edges, n, t, f[d - 1])
    OBVIOUS
  <2>1. PICK v : v = f[d - 1]
    OBVIOUS
  <2>2. f[d] = [m \in DOMAIN edges |-> [u \in St |-> visitNode(edges, m, u, v)]]
    BY <1>10, <2>1, Zenon
  <2>3. f[d][n] = [u \in St |-> visitNode(edges, n, u, v)]
    BY <2>2
  <2> QED BY <2>1, <2>3
<1>19. \A n \in DOMAIN edges : \A t \in St : f[0][n][t] = [t EXCEPT !.found = TRUE]
  BY <1>3, <1>9
<1>20. IsVisit(f, edges)
  BY <1>1, <1>2, <1>9, <1>18, <1>19 DEF IsVisit
<1>21. QED BY <1>15, <1>17, <1>20

-----------------------------------------------------------------------------
(* What the search finds                                                   *)

Succ(edges, n) == {edges[n][i].to : i \in {k \in DOMAIN edges[n] : Follows(edges[n][k], n)}}

IsPath(edges, s) == \A i \in 1..(Len(s) - 1) : s[i + 1] \in Succ(edges, s[i])

Distinct(s) == \A i, j \in 1..Len(s) : s[i] = s[j] => i = j

\* No set of nodes in which each has a predecessor.
NoKnot(edges, S) ==
    \A K \in SUBSET S : K # {} => \E m \in K : \A n \in K : m \notin Succ(edges, n)

\* The nodes a search has left again.
LeftBehind(t) == t.visited \ ToSet(t.stack)

\* A search that has not found a cycle: the stack is a path, and what was left leads
\* only to what was left, and holds no cycle.
Sound(edges, t) ==
    /\ ~t.found
    /\ Distinct(t.stack) /\ ToSet(t.stack) \subseteq t.visited /\ IsPath(edges, t.stack)
    /\ \A m \in LeftBehind(t) : Succ(edges, m) \subseteq LeftBehind(t)
    /\ NoKnot(edges, LeftBehind(t))

\* The last node of a path leads back to it.
EndsInItself(edges, s) ==
    /\ s # <<>> /\ IsPath(edges, s)
    /\ \E i \in 1..Len(s) : s[i] \in Succ(edges, s[Len(s)])

LeadsTo(edges, s, n) == s # <<>> => n \in Succ(edges, s[Len(s)])

\* A stack with as many nodes as there are has them all.
LEMMA FullStack ==
    ASSUME NEW N \in Nat, NEW s \in Seq(1..N), Distinct(s), N <= Len(s), NEW n \in 1..N
    PROVE  \E i \in 1..Len(s) : s[i] = n
<1>1. Len(s) \in Nat /\ s \in [1..Len(s) -> 1..N]
  OBVIOUS
<1>2. IsFiniteSet(1..N) /\ Cardinality(1..N) = N /\ IsFiniteSet(1..Len(s)) /\ Cardinality(1..Len(s)) = Len(s)
  BY <1>1, NumbersUpTo
<1>3. SUFFICES ASSUME \A i \in 1..Len(s) : s[i] # n PROVE FALSE
  OBVIOUS
<1>4. s \in [1..Len(s) -> (1..N) \ {n}]
  BY <1>1, <1>3
<1>5. IsFiniteSet((1..N) \ {n}) /\ Cardinality((1..N) \ {n}) = N - 1
  BY <1>2, FS_RemoveElement
<1>6. Cardinality((1..N) \ {n}) < Cardinality(1..Len(s))
  BY <1>1, <1>2, <1>5
<1>7. \E i, j \in 1..Len(s) : i # j /\ s[i] = s[j]
  <2>1. PICK A, B : A = 1..Len(s) /\ B = (1..N) \ {n}
    OBVIOUS
  <2>2. IsFiniteSet(A) /\ IsFiniteSet(B) /\ Cardinality(B) < Cardinality(A) /\ s \in [A -> B]
    BY <1>2, <1>4, <1>5, <1>6, <2>1
  <2>3. \E i, j \in A : i # j /\ s[i] = s[j]
    BY <2>2, FS_PigeonHole
  <2> QED BY <2>1, <2>3
<1>8. QED BY <1>7 DEF Distinct

\* A node whose predecessors have all been left, but which has not, makes no knot.
LEMMA KnotsStayOut ==
    ASSUME NEW edges, NEW S, NoKnot(edges, S), NEW n, n \notin S,
           n \notin Succ(edges, n), \A m \in S : Succ(edges, m) \subseteq S
    PROVE  NoKnot(edges, S \cup {n})
<1> SUFFICES ASSUME NEW K \in SUBSET (S \cup {n}), K # {}
             PROVE  \E m \in K : \A k \in K : m \notin Succ(edges, k)
  BY Zenon DEF NoKnot
<1>1. CASE n \in K
  BY <1>1
<1>2. CASE n \notin K
  BY <1>2 DEF NoKnot
<1>3. QED BY <1>1, <1>2

\* A node is put on the stack.
LEMMA EnterKeepsSound ==
    ASSUME NEW edges, NEW t \in Searches(edges), Sound(edges, t), NEW n \in DOMAIN edges,
           n \notin t.visited, LeadsTo(edges, t.stack, n),
           NEW s, s.visited = t.visited \cup {n}, s.stack = Append(t.stack, n), ~s.found
    PROVE  Sound(edges, s) /\ LeftBehind(s) = LeftBehind(t)
<1>1. PICK q \in Seq(DOMAIN edges) : q = t.stack
  BY DEF Searches
<1>2. PICK r : r = Append(q, n)
  OBVIOUS
<1>3. Len(q) \in Nat /\ Len(r) = Len(q) + 1 /\ r[Len(q) + 1] = n /\ \A i \in 1..Len(q) : r[i] = q[i]
  BY <1>2
<1>4. s.stack = r /\ s.visited = t.visited \cup {n} /\ ~s.found
  BY <1>1, <1>2
<1>5. ToSet(r) = ToSet(q) \cup {n}
  <2>1. \A i \in 1..Len(r) : i \in 1..Len(q) \/ i = Len(q) + 1
    BY <1>3
  <2>2. \A i \in 1..Len(q) : i \in 1..Len(r)
    BY <1>3
  <2>3. DOMAIN q = 1..Len(q) /\ DOMAIN r = 1..Len(r) /\ Len(q) + 1 \in 1..Len(r)
    BY <1>3
  <2> QED BY <1>3, <2>1, <2>2, <2>3 DEF ToSet
<1>6. n \notin ToSet(q) /\ ToSet(q) \subseteq t.visited
  BY <1>1 DEF Sound
<1>7. LeftBehind(s) = LeftBehind(t)
  BY <1>1, <1>4, <1>5, <1>6 DEF LeftBehind
<1>8. Distinct(r)
  <2>1. \A i \in 1..Len(q) : q[i] # n
    BY <1>6 DEF ToSet
  <2>2. \A i \in 1..Len(r) : i \in 1..Len(q) \/ i = Len(q) + 1
    BY <1>3
  <2>3. \A i, j \in 1..Len(q) : q[i] = q[j] => i = j
    BY <1>1 DEF Sound, Distinct
  <2> QED BY <1>3, <2>1, <2>2, <2>3 DEF Distinct
<1>9. IsPath(edges, r)
  <2> SUFFICES ASSUME NEW i \in 1..(Len(r) - 1) PROVE r[i + 1] \in Succ(edges, r[i])
    BY DEF IsPath
  <2>1. CASE i = Len(q)
    <3>1. i \in 1..Len(q) /\ q # <<>>
      BY <1>3, <2>1
    <3>2. n \in Succ(edges, q[Len(q)])
      BY <1>1, <3>1 DEF LeadsTo
    <3> QED BY <1>3, <2>1, <3>1, <3>2
  <2>2. CASE i # Len(q)
    <3>1. i \in 1..Len(q) /\ i + 1 \in 1..Len(q) /\ i \in 1..(Len(q) - 1)
      BY <1>3, <2>2
    <3>2. q[i + 1] \in Succ(edges, q[i])
      BY <1>1, <3>1 DEF Sound, IsPath
    <3> QED BY <1>3, <3>1, <3>2
  <2> QED BY <2>1, <2>2
<1>10. QED BY <1>4, <1>5, <1>6, <1>7, <1>8, <1>9 DEF Sound

\* A node is taken off the stack when all it leads to was left.
LEMMA LeaveKeepsSound ==
    ASSUME NEW edges, NEW t \in Searches(edges), Sound(edges, t), NEW n \in DOMAIN edges,
           NEW q \in Seq(DOMAIN edges), t.stack = Append(q, n), Succ(edges, n) \subseteq LeftBehind(t),
           NEW s, s = Leave(t, n)
    PROVE  /\ s.visited = t.visited /\ s.stack = q /\ ~s.found
           /\ Sound(edges, s) /\ n \in LeftBehind(s)
<1>1. PICK r : r = t.stack
  OBVIOUS
<1>2. r \in Seq(DOMAIN edges) /\ Len(q) \in Nat /\ Len(r) = Len(q) + 1 /\ r[Len(q) + 1] = n
      /\ \A i \in 1..Len(q) : r[i] = q[i]
  BY <1>1
<1>3. DOMAIN r = 1..Len(r) /\ DOMAIN q = 1..Len(q) /\ Len(q) + 1 \in 1..Len(r)
      /\ \A i \in 1..Len(r) : i \in 1..Len(q) \/ i = Len(q) + 1
  BY <1>2
<1>4. Distinct(r) /\ ToSet(r) \subseteq t.visited /\ IsPath(edges, r) /\ ~t.found
  BY <1>1 DEF Sound
<1>5. s = [t EXCEPT !.stack = q]
  <2>1. Contains(r, n)
    BY <1>2, <1>3 DEF Contains
  <2>2. PICK i : i = CHOOSE k \in DOMAIN r : r[k] = n
    OBVIOUS
  <2>3. i \in 1..Len(r) /\ r[i] = n
    BY <1>2, <1>3, <2>2
  <2>4. i = Len(q) + 1
    BY <1>2, <1>3, <1>4, <2>3 DEF Distinct
  <2>5. PICK rest : rest = RemoveAt(r, i)
    OBVIOUS
  <2>6. /\ rest \in Seq(DOMAIN edges) /\ Len(rest) = Len(r) - 1
        /\ \A k \in 1..(Len(r) - 1) : rest[k] = IF k < i THEN r[k] ELSE r[k + 1]
    BY <1>2, <2>3, <2>5, RemoveAtDef
  <2>7. Len(rest) = Len(q) /\ \A k \in 1..Len(q) : rest[k] = q[k]
    BY <1>2, <2>4, <2>6
  <2>8. rest = q
    BY <2>6, <2>7
  <2> QED BY <1>1, <2>1, <2>2, <2>5, <2>8 DEF Leave
<1>6. s.visited = t.visited /\ s.stack = q /\ ~s.found
  <2>1. t = [visited |-> t.visited, stack |-> t.stack, found |-> t.found]
    BY DEF Searches
  <2> QED BY <1>4, <1>5, <2>1
<1>7. ToSet(r) = ToSet(q) \cup {n} /\ n \notin ToSet(q)
  <2>1. \A i \in 1..Len(q) : i \in 1..Len(r) /\ i # Len(q) + 1
    BY <1>2
  <2>2. \A i \in 1..Len(q) : q[i] # n
    BY <1>2, <1>3, <1>4, <2>1 DEF Distinct
  <2> QED BY <1>2, <1>3, <2>1, <2>2 DEF ToSet
<1>8. LeftBehind(s) = LeftBehind(t) \cup {n} /\ n \notin LeftBehind(t)
  BY <1>1, <1>4, <1>6, <1>7 DEF LeftBehind
<1>9. Distinct(q) /\ IsPath(edges, q)
  <2>1. \A i \in 1..Len(q) : i \in 1..Len(r)
    BY <1>2
  <2>2. Distinct(q)
    BY <1>2, <1>4, <2>1 DEF Distinct
  <2>3. \A i \in 1..(Len(q) - 1) : i \in 1..(Len(r) - 1) /\ i \in 1..Len(q) /\ i + 1 \in 1..Len(q)
    BY <1>2
  <2>4. IsPath(edges, q)
    BY <1>2, <1>4, <2>3 DEF IsPath
  <2> QED BY <2>2, <2>4
<1>10. \A m \in LeftBehind(t) : Succ(edges, m) \subseteq LeftBehind(t)
  BY DEF Sound
<1>11. NoKnot(edges, LeftBehind(s))
  <2>1. n \notin Succ(edges, n)
    BY <1>8
  <2>2. NoKnot(edges, LeftBehind(t) \cup {n})
    BY <1>8, <1>10, <2>1, KnotsStayOut DEF Sound
  <2> QED BY <1>8, <2>2
<1>12. \A m \in LeftBehind(s) : Succ(edges, m) \subseteq LeftBehind(s)
  BY <1>8, <1>10
<1>13. ToSet(q) \subseteq s.visited
  BY <1>4, <1>6, <1>7
<1>14. QED BY <1>6, <1>8, <1>9, <1>11, <1>12, <1>13 DEF Sound

\* What a call for node n may make of search t.
Outcome(edges, n, t, r) ==
    /\ r.found => EndsInItself(edges, r.stack)
    /\ ~r.found => /\ Sound(edges, r) /\ r.stack = t.stack
                   /\ t.visited \subseteq r.visited /\ n \in LeftBehind(r)

MayVisit(edges, n, t, depth) ==
    Sound(edges, t) /\ Len(edges) <= depth + Len(t.stack) /\ LeadsTo(edges, t.stack, n)

\* Nested calls that may go so deep do what they should.
Works(edges, visit, depth) ==
    \A n \in DOMAIN edges : \A t \in Searches(edges) :
        MayVisit(edges, n, t, depth) => Outcome(edges, n, t, visit[n][t])

\* When all edges of the node on top of the stack have been followed.
LEMMA FollowEdgesFinds ==
    ASSUME NEW edges, IsDag(edges), NEW node \in DOMAIN edges, NEW s \in Searches(edges),
           NEW visit \in Calls(edges), NEW depth \in Nat, Works(edges, visit, depth),
           Sound(edges, s), Len(edges) <= depth + Len(s.stack),
           s.stack # <<>>, s.stack[Len(s.stack)] = node,
           NEW r, r = followEdges(edges, node, s, visit)
    PROVE  /\ r \in Searches(edges)
           /\ r.found => EndsInItself(edges, r.stack)
           /\ ~r.found => /\ Sound(edges, r) /\ r.stack = s.stack
                          /\ s.visited \subseteq r.visited /\ Succ(edges, node) \subseteq LeftBehind(r)
<1>1. PICK at : at = edges[node]
  OBVIOUS
<1>2. PICK N \in Nat : N = Len(at) /\ DOMAIN at = 1..N /\ \A i \in 1..N : at[i].to \in DOMAIN edges
  <2>1. at \in Seq(ToSet(at)) /\ \A i \in DOMAIN at : at[i].to \in DOMAIN edges
    BY <1>1 DEF IsDag, IsSeq
  <2> QED BY <2>1
<1>3. PICK after \in [0..N -> Searches(edges)] :
          /\ after[0] = s
          /\ \A i \in 1..N : after[i] = AfterEdge(at[i], node, visit, after[i - 1])
          /\ r = after[N]
  <2>1. \E after \in [0..Len(edges[node]) -> Searches(edges)] :
            /\ after[0] = s
            /\ \A i \in 1..Len(edges[node]) :
                   after[i] = AfterEdge(edges[node][i], node, visit, after[i - 1])
            /\ r = after[Len(edges[node])]
    <3>1. PICK after \in [0..Len(edges[node]) -> Searches(edges)] :
            /\ after[0] = s
            /\ \A i \in 1..Len(edges[node]) :
                   after[i] = AfterEdge(edges[node][i], node, visit, after[i - 1])
            /\ followEdges(edges, node, s, visit) = after[Len(edges[node])]
      BY FollowEdgesDef
    <3> QED BY <3>1
  <2>2. N = Len(edges[node]) /\ at = edges[node]
    BY <1>1, <1>2
  <2> QED BY <2>1, <2>2, Zenon
<1> DEFINE Passed(t, i) ==
             /\ Sound(edges, t) /\ t.stack = s.stack /\ s.visited \subseteq t.visited
             /\ \A j \in 1..i : Follows(at[j], node) => at[j].to \in LeftBehind(t)
           Right(i) == /\ after[i].found => EndsInItself(edges, after[i].stack)
                       /\ ~after[i].found => Passed(after[i], i)
           Wrong == {i \in 0..N : ~Right(i)}
<1>4. Right(0)
  <2>1. ~s.found
    BY DEF Sound
  <2>2. \A j \in 1..0 : FALSE
    OBVIOUS
  <2>3. Passed(s, 0)
    BY <2>2
  <2>4. after[0] = s
    BY <1>3
  <2> HIDE DEF Passed
  <2> QED BY <2>1, <2>3, <2>4
<1>5. ASSUME NEW i \in 1..N, Right(i - 1) PROVE Right(i)
  <2>1. PICK t \in Searches(edges) : t = after[i - 1]
    <3>1. i - 1 \in 0..N
      BY <1>2
    <3> QED BY <1>3, <3>1
  <2>2. PICK u : u = after[i]
    OBVIOUS
  <2>3. u = AfterEdge(at[i], node, visit, t)
    BY <1>3, <2>1, <2>2
  <2>4. t.found => EndsInItself(edges, t.stack)
    BY <1>5, <2>1
  <2>5. ~t.found => Passed(t, i - 1)
    <3> HIDE DEF Passed
    <3> QED BY <1>5, <2>1
  <2>6. \A j \in 1..i : j \in 1..(i - 1) \/ j = i
    OBVIOUS
  <2>7. SUFFICES /\ u.found => EndsInItself(edges, u.stack)
                 /\ ~u.found => Passed(u, i)
    <3> HIDE DEF Passed
    <3> QED BY <2>2
  <2>8. CASE t.found
    <3>1. u = t
      BY <2>3, <2>8 DEF AfterEdge
    <3> QED BY <2>4, <2>8, <3>1
  <2>9. CASE ~t.found /\ ~Follows(at[i], node)
    <3>1. u = t
      BY <2>3, <2>9 DEF AfterEdge
    <3> QED BY <2>5, <2>6, <2>9, <3>1
  <2>10. CASE ~t.found /\ Follows(at[i], node)
    <3>1. PICK n \in DOMAIN edges : n = at[i].to
      BY <1>2
    <3>2. u = visit[n][t]
      BY <2>3, <2>10, <3>1 DEF AfterEdge
    <3>3. Sound(edges, t) /\ t.stack = s.stack /\ s.visited \subseteq t.visited
          /\ \A j \in 1..(i - 1) : Follows(at[j], node) => at[j].to \in LeftBehind(t)
      BY <2>5, <2>10
    <3>4. n \in Succ(edges, node)
      BY <1>1, <1>2, <2>10, <3>1 DEF Succ
    <3>5. MayVisit(edges, n, t, depth)
      BY <3>3, <3>4 DEF MayVisit, LeadsTo
    <3>6. Outcome(edges, n, t, u)
      BY <3>2, <3>5 DEF Works
    <3>7. u.found => EndsInItself(edges, u.stack)
      BY <3>6 DEF Outcome
    <3>8. ASSUME ~u.found PROVE Passed(u, i)
      <4>1. Sound(edges, u) /\ u.stack = t.stack /\ t.visited \subseteq u.visited /\ n \in LeftBehind(u)
        BY <3>6, <3>8 DEF Outcome
      <4>2. LeftBehind(t) \subseteq LeftBehind(u)
        BY <4>1 DEF LeftBehind
      <4> QED BY <2>6, <3>1, <3>3, <4>1, <4>2
    <3> QED BY <3>7, <3>8
  <2> QED BY <2>8, <2>9, <2>10
<1>6. Wrong = {}
  <2>1. SUFFICES ASSUME Wrong # {} PROVE FALSE
    OBVIOUS
  <2>2. PICK m \in Wrong : \A k \in Wrong : m <= k
    <3>1. Wrong \subseteq Nat
      OBVIOUS
    <3> HIDE DEF Wrong
    <3> QED BY <2>1, <3>1, LeastNumber
  <2> HIDE DEF Right
  <2>3. m \in 0..N /\ ~Right(m) /\ m # 0
    BY <1>4, <2>2
  <2>4. m \in 1..N /\ m - 1 \in 0..N /\ ~(m <= m - 1)
    BY <2>3
  <2>5. Right(m - 1)
    BY <2>2, <2>4
  <2> QED BY <1>5, <2>3, <2>4, <2>5
<1>7. Right(N)
  <2> HIDE DEF Right
  <2> QED BY <1>6
<1>8. ASSUME ~r.found PROVE Succ(edges, node) \subseteq LeftBehind(r)
  <2>1. Passed(r, N)
    <3> HIDE DEF Passed
    <3> QED BY <1>3, <1>7, <1>8
  <2> QED BY <1>1, <1>2, <2>1 DEF Succ
<1>9. r \in Searches(edges)
  BY <1>3
<1>10. QED BY <1>3, <1>7, <1>8, <1>9

\* A node that is on the stack already closes a cycle.
LEMMA CycleIsClosed ==
    ASSUME NEW edges, NEW t \in Searches(edges), NEW n, NEW depth, MayVisit(edges, n, t, depth),
           Contains(t.stack, n), NEW r, r = [t EXCEPT !.found = TRUE]
    PROVE  Outcome(edges, n, t, r)
<1>1. r.found /\ r.stack = t.stack
  BY DEF Searches
<1>2. t.stack \in Seq(DOMAIN edges) /\ Sound(edges, t) /\ LeadsTo(edges, t.stack, n)
  BY DEF Searches, MayVisit
<1>3. PICK i \in 1..Len(t.stack) : t.stack[i] = n
  BY DEF Contains
<1>4. t.stack # <<>>
  BY <1>2, <1>3
<1>5. EndsInItself(edges, t.stack)
  BY <1>2, <1>3, <1>4 DEF LeadsTo, EndsInItself, Sound
<1>6. QED BY <1>1, <1>5 DEF Outcome

\* A call does what it should when those nested in it do.
LEMMA VisitNodeFinds ==
    ASSUME NEW edges, IsDag(edges), NEW node \in DOMAIN edges, NEW t \in Searches(edges),
           NEW visit \in Calls(edges), NEW depth \in Nat, Works(edges, visit, depth),
           MayVisit(edges, node, t, depth + 1),
           NEW r, r = visitNode(edges, node, t, visit)
    PROVE  Outcome(edges, node, t, r)
<1>1. CASE Contains(t.stack, node)
  <2>1. PICK u : u = [t EXCEPT !.found = TRUE]
    OBVIOUS
  <2>2. r = u
    BY <1>1, <2>1 DEF visitNode
  <2> QED BY <1>1, <2>1, <2>2, CycleIsClosed
<1>2. CASE ~Contains(t.stack, node) /\ node \in t.visited
  <2>1. r = t
    BY <1>2 DEF visitNode
  <2>2. t.stack \in Seq(DOMAIN edges) /\ DOMAIN t.stack = 1..Len(t.stack)
    BY DEF Searches
  <2>3. node \in LeftBehind(t)
    BY <1>2, <2>2 DEF LeftBehind, ToSet, Contains
  <2>4. Sound(edges, t) /\ ~t.found
    BY DEF MayVisit, Sound
  <2> QED BY <2>1, <2>3, <2>4 DEF Outcome
<1>3. CASE ~Contains(t.stack, node) /\ node \notin t.visited
  <2>1. PICK q \in Seq(DOMAIN edges) : q = t.stack
    BY DEF Searches
  <2>2. PICK top : top = Append(q, node)
    OBVIOUS
  <2>3. top \in Seq(DOMAIN edges) /\ Len(top) = Len(q) + 1 /\ top[Len(top)] = node /\ top # <<>> /\ Len(q) \in Nat
    BY <2>2
  <2>4. PICK s : s = Search(t.visited \cup {node}, top, FALSE)
    OBVIOUS
  <2>5. s \in Searches(edges) /\ s.visited = t.visited \cup {node} /\ s.stack = top /\ ~s.found
    BY <2>3, <2>4 DEF Search, Searches
  <2>6. Sound(edges, t) /\ LeadsTo(edges, t.stack, node) /\ Len(edges) <= (depth + 1) + Len(q)
    BY <2>1 DEF MayVisit
  <2>7. Sound(edges, s) /\ LeftBehind(s) = LeftBehind(t)
    BY <1>3, <2>1, <2>2, <2>5, <2>6, EnterKeepsSound
  <2>8. Len(edges) <= depth + Len(s.stack)
    <3>1. edges \in Seq(ToSet(edges))
      BY DEF IsDag, IsSeq
    <3>2. Len(edges) \in Nat
      BY <3>1
    <3> QED BY <2>3, <2>5, <2>6, <3>2
  <2>9. PICK after : after = followEdges(edges, node, s, visit)
    OBVIOUS
  <2>10. /\ after \in Searches(edges)
         /\ after.found => EndsInItself(edges, after.stack)
         /\ ~after.found => /\ Sound(edges, after) /\ after.stack = s.stack
                            /\ s.visited \subseteq after.visited
                            /\ Succ(edges, node) \subseteq LeftBehind(after)
    <3>1. s \in Searches(edges) /\ s.stack # <<>> /\ s.stack[Len(s.stack)] = node /\ Sound(edges, s)
      BY <2>3, <2>5, <2>7
    <3> QED BY <2>8, <2>9, <3>1, FollowEdgesFinds
  <2>11. r = IF after.found THEN after ELSE Leave(after, node)
    BY <1>3, <2>1, <2>2, <2>4, <2>9, Zenon DEF visitNode
  <2>12. CASE after.found
    BY <2>10, <2>11, <2>12 DEF Outcome
  <2>13. CASE ~after.found
    <3>1. r = Leave(after, node)
      BY <2>11, <2>13
    <3>2. Sound(edges, after) /\ after.stack = Append(q, node) /\ Succ(edges, node) \subseteq LeftBehind(after)
      BY <2>2, <2>5, <2>10, <2>13
    <3>3. /\ r.visited = after.visited /\ r.stack = q /\ ~r.found
          /\ Sound(edges, r) /\ node \in LeftBehind(r)
      BY <2>10, <3>1, <3>2, LeaveKeepsSound
    <3> QED BY <2>1, <2>5, <2>10, <2>13, <3>3 DEF Outcome
  <2> QED BY <2>12, <2>13
<1>4. QED BY <1>1, <1>2, <1>3

\* Every call does what it should, however deep it is.
LEMMA IsCyclicFinds ==
    ASSUME NEW edges, IsDag(edges), NEW node \in DOMAIN edges, NEW t \in Searches(edges),
           MayVisit(edges, node, t, Len(edges))
    PROVE  Outcome(edges, node, t, isCyclic(edges, node, t)) /\ isCyclic(edges, node, t) \in Searches(edges)
<1>1. PICK N \in Nat : N = Len(edges) /\ DOMAIN edges = 1..N
  <2>1. edges \in Seq(ToSet(edges))
    BY DEF IsDag, IsSeq
  <2> QED BY <2>1
<1>2. PICK visit : IsVisit(visit, edges) /\ isCyclic(edges, node, t) = visit[N][node][t]
  BY <1>1, IsCyclicDef
<1>3. visit \in [0..N -> Calls(edges)]
  BY <1>1, <1>2 DEF IsVisit
<1> DEFINE Wrong == {d \in 0..N : ~Works(edges, visit[d], d)}
<1>4. Works(edges, visit[0], 0)
  <2> SUFFICES ASSUME NEW n \in DOMAIN edges, NEW u \in Searches(edges), MayVisit(edges, n, u, 0)
               PROVE  Outcome(edges, n, u, visit[0][n][u])
    BY DEF Works
  <2>1. PICK r : r = [u EXCEPT !.found = TRUE]
    OBVIOUS
  <2>2. visit[0][n][u] = r
    BY <1>2, <2>1 DEF IsVisit
  <2>3. PICK q : q = u.stack
    OBVIOUS
  <2>4. Contains(u.stack, n)
    <3>1. q \in Seq(1..N) /\ Distinct(q) /\ N <= 0 + Len(q) /\ n \in 1..N
      BY <1>1, <2>3 DEF Searches, MayVisit, Sound
    <3>2. N <= Len(q)
      BY <3>1
    <3>3. \E i \in 1..Len(q) : q[i] = n
      BY <3>1, <3>2, FullStack
    <3> QED BY <2>3, <3>3 DEF Contains
  <2> QED BY <2>1, <2>2, <2>4, CycleIsClosed
<1>5. ASSUME NEW d \in 1..N, Works(edges, visit[d - 1], d - 1) PROVE Works(edges, visit[d], d)
  <2> SUFFICES ASSUME NEW n \in DOMAIN edges, NEW u \in Searches(edges), MayVisit(edges, n, u, d)
               PROVE  Outcome(edges, n, u, visit[d][n][u])
    BY DEF Works
  <2>1. PICK v \in Calls(edges) : v = visit[d - 1]
    BY <1>1, <1>3
  <2>2. visit[d][n][u] = visitNode(edges, n, u, v)
    BY <1>1, <1>2, <2>1 DEF IsVisit
  <2>3. d - 1 \in Nat /\ (d - 1) + 1 = d
    BY <1>1
  <2>4. Works(edges, v, d - 1) /\ MayVisit(edges, n, u, (d - 1) + 1)
    BY <1>5, <2>1, <2>3
  <2> QED BY <2>2, <2>3, <2>4, VisitNodeFinds
<1>6. Wrong = {}
  <2>1. SUFFICES ASSUME Wrong # {} PROVE FALSE
    OBVIOUS
  <2>2. PICK m \in Wrong : \A k \in Wrong : m <= k
    <3>1. Wrong \subseteq Nat
      OBVIOUS
    <3> HIDE DEF Wrong
    <3> QED BY <2>1, <3>1, LeastNumber
  <2>3. m \in 0..N /\ ~Works(edges, visit[m], m) /\ m # 0
    BY <1>4, <2>2
  <2>4. m \in 1..N /\ m - 1 \in 0..N /\ ~(m <= m - 1)
    BY <2>3
  <2>5. Works(edges, visit[m - 1], m - 1)
    BY <2>2, <2>4
  <2> QED BY <1>5, <2>3, <2>4, <2>5
<1>7. Works(edges, visit[N], N)
  BY <1>6
<1>8. visit[N] \in Calls(edges)
  BY <1>3
<1>9. visit[N][node][t] \in Searches(edges)
  BY <1>8 DEF Calls
<1>10. QED BY <1>1, <1>2, <1>7, <1>9 DEF Works

TryNode(edges, n, t) == IF t.found THEN t ELSE isCyclic(edges, n, t)

Untouched(t) == t.visited = {} /\ t.stack = <<>> /\ ~t.found

\* The nodes are tried one after the other.
LEMMA HasCyclesDef ==
    ASSUME NEW edges, IsDag(edges)
    PROVE  \E tried \in [0..Len(edges) -> Searches(edges)] :
               /\ Untouched(tried[0])
               /\ \A n \in 1..Len(edges) : tried[n] = TryNode(edges, n, tried[n - 1])
               /\ hasCycles(edges) = tried[Len(edges)]
<1>1. Len(edges) \in Nat /\ DOMAIN edges = 1..Len(edges)
  <2>1. edges \in Seq(ToSet(edges))
    BY DEF IsDag, IsSeq
  <2> QED BY <2>1
<1>2. PICK N \in Nat : N = Len(edges)
  BY <1>1
<1>3. PICK St : St = Searches(edges)
  OBVIOUS
<1>4. PICK start : start = Search({}, <<>>, FALSE)
  OBVIOUS
<1>5. start \in St /\ Untouched(start)
  BY <1>3, <1>4 DEF Search, Searches, Untouched
<1>6. ASSUME NEW n \in 1..N, NEW t \in St PROVE TryNode(edges, n, t) \in St
  <2>1. CASE t.found
    BY <2>1 DEF TryNode
  <2>2. CASE ~t.found
    <3>1. n \in DOMAIN edges /\ N \in 0..N
      BY <1>1, <1>2
    <3>2. PICK visit : IsVisit(visit, edges) /\ isCyclic(edges, n, t) = visit[N][n][t]
      BY <1>2, <1>3, <3>1, IsCyclicDef
    <3>3. visit[N] \in Calls(edges)
      BY <1>2, <3>1, <3>2 DEF IsVisit
    <3>4. visit[N][n][t] \in St
      BY <1>3, <3>1, <3>3 DEF Calls
    <3> QED BY <2>2, <3>2, <3>4 DEF TryNode
  <2> QED BY <2>1, <2>2
<1>7. PICK step : step = [n \in 1..N |-> [t \in St |-> TryNode(edges, n, t)]]
  OBVIOUS
<1>8. step \in Steps(N, St)
  <2>1. \A n \in 1..N : [t \in St |-> TryNode(edges, n, t)] \in [St -> St]
    BY <1>6
  <2> QED BY <1>7, <2>1 DEF Steps
<1>9. PICK f : IsRun(f, N, St, start, step)
  BY <1>5, <1>8, Recursion
<1>10. f \in [0..N -> St] /\ f[0] = start
  BY <1>9 DEF IsRun
<1>11. ASSUME NEW n \in 1..N PROVE f[n] = TryNode(edges, n, f[n - 1])
  <2>1. n - 1 \in 0..N
    BY <1>2
  <2>2. f[n - 1] \in St
    BY <1>10, <2>1
  <2>3. step[n] = [t \in St |-> TryNode(edges, n, t)]
    BY <1>7
  <2>4. f[n] = step[n][f[n - 1]]
    BY <1>9 DEF IsRun
  <2> QED BY <2>2, <2>3, <2>4
<1> DEFINE Is(g) ==
      g = [n \in 0..Len(edges) |->
              IF n = 0 THEN Search({}, <<>>, FALSE)
              ELSE LET last == g[n - 1]
                   IN  IF last.found THEN last ELSE isCyclic(edges, n, last)]
    From(g) == g = [n \in 0..N |-> IF n = 0 THEN start ELSE TryNode(edges, n, g[n - 1])]
<1>12. \A g : From(g) => Is(g)
  BY <1>2, <1>4, Zenon DEF TryNode
<1>13. \A g : Is(g) => From(g)
  BY <1>2, <1>4, Zenon DEF TryNode
<1>14. From(f)
  <2>1. f = [n \in 0..N |-> f[n]]
    BY <1>10
  <2>2. \A n \in 0..N : n = 0 \/ n \in 1..N
    BY <1>2
  <2>3. \A n \in 0..N : f[n] = IF n = 0 THEN start ELSE TryNode(edges, n, f[n - 1])
    BY <1>10, <1>11, <2>2
  <2> QED BY <2>1, <2>3
<1>15. PICK g : g = CHOOSE h : Is(h)
  OBVIOUS
<1>16. From(g)
  <2> HIDE DEF Is, From
  <2> QED BY <1>12, <1>13, <1>14, <1>15, Zenon
<1>17. hasCycles(edges) = g[Len(edges)]
  BY <1>15, Zenon DEF hasCycles
<1>18. g = [n \in 0..N |-> g[n]] /\ g[0] = start /\ \A n \in 1..N : g[n] = TryNode(edges, n, g[n - 1])
  <2>1. \A n \in 1..N : n \in 0..N /\ n # 0
    BY <1>2
  <2>2. 0 \in 0..N
    BY <1>2
  <2> QED BY <1>16, <2>1, <2>2
<1>19. g = f
  <2>1. AgreeOn(f, g, N)
    BY <1>10, <1>11, <1>18 DEF AgreeOn
  <2>2. \A n \in 0..N : g[n] = f[n]
    BY <2>1, RecursionIsUnique
  <2> QED BY <1>10, <1>18, <2>2
<1>20. QED BY <1>2, <1>3, <1>5, <1>10, <1>11, <1>17, <1>19

\* The search finds a path that leads back to itself, or there is no cycle.
LEMMA HasCyclesFinds ==
    ASSUME NEW edges, IsDag(edges), NEW r, r = hasCycles(edges)
    PROVE  /\ r \in Searches(edges)
           /\ r.found => EndsInItself(edges, r.stack)
           /\ ~r.found => NoKnot(edges, DOMAIN edges)
<1>1. PICK N \in Nat : N = Len(edges) /\ DOMAIN edges = 1..N
  <2>1. edges \in Seq(ToSet(edges))
    BY DEF IsDag, IsSeq
  <2> QED BY <2>1
<1>2. PICK tried \in [0..N -> Searches(edges)] :
          /\ Untouched(tried[0])
          /\ \A n \in 1..N : tried[n] = TryNode(edges, n, tried[n - 1])
          /\ r = tried[N]
  BY <1>1, HasCyclesDef
<1> DEFINE Passed(t, n) == Sound(edges, t) /\ t.stack = <<>> /\ 1..n \subseteq t.visited
           Right(n) == /\ tried[n].found => EndsInItself(edges, tried[n].stack)
                       /\ ~tried[n].found => Passed(tried[n], n)
           Wrong == {n \in 0..N : ~Right(n)}
<1>3. ASSUME NEW t, t.stack = <<>> PROVE LeftBehind(t) = t.visited
  <2>1. ToSet(<<>>) = {}
    BY DEF ToSet
  <2> QED BY <1>3, <2>1 DEF LeftBehind
<1>4. Right(0)
  <2>1. PICK t : t = tried[0]
    OBVIOUS
  <2>2. t.visited = {} /\ t.stack = <<>> /\ ~t.found
    BY <1>2, <2>1 DEF Untouched
  <2>3. LeftBehind(t) = {}
    BY <1>3, <2>2
  <2>4. NoKnot(edges, {})
    BY DEF NoKnot
  <2>5. PICK empty : empty = <<>>
    OBVIOUS
  <2>6. 1..Len(empty) = {} /\ 1..(Len(empty) - 1) = {} /\ ToSet(empty) = {}
    BY <2>5 DEF ToSet
  <2>7. Distinct(empty) /\ IsPath(edges, empty)
    BY <2>6 DEF Distinct, IsPath
  <2>8. Sound(edges, t)
    BY <2>2, <2>3, <2>4, <2>5, <2>6, <2>7 DEF Sound
  <2>9. Passed(t, 0)
    BY <2>2, <2>8
  <2> HIDE DEF Passed
  <2> QED BY <2>1, <2>2, <2>9
<1>5. ASSUME NEW n \in 1..N, Right(n - 1) PROVE Right(n)
  <2>1. PICK t \in Searches(edges) : t = tried[n - 1]
    BY <1>1, <1>2
  <2>2. PICK u : u = tried[n]
    OBVIOUS
  <2>3. u = TryNode(edges, n, t)
    BY <1>2, <2>1, <2>2
  <2>4. (t.found => EndsInItself(edges, t.stack)) /\ (~t.found => Passed(t, n - 1))
    <3> HIDE DEF Passed
    <3> QED BY <1>5, <2>1
  <2>5. SUFFICES (u.found => EndsInItself(edges, u.stack)) /\ (~u.found => Passed(u, n))
    <3> HIDE DEF Passed
    <3> QED BY <2>2
  <2>6. CASE t.found
    BY <2>3, <2>4, <2>6 DEF TryNode
  <2>7. CASE ~t.found
    <3>1. u = isCyclic(edges, n, t)
      BY <2>3, <2>7 DEF TryNode
    <3>2. Sound(edges, t) /\ t.stack = <<>> /\ 1..(n - 1) \subseteq t.visited
      BY <2>4, <2>7
    <3>3. Len(t.stack) = 0
      BY <3>2
    <3>4. MayVisit(edges, n, t, Len(edges))
      BY <1>1, <3>2, <3>3 DEF MayVisit, LeadsTo
    <3>5. Outcome(edges, n, t, u)
      BY <1>1, <3>1, <3>4, IsCyclicFinds
    <3>6. ASSUME ~u.found PROVE Passed(u, n)
      <4>1. Sound(edges, u) /\ u.stack = <<>> /\ t.visited \subseteq u.visited /\ n \in u.visited
        BY <3>2, <3>5, <3>6 DEF Outcome, LeftBehind
      <4>2. \A k \in 1..n : k \in 1..(n - 1) \/ k = n
        OBVIOUS
      <4> QED BY <3>2, <4>1, <4>2
    <3> QED BY <3>5, <3>6 DEF Outcome
  <2> QED BY <2>6, <2>7
<1>6. Wrong = {}
  <2>1. SUFFICES ASSUME Wrong # {} PROVE FALSE
    OBVIOUS
  <2>2. PICK m \in Wrong : \A k \in Wrong : m <= k
    <3>1. Wrong \subseteq Nat
      OBVIOUS
    <3> HIDE DEF Wrong
    <3> QED BY <2>1, <3>1, LeastNumber
  <2> HIDE DEF Right
  <2>3. m \in 0..N /\ ~Right(m) /\ m # 0
    BY <1>4, <2>2
  <2>4. m \in 1..N /\ m - 1 \in 0..N /\ ~(m <= m - 1)
    BY <2>3
  <2>5. Right(m - 1)
    BY <2>2, <2>4
  <2> QED BY <1>5, <2>3, <2>4, <2>5
<1>7. Right(N)
  <2> HIDE DEF Right
  <2> QED BY <1>6
<1>8. r \in Searches(edges)
  BY <1>2
<1>9. ASSUME ~r.found PROVE NoKnot(edges, DOMAIN edges)
  <2>1. Sound(edges, r) /\ r.stack = <<>> /\ DOMAIN edges \subseteq r.visited
    BY <1>1, <1>2, <1>7, <1>9
  <2>2. LeftBehind(r) = DOMAIN edges
    BY <1>3, <1>8, <2>1 DEF Searches
  <2> QED BY <2>1, <2>2 DEF Sound
<1>10. QED BY <1>2, <1>7, <1>8, <1>9

-----------------------------------------------------------------------------
(* Parsing                                                                 *)

\* What a list of lists holds when it is made one.
LEMMA FlattenSeqDef ==
    ASSUME NEW S, NEW ss \in Seq(Seq(S))
    PROVE  /\ FlattenSeq(ss) \in Seq(S)
           /\ ToSet(FlattenSeq(ss)) = UNION {ToSet(ss[i]) : i \in DOMAIN ss}
<1>1. PICK N \in Nat : N = Len(ss) /\ DOMAIN ss = 1..N /\ \A i \in 1..N : ss[i] \in Seq(S)
  OBVIOUS
<1>2. CASE N = 0
  <2>1. FlattenSeq(ss) = ss /\ DOMAIN ss = {}
    BY <1>1, <1>2 DEF FlattenSeq
  <2>2. ss = <<>>
    BY <1>1, <1>2
  <2>3. ss \in Seq(S)
    BY <2>2
  <2> QED BY <2>1, <2>3 DEF ToSet
<1>3. CASE N # 0
  <2>1. PICK K \in Nat : N = K + 1 /\ K \in 0..K
    <3>1. N - 1 \in Nat /\ N = (N - 1) + 1 /\ N - 1 \in 0..(N - 1)
      BY <1>3
    <3> QED BY <3>1
  <2>2. PICK step : step = [i \in 1..K |-> [q \in Seq(S) |-> q \o ss[i + 1]]]
    OBVIOUS
  <2>3. step \in Steps(K, Seq(S))
    <3>1. \A i \in 1..K : ss[i + 1] \in Seq(S)
      BY <1>1, <2>1
    <3>2. \A q, r \in Seq(S) : q \o r \in Seq(S)
      OBVIOUS
    <3>3. \A i \in 1..K : [q \in Seq(S) |-> q \o ss[i + 1]] \in [Seq(S) -> Seq(S)]
      BY <3>1, <3>2
    <3> QED BY <2>2, <3>3 DEF Steps
  <2>4. ss[1] \in Seq(S)
    BY <1>1, <2>1
  <2>5. PICK f : IsRun(f, K, Seq(S), ss[1], step)
    BY <2>3, <2>4, Recursion
  <2>6. f \in [0..K -> Seq(S)] /\ f[0] = ss[1]
    BY <2>5 DEF IsRun
  <2>7. ASSUME NEW i \in 1..K PROVE f[i] = f[i - 1] \o ss[i + 1]
    <3>1. i - 1 \in 0..K
      BY <2>1
    <3>2. f[i - 1] \in Seq(S)
      BY <2>6, <3>1
    <3>3. step[i] = [q \in Seq(S) |-> q \o ss[i + 1]]
      BY <2>2
    <3>4. f[i] = step[i][f[i - 1]]
      BY <2>5 DEF IsRun
    <3> QED BY <3>2, <3>3, <3>4
  <2> DEFINE Is(g) == g = [i \in 1..Len(ss) |-> IF i = 1 THEN ss[i] ELSE g[i - 1] \o ss[i]]
             From(g) == g = [i \in 1..N |-> IF i = 1 THEN ss[i] ELSE g[i - 1] \o ss[i]]
  <2>8. PICK h : h = [i \in 1..N |-> f[i - 1]]
    OBVIOUS
  <2>9. From(h)
    <3> SUFFICES ASSUME NEW i \in 1..N PROVE h[i] = IF i = 1 THEN ss[i] ELSE h[i - 1] \o ss[i]
      <4>1. h = [i \in 1..N |-> h[i]]
        BY <2>8
      <4> QED BY <4>1
    <3>1. CASE i = 1
      BY <2>1, <2>6, <2>8, <3>1
    <3>2. CASE i # 1
      <4>1. i - 1 \in 1..K /\ i - 1 \in 1..N /\ (i - 1) + 1 = i
        BY <2>1, <3>2
      <4>2. f[i - 1] = f[(i - 1) - 1] \o ss[i]
        BY <2>7, <4>1
      <4>3. h[i] = f[i - 1] /\ h[i - 1] = f[(i - 1) - 1]
        BY <2>8, <4>1
      <4> QED BY <3>2, <4>2, <4>3
    <3> QED BY <3>1, <3>2
  <2>10. PICK g : g = CHOOSE x : Is(x)
    OBVIOUS
  <2>11. \A x : Is(x) <=> From(x)
    BY <1>1, Zenon
  <2>12. From(g)
    <3> HIDE DEF Is, From
    <3> QED BY <2>9, <2>10, <2>11, Zenon
  <2>13. FlattenSeq(ss) = g[N]
    <3>1. Len(ss) # 0
      BY <1>1, <1>3
    <3>2. FlattenSeq(ss) = g[Len(ss)]
      BY <2>10, <3>1, Zenon DEF FlattenSeq
    <3> QED BY <1>1, <3>2
  <2>14. \A i \in 1..N : g[i] = IF i = 1 THEN ss[i] ELSE g[i - 1] \o ss[i]
    BY <2>12
  <2> HIDE DEF Is, From
  <2> DEFINE Right(i) == g[i] \in Seq(S) /\ ToSet(g[i]) = UNION {ToSet(ss[k]) : k \in 1..i}
             Wrong == {i \in 1..N : ~Right(i)}
  <2>15. 1 \in 1..N /\ Right(1)
    <3>1. 1 \in 1..N /\ 1..1 = {1}
      BY <2>1
    <3>2. g[1] = ss[1]
      BY <2>14, <3>1
    <3> QED BY <2>4, <3>1, <3>2
  <2>16. ASSUME NEW i \in 1..N, i # 1, Right(i - 1) PROVE Right(i)
    <3>1. PICK q, r : q = g[i - 1] /\ r = ss[i]
      OBVIOUS
    <3>2. q \in Seq(S) /\ r \in Seq(S) /\ ToSet(q) = UNION {ToSet(ss[k]) : k \in 1..(i - 1)}
      BY <1>1, <2>16, <3>1
    <3>3. PICK u : u = q \o r
      OBVIOUS
    <3>4. u \in Seq(S) /\ Len(u) = Len(q) + Len(r) /\ Len(q) \in Nat /\ Len(r) \in Nat
      BY <3>2, <3>3
    <3>5. \A k \in 1..Len(u) : u[k] = IF k <= Len(q) THEN q[k] ELSE r[k - Len(q)]
      BY <3>2, <3>3
    <3>6. DOMAIN u = 1..Len(u) /\ DOMAIN q = 1..Len(q) /\ DOMAIN r = 1..Len(r)
      BY <3>2, <3>4
    <3>7. ToSet(u) = ToSet(q) \cup ToSet(r)
      <4>1. \A k \in 1..Len(u) : k \in 1..Len(q) \/ (~(k <= Len(q)) /\ k - Len(q) \in 1..Len(r))
        BY <3>4
      <4>2. ToSet(u) \subseteq ToSet(q) \cup ToSet(r)
        <5>1. ASSUME NEW k \in 1..Len(u) PROVE u[k] \in ToSet(q) \cup ToSet(r)
          <6>1. CASE k \in 1..Len(q)
            <7>1. u[k] = q[k]
              BY <3>4, <3>5, <6>1
            <7> QED BY <3>6, <6>1, <7>1 DEF ToSet
          <6>2. CASE ~(k <= Len(q)) /\ k - Len(q) \in 1..Len(r)
            BY <3>5, <3>6, <6>2 DEF ToSet
          <6> QED BY <4>1, <6>1, <6>2
        <5> QED BY <3>6, <5>1 DEF ToSet
      <4>3. \A k \in 1..Len(q) : k \in 1..Len(u) /\ k <= Len(q)
        BY <3>4
      <4>4. \A k \in 1..Len(r) : k + Len(q) \in 1..Len(u) /\ ~(k + Len(q) <= Len(q)) /\ (k + Len(q)) - Len(q) = k
        BY <3>4
      <4>5. ToSet(q) \subseteq ToSet(u)
        BY <3>5, <3>6, <4>3 DEF ToSet
      <4>6. \A k \in 1..Len(r) : u[k + Len(q)] = r[k]
        BY <3>5, <4>4
      <4>7. ToSet(r) \subseteq ToSet(u)
        <5>1. ASSUME NEW k \in 1..Len(r) PROVE r[k] \in ToSet(u)
          <6>1. k + Len(q) \in DOMAIN u /\ u[k + Len(q)] = r[k]
            BY <3>6, <4>4, <4>6
          <6> QED BY <6>1 DEF ToSet
        <5> QED BY <3>6, <5>1 DEF ToSet
      <4> QED BY <4>2, <4>5, <4>7
    <3>8. u = g[i]
      BY <2>14, <2>16, <3>1, <3>3
    <3>9. \A k \in 1..i : k \in 1..(i - 1) \/ k = i
      OBVIOUS
    <3>10. \A k \in 1..(i - 1) : k \in 1..i
      OBVIOUS
    <3>11. i \in 1..i
      BY <1>1
    <3>12. UNION {ToSet(ss[k]) : k \in 1..i} = (UNION {ToSet(ss[k]) : k \in 1..(i - 1)}) \cup ToSet(ss[i])
      BY <3>9, <3>10, <3>11
    <3> QED BY <3>1, <3>2, <3>4, <3>7, <3>8, <3>12
  <2>17. Wrong = {}
    <3>1. SUFFICES ASSUME Wrong # {} PROVE FALSE
      OBVIOUS
    <3>2. PICK m \in Wrong : \A k \in Wrong : m <= k
      <4>1. Wrong \subseteq Nat
        OBVIOUS
      <4> HIDE DEF Wrong
      <4> QED BY <3>1, <4>1, LeastNumber
    <3> HIDE DEF Right
    <3>3. m \in 1..N /\ ~Right(m) /\ m # 1
      BY <2>15, <3>2
    <3>4. m - 1 \in 1..N /\ ~(m <= m - 1)
      BY <3>3
    <3>5. Right(m - 1)
      BY <3>2, <3>4
    <3> QED BY <2>16, <3>3, <3>5
  <2>18. Right(N)
    <3>1. N \in 1..N
      BY <1>1, <1>3
    <3> HIDE DEF Right
    <3> QED BY <2>17, <3>1
  <2> QED BY <1>1, <2>13, <2>18
<1>4. QED BY <1>2, <1>3

\* Task m depends on task n.
Feeds(tasks, n, m) ==
    \E d \in ToSet(tasks[m].dependencies) :
        d.id \in DOMAIN Origins(tasks, d.type) /\ n = Origins(tasks, d.type)[d.id]

EdgeSet(tasks) ==
    UNION {{EdgeOf(tasks, n, d) : d \in ToSet(tasks[n].dependencies)} : n \in DOMAIN tasks}

LEMMA LastExists ==
    ASSUME NEW N \in Nat, NEW S, S \subseteq 1..N, S # {}
    PROVE  LastOf(S) \in S /\ \A m \in S : m <= LastOf(S)
<1> DEFINE Above == {k \in 0..N : \A m \in S : m <= k}
<1>1. N \in Above
  OBVIOUS
<1>2. PICK least \in Above : \A k \in Above : least <= k
  <2>1. Above \subseteq Nat
    OBVIOUS
  <2> HIDE DEF Above
  <2> QED BY <1>1, <2>1, LeastNumber
<1>3. least \in 0..N /\ \A m \in S : m <= least
  BY <1>2
<1>4. least \in S
  <2>1. SUFFICES ASSUME least \notin S PROVE FALSE
    OBVIOUS
  <2>2. PICK m \in S : m \in 1..N /\ m <= least
    BY <1>3
  <2>3. least - 1 \in 0..N /\ ~(least <= least - 1)
    BY <1>3, <2>2
  <2>4. \A k \in S : k \in 1..N /\ k <= least /\ k # least
    BY <1>3, <2>1
  <2>5. \A k \in S : k <= least - 1
    BY <1>3, <2>4
  <2> QED BY <1>2, <2>3, <2>5
<1>5. LastOf(S) \in S /\ \A m \in S : m <= LastOf(S)
  BY <1>3, <1>4 DEF LastOf
<1>6. QED BY <1>5

TasksOf(tasks, type, id) ==
    {n \in DOMAIN tasks : IF type = "task" THEN tasks[n].name = id ELSE Contains(tasks[n].results, id)}

\* What is provided has a last task that provides it.
LEMMA OriginIsLast ==
    ASSUME NEW tasks, IsDefinition(tasks), NEW type, NEW id
    PROVE  /\ id \in DOMAIN Origins(tasks, type) <=> TasksOf(tasks, type, id) # {}
           /\ id \in DOMAIN Origins(tasks, type) =>
                  /\ Origins(tasks, type)[id] \in TasksOf(tasks, type, id)
                  /\ \A m \in TasksOf(tasks, type, id) : m <= Origins(tasks, type)[id]
<1>1. PICK N \in Nat : DOMAIN tasks = 1..N
  <2>1. tasks \in Seq(ToSet(tasks))
    BY DEF IsDefinition, IsSeq
  <2> QED BY <2>1
<1>2. CASE type = "task"
  <2>1. Origins(tasks, type) = taskMap(tasks)
    BY <1>2 DEF Origins
  <2>2. \A S : S = TasksOf(tasks, type, id) => S = {n \in DOMAIN tasks : tasks[n].name = id}
    BY <1>2 DEF TasksOf
  <2>3. PICK S : S = TasksOf(tasks, type, id) /\ S = {n \in DOMAIN tasks : tasks[n].name = id}
    BY <2>2
  <2>4. id \in DOMAIN taskMap(tasks) <=> S # {}
    BY <2>3 DEF taskMap
  <2>5. id \in DOMAIN taskMap(tasks) => taskMap(tasks)[id] = LastOf(S)
    BY <2>3 DEF taskMap
  <2>6. S # {} => LastOf(S) \in S /\ \A m \in S : m <= LastOf(S)
    BY <1>1, <2>3, LastExists
  <2> QED BY <2>1, <2>3, <2>4, <2>5, <2>6
<1>3. CASE type # "task"
  <2>1. Origins(tasks, type) = artifactMap(tasks)
    BY <1>3 DEF Origins
  <2>2. \A S : S = TasksOf(tasks, type, id) => S = {n \in DOMAIN tasks : Contains(tasks[n].results, id)}
    BY <1>3 DEF TasksOf
  <2>3. PICK S : S = TasksOf(tasks, type, id) /\ S = {n \in DOMAIN tasks : Contains(tasks[n].results, id)}
    BY <2>2
  <2>4. id \in DOMAIN artifactMap(tasks) <=> S # {}
    <3>1. ASSUME NEW n \in DOMAIN tasks PROVE id \in ToSet(tasks[n].results) <=> Contains(tasks[n].results, id)
      <4>1. tasks[n].results \in Seq(ToSet(tasks[n].results))
        BY DEF IsDefinition, IsSeq
      <4>2. DOMAIN tasks[n].results = 1..Len(tasks[n].results)
        BY <4>1
      <4> QED BY <4>2 DEF ToSet, Contains
    <3>2. DOMAIN artifactMap(tasks) = UNION {ToSet(tasks[n].results) : n \in DOMAIN tasks}
      BY DEF artifactMap
    <3> QED BY <2>3, <3>1, <3>2
  <2>5. id \in DOMAIN artifactMap(tasks) => artifactMap(tasks)[id] = LastOf(S)
    BY <2>3 DEF artifactMap
  <2>6. S # {} => LastOf(S) \in S /\ \A m \in S : m <= LastOf(S)
    BY <1>1, <2>3, LastExists
  <2> QED BY <2>1, <2>3, <2>4, <2>5, <2>6
<1>4. QED BY <1>2, <1>3

\* Each dependency has its edge.
LEMMA EdgesOfDef ==
    ASSUME NEW tasks, IsDefinition(tasks)
    PROVE  EdgesOf(tasks) \in Seq(EdgeSet(tasks)) /\ ToSet(EdgesOf(tasks)) = EdgeSet(tasks)
<1>1. PICK E : E = EdgeSet(tasks)
  OBVIOUS
<1>2. PICK N \in Nat : DOMAIN tasks = 1..N
  <2>1. tasks \in Seq(ToSet(tasks))
    BY DEF IsDefinition, IsSeq
  <2> QED BY <2>1
<1> DEFINE At(n) == [i \in DOMAIN tasks[n].dependencies |-> EdgeOf(tasks, n, tasks[n].dependencies[i])]
<1>3. ASSUME NEW n \in DOMAIN tasks
      PROVE  At(n) \in Seq(E) /\ ToSet(At(n)) = {EdgeOf(tasks, n, d) : d \in ToSet(tasks[n].dependencies)}
  <2>1. PICK deps : deps = tasks[n].dependencies
    OBVIOUS
  <2>2. deps \in Seq(ToSet(deps))
    BY <2>1 DEF IsDefinition, IsSeq
  <2>3. PICK L \in Nat : L = Len(deps) /\ DOMAIN deps = 1..L
    BY <2>2
  <2>4. \A i \in 1..L : EdgeOf(tasks, n, deps[i]) \in E
    BY <1>1, <2>1, <2>3 DEF EdgeSet, ToSet
  <2>5. [i \in 1..L |-> EdgeOf(tasks, n, deps[i])] \in Seq(E)
    BY <2>4
  <2>6. At(n) = [i \in 1..L |-> EdgeOf(tasks, n, deps[i])]
    BY <2>1, <2>3
  <2>7. ToSet(At(n)) = {EdgeOf(tasks, n, d) : d \in ToSet(deps)}
    <3>1. PICK q : q = At(n)
      OBVIOUS
    <3>2. DOMAIN q = 1..L /\ \A i \in 1..L : q[i] = EdgeOf(tasks, n, deps[i])
      BY <2>6, <3>1
    <3>3. ToSet(q) = {EdgeOf(tasks, n, deps[i]) : i \in 1..L}
      BY <3>2 DEF ToSet
    <3>4. ToSet(deps) = {deps[i] : i \in 1..L}
      BY <2>3 DEF ToSet
    <3> QED BY <3>1, <3>3, <3>4
  <2> QED BY <2>1, <2>5, <2>6, <2>7
<1>4. PICK ss : ss = [n \in DOMAIN tasks |-> At(n)]
  OBVIOUS
<1>5. EdgesOf(tasks) = FlattenSeq(ss)
  BY <1>4, Zenon DEF EdgesOf
<1> HIDE DEF At
<1>6. ss \in Seq(Seq(E))
  BY <1>2, <1>3, <1>4
<1>7. EdgesOf(tasks) \in Seq(E) /\ ToSet(EdgesOf(tasks)) = UNION {ToSet(ss[n]) : n \in DOMAIN ss}
  BY <1>5, <1>6, FlattenSeqDef
<1>8. UNION {ToSet(ss[n]) : n \in DOMAIN ss} = E
  <2>1. DOMAIN ss = DOMAIN tasks
    BY <1>4
  <2>2. \A n \in DOMAIN tasks : ToSet(ss[n]) = {EdgeOf(tasks, n, d) : d \in ToSet(tasks[n].dependencies)}
    BY <1>3, <1>4
  <2> QED BY <1>1, <2>1, <2>2 DEF EdgeSet
<1>9. QED BY <1>1, <1>7, <1>8

\* Each edge is kept at both of its nodes.
LEMMA EdgesAtDef ==
    ASSUME NEW tasks, IsDefinition(tasks)
    PROVE  /\ DOMAIN edgesAt(tasks) = DOMAIN tasks
           /\ edgesAt(tasks) \in Seq(Seq(EdgeSet(tasks)))
           /\ \A n \in DOMAIN tasks :
                  ToSet(edgesAt(tasks)[n]) = {e \in EdgeSet(tasks) : e.from = n \/ e.to = n}
<1>1. PICK E : E = EdgeSet(tasks)
  OBVIOUS
<1>2. PICK all \in Seq(E) : all = EdgesOf(tasks) /\ ToSet(all) = E
  BY <1>1, EdgesOfDef
<1>3. PICK N \in Nat : DOMAIN tasks = 1..N
  <2>1. tasks \in Seq(ToSet(tasks))
    BY DEF IsDefinition, IsSeq
  <2> QED BY <2>1
<1> DEFINE Pushed(e, n) == (IF e.from = n THEN <<e>> ELSE <<>>) \o (IF e.to = n THEN <<e>> ELSE <<>>)
<1>4. edgesAt(tasks) = [n \in DOMAIN tasks |-> FlattenSeq([i \in DOMAIN all |-> Pushed(all[i], n)])]
  BY <1>2, Zenon DEF edgesAt
<1>5. ASSUME NEW e \in E, NEW n
      PROVE  Pushed(e, n) \in Seq(E) /\ ToSet(Pushed(e, n)) = IF e.from = n \/ e.to = n THEN {e} ELSE {}
  <2>1. PICK one : one = <<e>>
    OBVIOUS
  <2>2. one \in Seq(E) /\ Len(one) = 1 /\ one[1] = e
    BY <2>1
  <2>3. PICK none : none = <<>>
    OBVIOUS
  <2>4. none \in Seq(E) /\ Len(none) = 0
    BY <2>3
  <2>5. \A a, b \in Seq(E) : a \o b \in Seq(E) /\ Len(a \o b) = Len(a) + Len(b)
            /\ \A i \in 1..Len(a \o b) : (a \o b)[i] = IF i <= Len(a) THEN a[i] ELSE b[i - Len(a)]
    OBVIOUS
  <2>6. \A a \in Seq(E) : DOMAIN a = 1..Len(a)
    OBVIOUS
  <2>7. PICK r : r = Pushed(e, n)
    OBVIOUS
  <2>8. r = (IF e.from = n THEN one ELSE none) \o (IF e.to = n THEN one ELSE none)
    BY <2>1, <2>3, <2>7
  <2>9. CASE e.from = n /\ e.to = n
    <3>1. r \in Seq(E) /\ Len(r) = 2 /\ r[1] = e /\ r[2] = e
      <4>1. r = one \o one
        BY <2>8, <2>9
      <4>2. r \in Seq(E) /\ Len(r) = 2
        BY <2>2, <2>5, <4>1
      <4>3. \A i \in 1..2 : r[i] = IF i <= 1 THEN one[i] ELSE one[i - 1]
        BY <2>2, <2>5, <4>1, <4>2
      <4> QED BY <2>2, <4>2, <4>3
    <3>2. ToSet(r) = {e}
      BY <2>6, <3>1 DEF ToSet
    <3> QED BY <2>7, <2>9, <3>1, <3>2
  <2>10. CASE e.from = n /\ e.to # n
    <3>1. r \in Seq(E) /\ Len(r) = 1 /\ r[1] = e
      <4>1. r = one \o none
        BY <2>8, <2>10
      <4>2. r \in Seq(E) /\ Len(r) = Len(one) + Len(none)
            /\ \A i \in 1..Len(r) : r[i] = IF i <= Len(one) THEN one[i] ELSE none[i - Len(one)]
        BY <2>2, <2>4, <2>5, <4>1, Zenon
      <4>3. Len(r) = 1 /\ r[1] = one[1]
        BY <2>2, <2>4, <4>2
      <4> QED BY <2>2, <4>2, <4>3
    <3>2. ToSet(r) = {e}
      BY <2>6, <3>1 DEF ToSet
    <3> QED BY <2>7, <2>10, <3>1, <3>2
  <2>11. CASE e.from # n /\ e.to = n
    <3>1. r \in Seq(E) /\ Len(r) = 1 /\ r[1] = e
      <4>1. r = none \o one
        BY <2>8, <2>11
      <4>2. r \in Seq(E) /\ Len(r) = 1
        BY <2>2, <2>4, <2>5, <4>1
      <4>3. r[1] = one[1]
        BY <2>2, <2>4, <2>5, <4>1, <4>2
      <4> QED BY <2>2, <4>2, <4>3
    <3>2. ToSet(r) = {e}
      BY <2>6, <3>1 DEF ToSet
    <3> QED BY <2>7, <2>11, <3>1, <3>2
  <2>12. CASE e.from # n /\ e.to # n
    <3>1. r \in Seq(E) /\ Len(r) = 0
      BY <2>4, <2>5, <2>8, <2>12
    <3>2. ToSet(r) = {}
      BY <2>6, <3>1 DEF ToSet
    <3> QED BY <2>7, <2>12, <3>1, <3>2
  <2> QED BY <2>9, <2>10, <2>11, <2>12
<1> HIDE DEF Pushed
<1>6. ASSUME NEW n \in DOMAIN tasks
      PROVE  /\ edgesAt(tasks)[n] \in Seq(E)
             /\ ToSet(edgesAt(tasks)[n]) = {e \in E : e.from = n \/ e.to = n}
  <2>1. PICK ss : ss = [i \in DOMAIN all |-> Pushed(all[i], n)]
    OBVIOUS
  <2>2. DOMAIN all = 1..Len(all) /\ Len(all) \in Nat /\ \A i \in DOMAIN all : all[i] \in E
    BY <1>2
  <2>3. ss \in Seq(Seq(E))
    BY <1>5, <2>1, <2>2
  <2>4. edgesAt(tasks)[n] = FlattenSeq(ss)
    BY <1>4, <2>1
  <2>5. FlattenSeq(ss) \in Seq(E) /\ ToSet(FlattenSeq(ss)) = UNION {ToSet(ss[i]) : i \in DOMAIN ss}
    BY <2>3, FlattenSeqDef
  <2>6. \A i \in DOMAIN all : ToSet(ss[i]) = IF all[i].from = n \/ all[i].to = n THEN {all[i]} ELSE {}
    BY <1>5, <2>1, <2>2
  <2>7. DOMAIN ss = DOMAIN all
    BY <2>1
  <2>8. E = {all[i] : i \in DOMAIN all}
    BY <1>2 DEF ToSet
  <2>9. UNION {ToSet(ss[i]) : i \in DOMAIN ss} = {e \in E : e.from = n \/ e.to = n}
    BY <2>6, <2>7, <2>8
  <2> QED BY <2>4, <2>5, <2>9
<1>7. DOMAIN edgesAt(tasks) = DOMAIN tasks /\ edgesAt(tasks) = [n \in DOMAIN tasks |-> edgesAt(tasks)[n]]
  BY <1>4
<1>8. edgesAt(tasks) \in Seq(Seq(E))
  <2>1. \A n \in 1..N : edgesAt(tasks)[n] \in Seq(E)
    BY <1>3, <1>6
  <2> QED BY <1>3, <1>7, <2>1
<1>9. QED BY <1>1, <1>6, <1>7, <1>8

\* What is parsed without an error of its creation is a DAG.
LEMMA ParsedIsDag ==
    ASSUME NEW tasks, IsDefinition(tasks)
    PROVE  IsDag(edgesAt(tasks))
<1>1. PICK E : E = EdgeSet(tasks)
  OBVIOUS
<1>2. PICK edges : edges = edgesAt(tasks)
  OBVIOUS
<1>3. edges \in Seq(Seq(E)) /\ DOMAIN edges = DOMAIN tasks
  BY <1>1, <1>2, EdgesAtDef
<1>4. IsSeq(edges)
  BY <1>3, SeqOfElements DEF IsSeq
<1>5. \A e \in E : e.to \in DOMAIN tasks
  BY <1>1 DEF EdgeSet, EdgeOf
<1>6. ASSUME NEW n \in DOMAIN edges
      PROVE  IsSeq(edges[n]) /\ \A i \in DOMAIN edges[n] : edges[n][i].to \in DOMAIN edges
  <2>1. PICK q \in Seq(E) : q = edges[n]
    BY <1>3
  <2>2. q \in Seq(ToSet(q))
    BY SeqOfElements
  <2>3. \A i \in DOMAIN q : q[i] \in E
    OBVIOUS
  <2> QED BY <1>3, <1>5, <2>1, <2>2, <2>3 DEF IsSeq
<1>7. QED BY <1>2, <1>4, <1>6 DEF IsDag

\* The edges of the DAG are the dependencies.
LEMMA SuccIsFeeds ==
    ASSUME NEW tasks, IsDefinition(tasks), IsResolvable(tasks), NEW n \in DOMAIN tasks
    PROVE  Succ(edgesAt(tasks), n) = {m \in DOMAIN tasks : m # n /\ Feeds(tasks, n, m)}
<1>1. PICK at : at = edgesAt(tasks)[n]
  OBVIOUS
<1>2. ToSet(at) = {e \in EdgeSet(tasks) : e.from = n \/ e.to = n}
  BY <1>1, EdgesAtDef
<1>3. Succ(edgesAt(tasks), n) = {e.to : e \in {f \in ToSet(at) : f.to # n}}
  BY <1>1 DEF Succ, Follows, ToSet
<1>4. ASSUME NEW e \in EdgeSet(tasks), e.from = n, e.to # n
      PROVE  e.to \in DOMAIN tasks /\ Feeds(tasks, n, e.to)
  <2>0. PICK m \in DOMAIN tasks : \E d \in ToSet(tasks[m].dependencies) : e = EdgeOf(tasks, m, d)
    BY DEF EdgeSet
  <2>1. PICK d \in ToSet(tasks[m].dependencies) : e = EdgeOf(tasks, m, d)
    BY <2>0
  <2>2. e.to = m /\ e.from = Origins(tasks, d.type)[d.id]
    BY <2>1 DEF EdgeOf
  <2>3. d.id \in DOMAIN Origins(tasks, d.type)
    BY DEF IsResolvable
  <2> QED BY <1>4, <2>2, <2>3 DEF Feeds
<1>5. ASSUME NEW m \in DOMAIN tasks, m # n, Feeds(tasks, n, m)
      PROVE  \E e \in EdgeSet(tasks) : e.from = n /\ e.to = m
  <2>1. PICK d \in ToSet(tasks[m].dependencies) : n = Origins(tasks, d.type)[d.id]
    BY <1>5 DEF Feeds
  <2>2. PICK e : e = EdgeOf(tasks, m, d)
    OBVIOUS
  <2>3. e.from = n /\ e.to = m
    BY <2>1, <2>2 DEF EdgeOf
  <2>4. e \in EdgeSet(tasks)
    BY <2>2 DEF EdgeSet
  <2> QED BY <2>3, <2>4
<1>6. ASSUME NEW m PROVE m \in Succ(edgesAt(tasks), n) <=> m \in DOMAIN tasks /\ m # n /\ Feeds(tasks, n, m)
  <2>1. m \in Succ(edgesAt(tasks), n) <=> \E e \in EdgeSet(tasks) : e.from = n /\ e.to # n /\ m = e.to
    BY <1>2, <1>3
  <2> QED BY <1>4, <1>5, <2>1
<1>7. QED BY <1>6

\* What parsing makes of a list of tasks.
LEMMA ParseDef ==
    ASSUME NEW tasks, IsDefinition(tasks), NEW r, r = parse(tasks)
    PROVE  /\ r.error \in {"none", "creation", "cycle"}
           /\ r.error = "creation" <=> ~IsResolvable(tasks)
           /\ r.error # "creation" => r.edges = edgesAt(tasks)
           /\ r.error = "cycle" =>
                  r.stack \in Seq(DOMAIN tasks) /\ EndsInItself(edgesAt(tasks), r.stack)
           /\ r.error = "none" => NoKnot(edgesAt(tasks), DOMAIN tasks)
<1>1. CASE ~IsResolvable(tasks)
  <2>1. r = [error |-> "creation", edges |-> <<>>, stack |-> <<>>]
    BY <1>1 DEF parse
  <2>2. r.error = "creation"
    BY <2>1
  <2> QED BY <1>1, <2>2
<1>2. CASE IsResolvable(tasks)
  <2>1. PICK edges : edges = edgesAt(tasks)
    OBVIOUS
  <2>2. PICK search : search = hasCycles(edges)
    OBVIOUS
  <2>3. IsDag(edges) /\ DOMAIN edges = DOMAIN tasks
    BY <2>1, ParsedIsDag, EdgesAtDef
  <2>4. /\ search \in Searches(edges)
        /\ search.found => EndsInItself(edges, search.stack)
        /\ ~search.found => NoKnot(edges, DOMAIN edges)
    BY <2>2, <2>3, HasCyclesFinds
  <2>5. r = [error |-> IF search.found THEN "cycle" ELSE "none", edges |-> edges, stack |-> search.stack]
    BY <1>2, <2>1, <2>2, Zenon DEF parse
  <2>6. r.error = (IF search.found THEN "cycle" ELSE "none") /\ r.edges = edges /\ r.stack = search.stack
    BY <2>5
  <2>7. search.stack \in Seq(DOMAIN tasks)
    BY <2>3, <2>4 DEF Searches
  <2> QED BY <1>2, <2>1, <2>3, <2>4, <2>6, <2>7
<1>3. QED BY <1>1, <1>2

\* The nodes from where the path leads back to are a cycle.
LEMMA CycleIsKnot ==
    ASSUME NEW edges, NEW D, NEW s \in Seq(D), EndsInItself(edges, s)
    PROVE  \E K \in SUBSET D : K # {} /\ \A m \in K : \E n \in K : m \in Succ(edges, n)
<1>1. PICK L \in Nat : L = Len(s) /\ \A i \in 1..L : s[i] \in D
  OBVIOUS
<1>2. PICK i \in 1..L : s[i] \in Succ(edges, s[L])
  BY <1>1 DEF EndsInItself
<1>3. PICK K : K = {s[j] : j \in i..L}
  OBVIOUS
<1>4. K \in SUBSET D /\ s[L] \in K /\ K # {}
  BY <1>1, <1>3
<1>5. ASSUME NEW m \in K PROVE \E n \in K : m \in Succ(edges, n)
  <2>1. PICK j \in i..L : m = s[j]
    BY <1>3
  <2>2. CASE j = i
    BY <1>2, <1>4, <2>1, <2>2
  <2>3. CASE j # i
    <3>1. j - 1 \in i..L /\ j - 1 \in 1..(L - 1) /\ (j - 1) + 1 = j
      BY <1>1, <2>3
    <3>2. s[(j - 1) + 1] \in Succ(edges, s[j - 1])
      BY <1>1, <3>1 DEF EndsInItself, IsPath
    <3> QED BY <1>3, <2>1, <3>1, <3>2
  <2> QED BY <2>2, <2>3
<1>6. QED BY <1>4, <1>5

\* The edges that end at a node are the dependencies of its task.
LEMMA IncomingEdges ==
    ASSUME NEW tasks, IsDefinition(tasks), NEW n \in DOMAIN tasks
    PROVE  incommingEdges(edgesAt(tasks), n) = {EdgeOf(tasks, n, d) : d \in ToSet(tasks[n].dependencies)}
<1>1. ToSet(edgesAt(tasks)[n]) = {e \in EdgeSet(tasks) : e.from = n \/ e.to = n}
  BY EdgesAtDef
<1>2. incommingEdges(edgesAt(tasks), n) = {e \in EdgeSet(tasks) : e.to = n}
  BY <1>1 DEF incommingEdges
<1>3. \A m : \A d : EdgeOf(tasks, m, d).to = m
  BY DEF EdgeOf
<1>4. QED BY <1>2, <1>3 DEF EdgeSet

\* The ids of the nodes stand for them.
LEMMA NodeMapDef ==
    ASSUME NEW edges, IsDag(edges), NEW dto, dto = converDAGToDto(edges), NEW n \in DOMAIN edges
    PROVE  nodeMap(dto)[NodeId(n)] = n
<1>1. DOMAIN dto = DOMAIN edges /\ \A m \in DOMAIN edges : dto[m].id = NodeId(m)
  BY DEF converDAGToDto
<1>2. \A k, m : NodeId(k) = NodeId(m) => k = m
  BY DEF NodeId
<1>3. PICK N \in Nat : DOMAIN edges = 1..N
  <2>1. edges \in Seq(ToSet(edges))
    BY DEF IsDag, IsSeq
  <2> QED BY <2>1
<1>4. PICK S : S = {m \in DOMAIN dto : dto[m].id = NodeId(n)}
  OBVIOUS
<1>5. S = {n}
  BY <1>1, <1>2, <1>4
<1>6. LastOf(S) = n
  <2>1. LastOf(S) \in S
    BY <1>3, <1>5, LastExists
  <2> QED BY <1>5, <2>1
<1>7. NodeId(n) \in {dto[m].id : m \in DOMAIN dto}
  BY <1>1
<1>8. nodeMap(dto)[NodeId(n)] = LastOf(S)
  BY <1>4, <1>7 DEF nodeMap
<1>9. QED BY <1>6, <1>8

\* What is read back is what was stored.
LEMMA ReadBack ==
    ASSUME NEW tasks, IsDefinition(tasks), IsResolvable(tasks),
           NEW dto, dto = converDAGToDto(edgesAt(tasks))
    PROVE  /\ DOMAIN dto = DOMAIN tasks
           /\ \A n \in DOMAIN tasks : convertDtoToDAG(dto)[n] = edgesAt(tasks)[n]
<1>1. PICK edges : edges = edgesAt(tasks)
  OBVIOUS
<1>2. /\ DOMAIN edges = DOMAIN tasks /\ edges \in Seq(Seq(EdgeSet(tasks)))
      /\ dto = converDAGToDto(edges)
  BY <1>1, EdgesAtDef
<1>3. DOMAIN dto = DOMAIN tasks
  BY <1>2 DEF converDAGToDto
<1>4. ASSUME NEW e \in EdgeSet(tasks)
      PROVE  /\ e = [from |-> e.from, to |-> e.to, conditionType |-> e.conditionType, artifactId |-> e.artifactId]
             /\ e.from \in DOMAIN edges /\ e.to \in DOMAIN edges
  <2>1. PICK m \in DOMAIN tasks : \E d \in ToSet(tasks[m].dependencies) : e = EdgeOf(tasks, m, d)
    BY DEF EdgeSet
  <2>2. PICK d \in ToSet(tasks[m].dependencies) : e = EdgeOf(tasks, m, d)
    BY <2>1
  <2>3. d.id \in DOMAIN Origins(tasks, d.type)
    BY DEF IsResolvable
  <2>4. Origins(tasks, d.type)[d.id] \in DOMAIN tasks
    BY <2>3, OriginIsLast DEF TasksOf
  <2>5. PICK a : a = IF d.type = "artifact" THEN d.id ELSE "undefined"
    OBVIOUS
  <2>6. e = [from |-> Origins(tasks, d.type)[d.id], to |-> m, conditionType |-> d.type, artifactId |-> a]
    BY <2>2, <2>5 DEF EdgeOf
  <2> QED BY <1>2, <2>4, <2>6
<1>5. IsDag(edges)
  BY <1>1, ParsedIsDag
<1>6. ASSUME NEW n \in DOMAIN tasks PROVE convertDtoToDAG(dto)[n] = edges[n]
  <2>1. PICK at \in Seq(EdgeSet(tasks)) : at = edges[n]
    BY <1>2
  <2>2. PICK stored : stored = dto[n].edges
    OBVIOUS
  <2>3. stored = [i \in DOMAIN at |->
            [fromId |-> NodeId(at[i].from), toId |-> NodeId(at[i].to),
             conditionType |-> at[i].conditionType, artifactId |-> at[i].artifactId]]
    <3>1. PICK f : f = [i \in DOMAIN at |->
                           [fromId |-> NodeId(at[i].from), toId |-> NodeId(at[i].to),
                            conditionType |-> at[i].conditionType, artifactId |-> at[i].artifactId]]
      OBVIOUS
    <3>2. n \in DOMAIN edges
      BY <1>2
    <3>3. dto[n] = [id |-> NodeId(n), edges |-> [i \in DOMAIN edges[n] |->
                       [fromId |-> NodeId(edges[n][i].from), toId |-> NodeId(edges[n][i].to),
                        conditionType |-> edges[n][i].conditionType, artifactId |-> edges[n][i].artifactId]]]
      BY <1>2, <3>2 DEF converDAGToDto
    <3>4. dto[n] = [id |-> NodeId(n), edges |-> f]
      BY <2>1, <3>1, <3>3, Zenon
    <3> QED BY <2>2, <3>1, <3>4
  <2>4. PICK read : read = convertDtoToDAG(dto)[n]
    OBVIOUS
  <2>5. read = [i \in DOMAIN stored |->
            [from |-> nodeMap(dto)[stored[i].fromId], to |-> nodeMap(dto)[stored[i].toId],
             conditionType |-> stored[i].conditionType, artifactId |-> stored[i].artifactId]]
    BY <1>3, <2>2, <2>4 DEF convertDtoToDAG
  <2>6. DOMAIN stored = DOMAIN at /\ DOMAIN read = DOMAIN at
    BY <2>3, <2>5
  <2>7. ASSUME NEW i \in DOMAIN at PROVE read[i] = at[i]
    <3>1. PICK e \in EdgeSet(tasks) : e = at[i]
      BY <2>1
    <3>2. stored[i] = [fromId |-> NodeId(e.from), toId |-> NodeId(e.to),
                       conditionType |-> e.conditionType, artifactId |-> e.artifactId]
      BY <2>3, <3>1
    <3>3. nodeMap(dto)[NodeId(e.from)] = e.from /\ nodeMap(dto)[NodeId(e.to)] = e.to
      BY <1>2, <1>4, <1>5, NodeMapDef
    <3>4. read[i] = [from |-> e.from, to |-> e.to,
                     conditionType |-> e.conditionType, artifactId |-> e.artifactId]
      BY <2>5, <2>6, <3>2, <3>3
    <3> QED BY <1>4, <3>1, <3>4
  <2>8. read = [i \in DOMAIN at |-> read[i]] /\ at = [i \in DOMAIN at |-> at[i]]
    BY <2>5, <2>6
  <2> QED BY <2>1, <2>4, <2>7, <2>8
<1>7. QED BY <1>1, <1>3, <1>6
=============================================================================
