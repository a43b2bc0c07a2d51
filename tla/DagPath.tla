------------------------------- MODULE DagPath -------------------------------
(***************************************************************************)
(* The shortest path in a directed acyclic graph (CSE3081/HW4, 4_1.cpp): a  *)
(* depth-first search orders the nodes or finds a cycle, then distances are *)
(* computed along the order and followed back.  A graph gives each node of  *)
(* 0..n-1 the sequence of its edges, [to, cost].  A step is one edge, the   *)
(* end of one call of dfs, or one node.                                     *)
(***************************************************************************)
EXTENDS Integers, Sequences, SequencesExt, FiniteSets

CONSTANT Digraphs     \* records [g, source, dest]

Graphs(n) == [0..(n - 1) -> Seq([to : 0..(n - 1), cost : Nat])]

ASSUME DagPathAssumption ==
  \A t \in Digraphs : LET n == Cardinality(DOMAIN t.g)
                     IN n \in Nat /\ t.g \in Graphs(n) /\ {t.source, t.dest} \subseteq 0..(n - 1)

VARIABLES
  path,       \* the graph, what main is doing and the answer
  search,     \* the search, and the stack s of nodes that it leaves
  shortest    \* the distances d and predecessors p

FarAway == 1000000000
\* The calls of dfs, the innermost last, with the next edge of each; the nodes seen and
\* those of the calls; the stacks s and cycle, their tops last; and c_node.
Unseen == [calls |-> <<>>, visit |-> {}, in |-> {}, s |-> <<>>, cycle |-> <<>>, c_node |-> -1]
Unknown == [d |-> <<>>, p |-> <<>>, i |-> 1, at |-> -1]

DagPathInit == path = [op |-> "none"] /\ search = Unseen /\ shortest = Unknown

\* main reads a test case.
DagPathMain ==
  /\ path.op = "none"
  /\ \E t \in Digraphs :
       path' = [op |-> "search", g |-> t.g, source |-> t.source, dest |-> t.dest,
                acyclic |-> TRUE, total |-> 0, nodes |-> <<>>]
  /\ UNCHANGED <<search, shortest>>

\* Mutant: the node is not noted as one on the way.
Entered_left(st, c) ==
  [st EXCEPT !.calls = Append(@, [c |-> c, i |-> 1]), !.visit = @ \cup {c}]
Entered(st, c) ==
  [st EXCEPT !.calls = Append(@, [c |-> c, i |-> 1]), !.visit = @ \cup {c}, !.in = @ \cup {c}]
\* A call ends.  Once there is a cycle its caller joins it, those in front of the cycle too.
Left(st) ==
  LET calls == Front(st.calls)
      c == Last(calls).c
  IN IF calls = <<>> \/ st.c_node = -1 THEN [st EXCEPT !.calls = calls]
     ELSE [st EXCEPT !.calls = calls, !.cycle = Append(@, c), !.c_node = IF @ # c THEN @ ELSE 2^30]

\* The call the search is in, the next edge of it and what that leads to.
Innermost == Last(search.calls)
EdgesLeft == path.op = "search" /\ search.calls # <<>> /\ Innermost.i <= Len(path.g[Innermost.c]) /\ search.c_node < 0
NextNode == path.g[Innermost.c][Innermost.i].to
Beyond == [search EXCEPT !.calls = Append(Front(@), [Innermost EXCEPT !.i = @ + 1])]

\* dfs: an edge to a node on the way here, to one that is done, to a new one; the end.
GreyEdge ==
  /\ EdgesLeft /\ NextNode \in search.visit /\ NextNode \in search.in
  /\ search' = Left([search EXCEPT !.c_node = NextNode, !.cycle = Append(@, Innermost.c)])
BlackEdge ==
  /\ EdgesLeft /\ NextNode \in search.visit /\ NextNode \notin search.in
  /\ search' = Beyond
WhiteEdge ==
  /\ EdgesLeft /\ NextNode \notin search.visit
  /\ search' = Entered(Beyond, NextNode)
dfsEnd ==
  /\ path.op = "search" /\ search.calls # <<>> /\ ~EdgesLeft
  /\ search' = Left([search EXCEPT !.in = @ \ {Innermost.c}, !.s = Append(@, Innermost.c)])
\* main searches from the first node not seen, until there is a cycle.
NextRoot ==
  /\ path.op = "search" /\ search.calls = <<>> /\ search.cycle = <<>>
  /\ \E i \in DOMAIN path.g \ search.visit :
       (\A j \in DOMAIN path.g : j < i => j \in search.visit) /\ search' = Entered(search, i)
SearchStep == (GreyEdge \/ BlackEdge \/ WhiteEdge \/ dfsEnd \/ NextRoot) /\ UNCHANGED <<path, shortest>>

\* A cycle is the answer, or the nodes are ordered.
CycleFound ==
  /\ path.op = "search" /\ search.calls = <<>> /\ search.cycle # <<>>
  /\ path' = [path EXCEPT !.op = "done", !.acyclic = FALSE, !.nodes = Reverse(search.cycle)]
  /\ UNCHANGED <<search, shortest>>
NodesOrdered ==
  /\ path.op = "search" /\ search.calls = <<>> /\ search.cycle = <<>>
  /\ DOMAIN path.g \subseteq search.visit
  /\ path' = [path EXCEPT !.op = "relax"]
  /\ shortest' = [Unknown EXCEPT !.d = [x \in DOMAIN path.g |-> IF x = path.source THEN 0 ELSE FarAway],
                                 !.p = [x \in DOMAIN path.g |-> -1]]
  /\ UNCHANGED search

\* The edges of the node on top of s, which is popped after them.
curNode == Last(search.s)
Relaxed(r, x, e) ==
  IF r.d[e.to] > r.d[x] + e.cost THEN [r EXCEPT !.d[e.to] = r.d[x] + e.cost, !.p[e.to] = x] ELSE r
Relax ==
  /\ path.op = "relax" /\ search.s # <<>> /\ shortest.i <= Len(path.g[curNode])
  /\ shortest' = [Relaxed(shortest, curNode, path.g[curNode][shortest.i]) EXCEPT !.i = @ + 1]
  /\ UNCHANGED <<path, search>>
PopNode ==
  /\ path.op = "relax" /\ search.s # <<>> /\ shortest.i > Len(path.g[curNode])
  /\ search' = [search EXCEPT !.s = Front(@)]
  /\ shortest' = [shortest EXCEPT !.i = 1]
  /\ UNCHANGED path

\* From the destination back, if it is reached.
TotalCost ==
  LET reached == shortest.d[path.dest] < FarAway
  IN /\ path.op = "relax" /\ search.s = <<>>
     /\ path' = [path EXCEPT !.op = "trace", !.total = IF reached THEN shortest.d[path.dest] ELSE 0]
     /\ shortest' = [shortest EXCEPT !.at = IF reached THEN path.dest ELSE -1]
     /\ UNCHANGED search
TraceBack ==
  /\ path.op = "trace" /\ shortest.at # -1
  /\ path' = [path EXCEPT !.nodes = <<shortest.at>> \o @]
  /\ shortest' = [shortest EXCEPT !.at = shortest.p[@]]
  /\ UNCHANGED search
Answer ==
  /\ path.op = "trace" /\ shortest.at = -1
  /\ path' = [path EXCEPT !.op = "done"]
  /\ UNCHANGED <<search, shortest>>

dagPathVars == <<path, search, shortest>>
DagPathNext ==
  \/ DagPathMain \/ SearchStep \/ CycleFound \/ NodesOrdered
  \/ Relax \/ PopNode \/ TotalCost \/ TraceBack \/ Answer
DagPathSpec == DagPathInit /\ [][DagPathNext]_dagPathVars

----------------------------------------------------------------------------
\* Properties

Leads(g, x, y) == \E i \in DOMAIN g[x] : g[x][i].to = y
IsPath(g, nodes) == \A i \in 1..(Len(nodes) - 1) : Leads(g, nodes[i], nodes[i + 1])
Cyclic(g) == \E s \in SUBSET DOMAIN g : s # {} /\ \A x \in s : \E y \in s : Leads(g, x, y)

\* The costs of all paths from the source to each node, of at most as many edges as there
\* are nodes, which is all of them if there is no cycle.
NoEdge(g, source) == [y \in DOMAIN g |-> IF y = source THEN {0} ELSE {}]
LastEdge(g, c, x, y) == {k + e.cost : k \in c[x], e \in {f \in ToSet(g[x]) : f.to = y}}
OneEdgeMore(g, c) == [y \in DOMAIN g |-> c[y] \cup UNION {LastEdge(g, c, x, y) : x \in DOMAIN g}]
PathCosts(g, source) ==
  LET n == Cardinality(DOMAIN g)
      costs[k \in 0..n] == IF k = 0 THEN NoEdge(g, source) ELSE OneEdgeMore(g, costs[k - 1])
  IN costs[n]

\* The nodes are a path whose edges cost the total: t says what it costs up to each.
HasCost(g, nodes, total) ==
  \E t \in [DOMAIN nodes -> 0..total] :
    /\ t[1] = 0 /\ t[Len(nodes)] = total
    /\ \A k \in 1..(Len(nodes) - 1) :
         \E e \in ToSet(g[nodes[k]]) : e.to = nodes[k + 1] /\ t[k + 1] = t[k] + e.cost

\* Where the graph has a cycle, the answer is a path that ends in one (its nodes in
\* front of the cycle are listed too); else it is a path from the source to the destination
\* and what it costs, which no path is below, or no path where none costs less than FarAway.
PathFound ==
  LET g == path.g
      nodes == path.nodes
      costs == PathCosts(g, path.source)[path.dest]
  IN path.op = "done" =>
       /\ path.acyclic <=> ~Cyclic(g)
       /\ ~path.acyclic => /\ nodes # <<>> /\ IsPath(g, nodes)
                           /\ \E i \in DOMAIN nodes : Leads(g, Last(nodes), nodes[i])
       /\ path.acyclic /\ nodes # <<>> =>
            /\ Head(nodes) = path.source /\ Last(nodes) = path.dest
            /\ HasCost(g, nodes, path.total) /\ path.total < FarAway
            /\ \A c \in costs : path.total <= c
       /\ path.acyclic /\ nodes = <<>> => path.total = 0 /\ \A c \in costs : c >= FarAway
=============================================================================
