---------------------------- MODULE GraphSearch ----------------------------
(***************************************************************************)
(* The searches of the query engine, one iteration of their main loop at a *)
(* time: the shortest-path queries of the library and of the language, the *)
(* traversal builder, the weighted path query and the expansion of a       *)
(* variable-length hop.  They run on a graph that does not change (a read  *)
(* guard or a snapshot is held), given by the sequence `edges` in the      *)
(* order adjacency lists return it.  The deadline a search polls is not    *)
(* modelled; edge properties act like the label filter and are left out.   *)
(***************************************************************************)
EXTENDS Integers, SequencesExt, FiniteSetsExt

CONSTANTS Nodes,     \* node ids
          Edges,     \* the edge lists explored: sequences of [src, dst, label, cost]
          Tasks,     \* the calls explored, see Searching
          NoLimit    \* a depth no path of these graphs reaches

VARIABLES edges, task, frontier, visited, parent, answer, done

searchVars == <<edges, task, frontier, visited, parent, answer, done>>

Directions == {"out", "in", "both"}

\* NeighborQuery::collect and get_edges_for_direction: outgoing then incoming.
NeighborEdges(n, dir) ==
  LET Ids == [i \in 1..Len(edges) |-> i]
      outgoing == SelectSeq(Ids, LAMBDA i : edges[i].src = n)
      incoming == SelectSeq(Ids, LAMBDA i : edges[i].dst = n)
  IN  (IF dir \in {"out", "both"} THEN outgoing ELSE <<>>)
      \o (IF dir \in {"in", "both"} THEN incoming ELSE <<>>)

\* The end of an edge that is not n; a self-loop leads back to n.
OtherEnd(i, n) == IF edges[i].src = n THEN edges[i].dst ELSE edges[i].src

\* filtered_neighbors: the neighbours reached over edges of the wanted label.
FilteredNeighbors(n) ==
  LET kept == SelectSeq(NeighborEdges(n, task.dir),
                        LAMBDA i : task.label = "" \/ edges[i].label = task.label)
  IN  [k \in 1..Len(kept) |-> [node |-> OtherEnd(kept[k], n), edge |-> kept[k]]]

\* reconstruct_path: the parent chain walked back from `to`, reversed.
RECURSIVE ReconstructPath(_, _)
ReconstructPath(par, to) ==
  IF to = task.from THEN <<>>
  ELSE Append(ReconstructPath(par, par[to].node), [node |-> to, edge |-> par[to].edge])

----------------------------------------------------------------------------
(* Breadth-first search for one node: ShortestPathQuery::find,             *)
(* shortest_path_bfs_constrained and materialise_varlen_path.              *)

\* What the loop over the neighbours of one node does to the state of a
\* breadth-first search; it stops at the target.
VisitNeighbor(acc, nb, from, depth) ==
  IF acc.hit \/ nb.node \in acc.visited THEN acc
  ELSE LET reached == nb.node = task.to
       IN  [visited |-> acc.visited \cup {nb.node},
            parent  |-> [acc.parent EXCEPT ![nb.node] = [node |-> from, edge |-> nb.edge]],
            queue   |-> IF reached THEN acc.queue
                        ELSE Append(acc.queue, [node |-> nb.node, depth |-> depth + 1]),
            hit     |-> reached]

\* One dequeue: a node at the depth limit is not expanded.
FindStep ==
  /\ task.algo = "find" /\ ~done /\ frontier # <<>>
  /\ LET cur == Head(frontier)
         acc0 == [visited |-> visited, parent |-> parent, queue |-> Tail(frontier), hit |-> FALSE]
         acc == IF cur.depth >= task.max THEN acc0
                ELSE FoldLeft(LAMBDA a, nb : VisitNeighbor(a, nb, cur.node, cur.depth),
                              acc0, FilteredNeighbors(cur.node))
     IN  /\ visited' = acc.visited /\ parent' = acc.parent /\ frontier' = acc.queue
         /\ done' = acc.hit
         /\ answer' = IF acc.hit THEN <<ReconstructPath(acc.parent, task.to)>> ELSE answer
  /\ UNCHANGED <<edges, task>>

----------------------------------------------------------------------------
(* Traversals that return every node, with the path to it.                 *)

\* bfs_collect_paths (bfs_collect keeps the last node of each path): a node is
\* recorded when it is first seen.
BfsCollectStep ==
  /\ task.algo = "bfs" /\ frontier # <<>>
  /\ LET cur == Head(frontier)
         Visit(acc, nb) ==
           IF nb.node \in acc.visited THEN acc
           ELSE LET path == Append(cur.path, nb)
                IN  [visited |-> acc.visited \cup {nb.node},
                     out |-> Append(acc.out, path),
                     queue |-> Append(acc.queue,
                                 [node |-> nb.node, depth |-> cur.depth + 1, path |-> path])]
         acc0 == [visited |-> visited, out |-> answer, queue |-> Tail(frontier)]
         acc == IF cur.depth >= task.max THEN acc0
                ELSE FoldLeft(Visit, acc0, FilteredNeighbors(cur.node))
     IN  visited' = acc.visited /\ answer' = acc.out /\ frontier' = acc.queue
  /\ UNCHANGED <<edges, task, parent, done>>

\* dfs_collect_paths (and dfs_collect): a node is recorded when it is popped, the
\* neighbours are pushed in reverse order.
DfsCollectStep ==
  /\ task.algo = "dfs" /\ frontier # <<>>
  /\ LET cur == Last(frontier)
         fresh == SelectSeq(FilteredNeighbors(cur.node),
                            LAMBDA nb : nb.node \notin visited \cup {cur.node})
         Entry(nb) == [node |-> nb.node, depth |-> cur.depth + 1, path |-> Append(cur.path, nb)]
         push == IF cur.depth >= task.max THEN <<>>
                 ELSE Reverse([k \in 1..Len(fresh) |-> Entry(fresh[k])])
     IN  IF cur.node \in visited
         THEN /\ frontier' = Front(frontier)
              /\ UNCHANGED <<visited, answer>>
         ELSE /\ visited' = visited \cup {cur.node}
              /\ answer' = Append(answer, cur.path)
              /\ frontier' = Front(frontier) \o push
  /\ UNCHANGED <<edges, task, parent, done>>

----------------------------------------------------------------------------
(* WeightedPathQuery::find: Dijkstra's search.                             *)

\* The tentative distance of a node, taken from the parent entry; -1 when unknown.
DistOf(par, n) == IF n = task.from THEN 0 ELSE IF par[n].edge = 0 THEN -1 ELSE par[n].dist

\* Mutant: the first way to a node is kept.
RelaxKeepsFirst(acc, nb, from, cost) ==
  LET new == cost + edges[nb.edge].cost
  IN  IF DistOf(acc.parent, nb.node) # -1 THEN acc
      ELSE [parent |-> [acc.parent EXCEPT ![nb.node] =
                          [node |-> from, edge |-> nb.edge, dist |-> new]],
            heap |-> Append(acc.heap, [node |-> nb.node, cost |-> new])]

\* The loop over the neighbours: a cheaper way replaces the entry and is pushed.
Relax(acc, nb, from, cost) ==
  LET new == cost + edges[nb.edge].cost
      old == DistOf(acc.parent, nb.node)
  IN  IF old # -1 /\ new >= old THEN acc
      ELSE [parent |-> [acc.parent EXCEPT ![nb.node] =
                          [node |-> from, edge |-> nb.edge, dist |-> new]],
            heap |-> Append(acc.heap, [node |-> nb.node, cost |-> new])]

\* One pop of the heap: any of the cheapest entries, for ties are unordered.
DijkstraStep ==
  /\ task.algo = "weighted" /\ ~done /\ frontier # <<>>
  /\ \E k \in 1..Len(frontier) :
       /\ \A j \in 1..Len(frontier) : frontier[k].cost <= frontier[j].cost
       /\ LET cur == frontier[k]
              rest == RemoveAt(frontier, k)
              acc == FoldLeft(LAMBDA a, nb : Relax(a, nb, cur.node, cur.cost),
                              [parent |-> parent, heap |-> rest], FilteredNeighbors(cur.node))
          IN  CASE cur.node \in visited ->
                     /\ frontier' = rest
                     /\ UNCHANGED <<visited, parent, answer, done>>
                [] cur.node \notin visited /\ cur.node = task.to ->
                     /\ visited' = visited \cup {cur.node} /\ frontier' = rest /\ done' = TRUE
                     /\ answer' = <<ReconstructPath(parent, task.to)>>
                     /\ UNCHANGED parent
                [] OTHER ->
                     /\ visited' = visited \cup {cur.node}
                     /\ frontier' = acc.heap /\ parent' = acc.parent
                     /\ UNCHANGED <<answer, done>>
  /\ UNCHANGED <<edges, task>>

----------------------------------------------------------------------------
(* expand_variable_hop: rows for every node between min and max hops away. *)

\* One dequeue: a row when the depth is at least min, then the neighbours.  The
\* queue entry carries the last edge, which the edge variable is bound to.
ExpandStep ==
  /\ task.algo = "expand" /\ frontier # <<>>
  /\ LET cur == Head(frontier)
         Visit(acc, nb) ==
           IF nb.node \in acc.visited THEN acc
           ELSE [visited |-> acc.visited \cup {nb.node},
                 queue |-> Append(acc.queue,
                             [node |-> nb.node, depth |-> cur.depth + 1, edge |-> nb.edge])]
         acc0 == [visited |-> visited, queue |-> Tail(frontier)]
         acc == IF cur.depth < task.max
                THEN FoldLeft(Visit, acc0, FilteredNeighbors(cur.node)) ELSE acc0
     IN  /\ answer' = IF cur.depth \in task.min .. task.max
                      THEN Append(answer, [node |-> cur.node, edge |-> cur.edge]) ELSE answer
         /\ visited' = acc.visited /\ frontier' = acc.queue
  /\ UNCHANGED <<edges, task, parent, done>>

----------------------------------------------------------------------------
NoParent == [n \in Nodes |-> [node |-> n, edge |-> 0, dist |-> 0]]

\* How each search starts.  A path query between a node and itself answers at
\* once; a hop of no steps is a row for the start node itself (min = 0); the
\* first ring of an expansion is queued before the loop.
InitSearch ==
  /\ edges \in Edges /\ task \in Tasks
  /\ parent = NoParent
  /\ done = (task.algo \in {"find", "weighted"} /\ task.from = task.to)
  /\ visited = (IF task.algo \in {"dfs", "weighted"} THEN {} ELSE {task.from})
  /\ frontier = <<[node |-> task.from, depth |-> 0, cost |-> 0, path |-> <<>>, edge |-> 0]>>
  /\ answer = (IF done \/ task.algo = "bfs" THEN <<<<>>>> ELSE <<>>)

NextSearch == FindStep \/ BfsCollectStep \/ DfsCollectStep \/ DijkstraStep \/ ExpandStep

Ended == done \/ frontier = <<>>

----------------------------------------------------------------------------
(* What the searches should compute, by sets of nodes instead of queues.   *)

Steps(n) == {FilteredNeighbors(n)[k] : k \in 1..Len(FilteredNeighbors(n))}

\* The nodes at most k hops from the start.
RECURSIVE Ball(_)
Ball(k) == IF k = 0 THEN {task.from}
           ELSE Ball(k - 1) \cup {s.node : s \in UNION {Steps(n) : n \in Ball(k - 1)}}

Within(k) == Ball(IF k > Cardinality(Nodes) THEN Cardinality(Nodes) ELSE k)
AtDistance(k) == IF k = 0 THEN {task.from} ELSE Within(k) \ Within(k - 1)

\* The least cost of a walk of at most k edges; -1 when there is none.
RECURSIVE Cheapest(_, _)
Cheapest(n, k) ==
  LET before == IF k = 0 THEN {} ELSE
        {<<m, s>> \in Nodes \X UNION {Steps(m) : m \in Nodes} :
            s \in Steps(m) /\ s.node = n /\ Cheapest(m, k - 1) # -1}
      costs == {Cheapest(p[1], k - 1) + edges[p[2].edge].cost : p \in before}
                 \cup (IF n = task.from THEN {0} ELSE {})
  IN  IF costs = {} THEN -1 ELSE Min(costs)

\* A path is a walk over wanted edges in the wanted direction.
IsWalk(path) ==
  \A k \in 1..Len(path) :
    path[k] \in Steps(IF k = 1 THEN task.from ELSE path[k - 1].node)

PathEnd(path) == IF path = <<>> THEN task.from ELSE Last(path).node
PathCost(path) == FoldLeft(LAMBDA c, s : c + edges[s.edge].cost, 0, path)

\* A shortest-path query returns a walk to the target of the least length, over
\* edges the pattern allows, exactly when one no longer than the limit exists
\* (ShortestPathQuery::find, shortest_path_bfs_constrained, materialise_varlen_path).
ShortestPathIsShortest ==
  (task.algo = "find" /\ Ended) =>
    IF task.to \in Within(task.max)
    THEN /\ Len(answer) = 1 /\ IsWalk(answer[1]) /\ PathEnd(answer[1]) = task.to
         /\ task.to \in AtDistance(Len(answer[1]))
    ELSE answer = <<>>

\* A breadth-first traversal returns each node within the depth once, nearest
\* first, with a shortest walk to it; a depth-first one returns each node once,
\* never one outside the depth, and all of them when no depth is set.
TraversalIsComplete ==
  (task.algo \in {"bfs", "dfs"} /\ Ended) =>
    LET ends == [k \in 1..Len(answer) |-> PathEnd(answer[k])]
    IN  /\ IsInjective(ends)
        /\ \A k \in 1..Len(answer) : IsWalk(answer[k]) /\ Len(answer[k]) <= task.max
        /\ ToSet(ends) \subseteq Within(task.max)
        /\ (task.algo = "bfs" \/ task.max = NoLimit) => ToSet(ends) = Within(task.max)
        /\ (task.algo = "bfs") =>
             \A k \in 1..Len(answer) : ends[k] \in AtDistance(Len(answer[k]))

\* The same, of the depth-first traversal with a depth too: what the documentation
\* of max_depth says, and what the traversal does not do.
DfsReachesDepth ==
  (task.algo = "dfs" /\ Ended) =>
    {PathEnd(answer[k]) : k \in 1..Len(answer)} = Within(task.max)

\* A weighted query returns a cheapest walk when costs are not negative, whatever
\* the order in which the heap returns entries of equal cost, and no path only
\* when there is none; no cost settled before is above the least.
WeightedPathIsCheapest ==
  (task.algo = "weighted") =>
    /\ \A n \in visited : DistOf(parent, n) = Cheapest(n, Cardinality(Nodes))
    /\ Ended =>
         IF Cheapest(task.to, Cardinality(Nodes)) = -1 THEN answer = <<>>
         ELSE /\ Len(answer) = 1 /\ IsWalk(answer[1]) /\ PathEnd(answer[1]) = task.to
              /\ PathCost(answer[1]) = Cheapest(task.to, Cardinality(Nodes))

\* A variable-length hop yields one row for every node whose distance lies between
\* the bounds, and binds the edge variable to an edge that ends there.
HopYieldsDistanceRange ==
  (task.algo = "expand" /\ Ended) =>
    /\ IsInjective([k \in 1..Len(answer) |-> answer[k].node])
    /\ {answer[k].node : k \in 1..Len(answer)} =
         UNION {AtDistance(d) : d \in task.min .. (IF task.max > Cardinality(Nodes)
                                                   THEN Cardinality(Nodes) ELSE task.max)}
    /\ \A k \in 1..Len(answer) :
         answer[k].edge # 0 => \E n \in Nodes : answer[k] \in Steps(n)

\* Each search returns what its definition on the graph says: shortest paths,
\* traversals, cheapest paths and variable-length hops.
SearchesAreExact ==
  /\ ShortestPathIsShortest /\ TraversalIsComplete
  /\ WeightedPathIsCheapest /\ HopYieldsDistanceRange

=============================================================================
