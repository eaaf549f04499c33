------------------------------ MODULE GqlMatch ------------------------------
(***************************************************************************)
(* Matching patterns in a graph: PatternBuilder for paths of fixed length, *)
(* the row-by-row expansion for paths with a variable-length hop, the      *)
(* cross join of several patterns and the path bound by MATCH p = ....     *)
(* The graph `g` is a sequence of nodes and a sequence of edges, the index *)
(* being the id; a removed one has the id 0.  Its `old` are the versions   *)
(* of nodes that committed transactions have replaced or deleted and whose *)
(* index entries the vacuum has not removed yet.  A pattern node is        *)
(* [var, label, props], a pattern edge [var, label, dir, props, min, max], *)
(* with min = -1 for a fixed hop and NoMin for a variable one without a    *)
(* lower bound; the empty sequence stands for no variable and no label.    *)
(* Results are sequences of matches, in the order the engine produces      *)
(* them.  A storage error on a visible record is not modelled.             *)
(***************************************************************************)
EXTENDS GqlExpr

CONSTANT HopCap      \* VARIABLE_HOP_SAFETY_CAP

VARIABLE g

Failed == [error |-> TRUE]     \* the clause is refused

\* node_matches_pattern and edge_matches_pattern (node_matches and edge_matches in
\* PatternBuilder): a required value that is no property constrains nothing.
HasProps(entity, props) ==
  \A k \in 1..Len(props) :
    IsRequirable(props[k].v) =>
      props[k].key \in DOMAIN entity.props /\ entity.props[props[k].key] = props[k].v

\* Mutant: what an index has selected is not compared again.
node_matches_pattern_Trusting(n, np) ==
  IF np.label = <<>> THEN HasProps(n, np.props) ELSE n.label = np.label

node_matches_pattern(n, np) == (np.label = <<>> \/ n.label = np.label) /\ HasProps(n, np.props)

edge_matches_pattern(d, ep) == (ep.label = <<>> \/ d.label = ep.label) /\ HasProps(d, ep.props)

\* node_visible, and the versions under which the indexes list an id: the visible
\* one, and the old ones until the vacuum (reconcile_node_update_add_only).
Visible(i) == g.nodes[i].id # 0
Indexed(i) == {o \in g.old : o.id = i} \cup (IF Visible(i) THEN {g.nodes[i]} ELSE {})

\* narrow_candidates: the ids a label leaves, and under it each of the properties by
\* an index of its own, so that different versions may satisfy them; without a label
\* no index applies and every id not yet vacuumed is a candidate.
narrow_candidates(np) ==
  LET Lists(i, props) == \E ver \in Indexed(i) : ver.label = np.label /\ HasProps(ver, props)
  IN  SelectSeq([i \in 1..Len(g.nodes) |-> i], LAMBDA i :
        IF np.label = <<>> THEN Indexed(i) # {}
        ELSE Lists(i, <<>>) /\ \A k \in 1..Len(np.props) : Lists(i, <<np.props[k]>>))

\* The edges of a node, outgoing before incoming (NeighborQuery,
\* get_edges_for_direction); an undirected self-loop is listed twice.
EdgesOf(n, dir) ==
  LET ids == [i \in 1..Len(g.edges) |-> i]
  IN  (IF dir \in {"out", "both"} THEN SelectSeq(ids, LAMBDA i : g.edges[i].src = n) ELSE <<>>)
      \o (IF dir \in {"in", "both"} THEN SelectSeq(ids, LAMBDA i : g.edges[i].dst = n) ELSE <<>>)

\* edge_neighbor, for an edge listed at n.
edge_neighbor(i, n) == IF g.edges[i].src = n THEN g.edges[i].dst ELSE g.edges[i].src

\* The matching edges of a node, each with the node it leads to.
Leads(n, ep) ==
  LET ids == SelectSeq(EdgesOf(n, ep.dir), LAMBDA i : edge_matches_pattern(g.edges[i], ep))
  IN  MapSeq(ids, LAMBDA i : [edge |-> i, node |-> edge_neighbor(i, n)])

BindNode(pm, x, n) == [pm EXCEPT !.nodes = Bind(pm.nodes, x, g.nodes[n])]
BindEdge(pm, x, i) == IF x = <<>> THEN pm ELSE [pm EXCEPT !.edges = Bind(pm.edges, x, g.edges[i])]

\* Anonymous nodes get a name of their own; k is the position in the path.
NodeVar(np, k) == IF np.var = <<>> THEN <<"_anon_", ToString(k)>> ELSE np.var

\* initial_candidates and seed_start_node: of the candidates, the visible ones whose
\* visible version satisfies the pattern.
SeedRows(pp) ==
  LET ok == SelectSeq(narrow_candidates(pp.start),
                      LAMBDA i : Visible(i) /\ node_matches_pattern(g.nodes[i], pp.start))
  IN  MapSeq(ok, LAMBDA i : BindNode(EmptyMatch, NodeVar(pp.start, 0), i))

\* expand_hop and expand_fixed_hop: one row for each matching edge to a matching node.
ExpandFixed(rows, from, hop, to) ==
  LET Of(pm) ==
        LET ok == SelectSeq(Leads(pm.nodes[from].id, hop.edge),
                            LAMBDA l : node_matches_pattern(g.nodes[l.node], hop.node))
        IN  MapSeq(ok, LAMBDA l : BindEdge(BindNode(pm, to, l.node), hop.edge.var, l.edge))
  IN  FlattenSeq(MapSeq(rows, Of))

\* The nodes first reached at each depth, ring by ring, up to the maximum, each with
\* the edges that led to it: the queue of expand_variable_hop and of
\* materialise_varlen_path, which GraphSearch follows step by step.
NextRing(at, ep) ==
  LET From(l) == MapSeq(Leads(l.node, ep), LAMBDA m :
                   [node |-> m.node, edge |-> m.edge, path |-> Append(l.path, m.edge)])
      Visit(acc, l) == IF l.node \in acc.seen THEN acc
                       ELSE [seen |-> acc.seen \cup {l.node}, ring |-> Append(acc.ring, l)]
  IN  FoldLeft(Visit, [seen |-> at.seen, ring |-> <<>>], FlattenSeq(MapSeq(at.ring, From)))
RECURSIVE Rings(_, _, _, _)
Rings(at, depth, ep, max) ==
  IF depth > max \/ at.ring = <<>> THEN <<>>
  ELSE <<at.ring>> \o Rings(NextRing(at, ep), depth + 1, ep, max)
Standing(n) == [node |-> n, edge |-> 0, path |-> <<>>]
RingsFrom(n, ep, max) == Rings(NextRing([seen |-> {n}, ring |-> <<Standing(n)>>], ep), 1, ep, max)

\* The nodes of the rings a hop allows, the start among them when it may be empty: no
\* lower bound is 0 (min.unwrap_or(0)).
Reached(n, ep, rings) ==
  (IF ep.min \in {0, NoMin} THEN <<Standing(n)>> ELSE <<>>)
  \o FlattenSeq([d \in 1..Len(rings) |-> IF d >= ep.min THEN rings[d] ELSE <<>>])

\* expand_variable_hop: the edge variable is bound to the last edge.
ExpandVariable(rows, from, hop, to) ==
  LET ep == hop.edge
      Found(n) == Reached(n, ep, RingsFrom(n, ep, IF ep.max = -1 THEN HopCap ELSE ep.max))
      Row(pm, l) == IF l.edge = 0 THEN BindNode(pm, to, l.node)
                    ELSE BindEdge(BindNode(pm, to, l.node), ep.var, l.edge)
      Of(pm) == MapSeq(SelectSeq(Found(pm.nodes[from].id),
                                 LAMBDA l : node_matches_pattern(g.nodes[l.node], hop.node)),
                       LAMBDA l : Row(pm, l))
  IN  FlattenSeq(MapSeq(rows, Of))

IsVariable(hop) == hop.edge.min # -1
has_variable_length_hop(pp) == \E k \in 1..Len(pp.hops) : IsVariable(pp.hops[k])

\* compile_path_pattern_fixed refuses a variable used twice (validate_unique_vars).
PatternVars(pp) ==
  <<NodeVar(pp.start, 0)>>
  \o FlattenSeq([k \in 1..Len(pp.hops) |->
       <<NodeVar(pp.hops[k].node, k)>>
       \o (IF pp.hops[k].edge.var = <<>> THEN <<>> ELSE <<pp.hops[k].edge.var>>)])

\* compile_path_pattern: the seed rows, then hop after hop.  With a variable-length
\* hop a repeated variable is bound again instead of refused.
compile_path_pattern(pp) ==
  LET From(k) == IF k = 1 THEN NodeVar(pp.start, 0) ELSE NodeVar(pp.hops[k - 1].node, k - 1)
      Hop(rows, k) == IF IsVariable(pp.hops[k])
                      THEN ExpandVariable(rows, From(k), pp.hops[k], NodeVar(pp.hops[k].node, k))
                      ELSE ExpandFixed(rows, From(k), pp.hops[k], NodeVar(pp.hops[k].node, k))
  IN  IF ~has_variable_length_hop(pp) /\ ~IsInjective(PatternVars(pp)) THEN <<Failed>>
      ELSE FoldLeft(Hop, SeedRows(pp), [k \in 1..Len(pp.hops) |-> k])

\* PatternMatch::merge: the right side wins a variable both bind.
Merge(a, b) ==
  LET Over(f, h) == [x \in DOMAIN f \cup DOMAIN h |-> IF x \in DOMAIN h THEN h[x] ELSE f[x]]
  IN  [nodes |-> Over(a.nodes, b.nodes), edges |-> Over(a.edges, b.edges)]

\* compile_match: the cross join of the patterns.
CrossJoin(sets) ==
  LET Join(acc, set) == FlattenSeq(MapSeq(acc, LAMBDA l : MapSeq(set, LAMBDA r : Merge(l, r))))
  IN  IF \E k \in 1..Len(sets) : Failed \in ToSet(sets[k]) THEN <<Failed>>
      ELSE IF sets = <<>> THEN <<>> ELSE FoldLeft(Join, sets[1], Tail(sets))
compile_match(patterns) == CrossJoin(MapSeq(patterns, compile_path_pattern))

\* collect_bound_vars.
collect_bound_vars(mc) ==
  (IF mc.path = <<>> THEN {} ELSE {mc.path})
  \cup UNION {({mc.patterns[k].start.var} \cup UNION {{h.edge.var, h.node.var} :
                 h \in ToSet(mc.patterns[k].hops)}) \ {<<>>} : k \in 1..Len(mc.patterns)}

\* reconstruct_varlen_path: the nodes along the edges, from the start.
PathRecord(from, ids) ==
  LET Stop[k \in 0..Len(ids)] == IF k = 0 THEN from ELSE edge_neighbor(ids[k], Stop[k - 1])
  IN  [nodes |-> [k \in 1..(Len(ids) + 1) |-> g.nodes[Stop[k - 1]]],
       rels |-> MapSeq(ids, LAMBDA i : g.edges[i])]

\* materialise_varlen_path: a shortest path of edges that match one edge pattern, as
\* a sequence of none or one.
ShortestOf(from, to, reached) ==
  IF from = to THEN <<PathRecord(from, <<>>)>>
  ELSE IF reached = <<>> THEN <<>> ELSE <<PathRecord(from, reached[1].path)>>
materialise_varlen_path(from, to, ep) ==
  ShortestOf(from, to, SelectSeq(FlattenSeq(RingsFrom(from, ep, Len(g.nodes))), LAMBDA l : l.node = to))

\* materialise_path_for_match: exact when everything is named and fixed, otherwise a
\* search from the first to the last node that knows only the last hop.
materialise_path_for_match(pp, pm) ==
  LET named == /\ ~has_variable_length_hop(pp) /\ pp.start.var # <<>>
               /\ \A k \in 1..Len(pp.hops) :
                    pp.hops[k].edge.var # <<>> /\ pp.hops[k].node.var # <<>>
      from == pm.nodes[pp.start.var].id
  IN  CASE named -> <<PathRecord(from, MapSeq(pp.hops, LAMBDA h : pm.edges[h.edge.var].id))>>
        [] ~named /\ pp.start.var # <<>> /\ pp.hops # <<>> /\ Last(pp.hops).node.var # <<>> ->
             materialise_varlen_path(from, pm.nodes[Last(pp.hops).node.var].id, Last(pp.hops).edge)
        [] OTHER -> <<>>

\* materialise_path_bindings: the path variable names the first pattern.
PathNamed(x, path) == IF path = <<>> THEN NoFun ELSE Bind(NoFun, x, path[1])
materialise_path_bindings(mc, pm) ==
  PathNamed(mc.path, IF mc.path = <<>> THEN <<>> ELSE materialise_path_for_match(mc.patterns[1], pm))
=============================================================================
