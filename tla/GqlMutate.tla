----------------------------- MODULE GqlMutate ------------------------------
(***************************************************************************)
(* Statements that change the graph, run by several clients outside a      *)
(* transaction.  The accessor reads under the read lock, releases it and   *)
(* writes under the write lock, so another client's write may come between *)
(* (execute_match_mutation, execute_bare_merge, execute_unwind_mutation);  *)
(* CREATE alone and a pipeline ending in SET or DELETE hold the write lock *)
(* throughout.  A write that fails keeps what it had done.  What the       *)
(* clients share is the graph `g`; a removed node or edge keeps its place  *)
(* there with the id 0.  The statements are those the parser makes, with   *)
(* the parameters already in place but for the maps, which `params` keeps. *)
(* Statements inside a transaction are Mvcc's, quotas and logs the         *)
(* store's, and deadlines are left out.  The clients write outside of      *)
(* transactions, so the indexes are exact: `old` of the graph stays as it  *)
(* is in Pastures.                                                         *)
(***************************************************************************)
EXTENDS GqlExecute

CONSTANTS Clients,      \* sessions, each running one statement
          Statements,   \* the statements explored
          Pastures,     \* the graphs they start from
          UniqueKeys    \* pairs of a label and a key under a uniqueness constraint

VARIABLE client         \* what each session runs and what it has read

mutateVars == <<g, client>>

NoStats == [nodes_created |-> 0, edges_created |-> 0, nodes_deleted |-> 0,
            edges_deleted |-> 0, properties_set |-> 0, labels_added |-> 0]

----------------------------------------------------------------------------
(* The store, as the executor sees it.                                     *)

\* A write under way: the graph so far, the error that stopped it, the counts, what
\* this statement removed and the nodes it created by name.
Writing(gr) == [g |-> gr, err |-> "", stats |-> NoStats, deleted_nodes |-> {},
                deleted_edges |-> {}, created |-> NoFun]
Stop(acc, err) == [acc EXCEPT !.err = err]
Tally(acc, field, k) == [acc EXCEPT !.stats[field] = @ + k]

\* Work through a sequence until one element fails (the ? operator).
Through(acc, seq, Step(_, _)) ==
  FoldLeft(LAMBDA a, x : IF a.err # "" THEN a ELSE Step(a, x), acc, seq)

NodeLives(gr, i) == i \in 1..Len(gr.nodes) /\ gr.nodes[i].id # 0
EdgeLives(gr, i) == i \in 1..Len(gr.edges) /\ gr.edges[i].id # 0
GoneNode == [id |-> 0, label |-> <<>>, props |-> NoFun]
GoneEdge == [id |-> 0, label |-> <<>>, props |-> NoFun, src |-> 0, dst |-> 0]

\* check_unique: another node of the label holds the value of a constrained key.
InConflict(gr, label, props, except) ==
  \E k \in DOMAIN props : \E i \in 1..Len(gr.nodes) :
    /\ <<label, k>> \in UniqueKeys /\ i # except /\ gr.nodes[i].label = label
    /\ k \in DOMAIN gr.nodes[i].props /\ gr.nodes[i].props[k] = props[k]

\* count_label: a node without a label adds none.
count_label(label) == IF label = <<>> THEN 0 ELSE 1

add_node(acc, label, props) ==
  IF InConflict(acc.g, label, props, 0) THEN Stop(acc, "constraint")
  ELSE Tally(Tally([acc EXCEPT !.g.nodes = Append(@,
         [id |-> Len(acc.g.nodes) + 1, label |-> label, props |-> props])],
         "nodes_created", 1), "labels_added", count_label(label))

\* Mutant: the end points are not looked up again.
add_edge_Unchecked(acc, label, src, dst, props) ==
  Tally([acc EXCEPT !.g.edges = Append(@, [id |-> Len(acc.g.edges) + 1, label |-> label,
           props |-> props, src |-> src, dst |-> dst])], "edges_created", 1)

add_edge(acc, label, src, dst, props) ==
  IF ~NodeLives(acc.g, src) \/ ~NodeLives(acc.g, dst) THEN Stop(acc, "missing")
  ELSE Tally([acc EXCEPT !.g.edges = Append(@, [id |-> Len(acc.g.edges) + 1, label |-> label,
           props |-> props, src |-> src, dst |-> dst])], "edges_created", 1)

\* node and update_node: the record is read, changed and written back.
update_node(acc, i, props) ==
  CASE ~NodeLives(acc.g, i) -> Stop(acc, "missing")
    [] NodeLives(acc.g, i) /\ InConflict(acc.g, acc.g.nodes[i].label, props, i) -> Stop(acc, "constraint")
    [] OTHER -> [acc EXCEPT !.g.nodes[i].props = props]

\* remove_edge.
remove_edge(acc, i) ==
  IF ~EdgeLives(acc.g, i) THEN Stop(acc, "missing") ELSE [acc EXCEPT !.g.edges[i] = GoneEdge]

Touching(gr, n) == {i \in 1..Len(gr.edges) : n \in {gr.edges[i].src, gr.edges[i].dst}}

\* remove_node takes the edges at the node with it.
remove_node(acc, n) ==
  [acc EXCEPT !.g.nodes[n] = GoneNode,
              !.g.edges = [i \in DOMAIN @ |-> IF i \in Touching(acc.g, n) THEN GoneEdge ELSE @[i]]]

----------------------------------------------------------------------------
(* Values to store.                                                        *)

\* resolve_create_props: what cannot be stored is left out without an error; a later
\* entry of the same key replaces an earlier one.
resolve_create_props(fields, values) ==
  LET Kept(k) == {i \in 1..Len(fields) : fields[i].key = k /\ IsStorable(values[i])}
  IN  [k \in {j \in {f.key : f \in ToSet(fields)} : Kept(j) # {}} |-> values[Max(Kept(k))]]

\* The executor evaluates on an empty match: no variable is known to it.
Alone(x) == eval_expr(x, EmptyMatch, NoFun)
PropsAlone(fields) == resolve_create_props(fields, ValuesOf(fields, Alone))

\* resolve_map_expr: <<>> when it is no map.
MapOf(v) == IF Is(v, "map") THEN <<v.map>> ELSE <<>>
resolve_map_expr(x, params) ==
  MapOf(IF x.e # "param" THEN Alone(x) ELSE IF x.name \in DOMAIN params THEN params[x.name] ELSE Null)

Storable(f) == [k \in {j \in DOMAIN f : IsStorable(f[j])} |-> f[k]]
Overlay(f, h) == [k \in DOMAIN f \cup DOMAIN h |-> IF k \in DOMAIN h THEN h[k] ELSE f[k]]
scalar_entry_count(f) == Cardinality(DOMAIN Storable(f))

\* set_property: node, properties_mut().insert, update_node.
SetProperty(acc, n, k, v) ==
  Tally(IF NodeLives(acc.g, n) THEN update_node(acc, n, Overlay(acc.g.nodes[n].props, k :> v))
        ELSE Stop(acc, "missing"), "properties_set", 1)

\* apply_one_set_assignment: one property, the whole map, or the map added; a value
\* that cannot be stored changes nothing, not even a node that is gone.
SetOne(acc, n, k, v) == IF IsStorable(v) THEN SetProperty(acc, n, k, v) ELSE acc
SetMap(acc, n, how, map) ==
  LET Put(props) == Tally(update_node(acc, n, props), "properties_set", scalar_entry_count(map[1]))
  IN  CASE map = <<>> -> Stop(acc, "no map")
        [] map # <<>> /\ ~NodeLives(acc.g, n) -> Stop(acc, "missing")
        [] OTHER -> Put(IF how = "=" THEN Storable(map[1]) ELSE Overlay(acc.g.nodes[n].props, Storable(map[1])))
apply_one_set_assignment(acc, n, a, params) ==
  IF a.how = "." THEN SetOne(acc, n, a.key, Alone(a.x)) ELSE SetMap(acc, n, a.how, resolve_map_expr(a.x, params))

apply_on_set_clause(acc, n, set, params) ==
  IF set = <<>> THEN acc
  ELSE Through(acc, set[1].assignments, LAMBDA b, a : apply_one_set_assignment(b, n, a, params))

----------------------------------------------------------------------------
(* RETURN after a mutation.                                                *)

\* project_mutation_return: bare variables of nodes only, read back from the graph.
project_mutation_return(acc, items, rows) ==
  LET Refuses(x) == x.e # "var" \/ \E r \in ToSet(rows) : x.name \notin DOMAIN r.nodes
      Lost(x) == \E r \in ToSet(rows) : ~NodeLives(acc.g, r.nodes[x.name])
      xs == MapSeq(items, LAMBDA it : it.x)
  IN  Through(acc, xs, LAMBDA a, x : IF Refuses(x) THEN Stop(a, "return")
                                     ELSE IF Lost(x) THEN Stop(a, "missing") ELSE a)

----------------------------------------------------------------------------
(* CREATE.                                                                 *)

NameCreated(acc, x) ==
  IF acc.err # "" \/ x = <<>> THEN acc ELSE [acc EXCEPT !.created = Bind(@, x, Len(acc.g.nodes))]
CreateNode(acc, pat, props) ==
  NameCreated(Tally(add_node(acc, pat.label, props), "properties_set", Cardinality(DOMAIN props)), pat.var)
CreateFromMap(acc, pat, map) == IF map = <<>> THEN Stop(acc, "no map") ELSE CreateNode(acc, pat, Storable(map[1]))

\* execute_bare_mutation: CREATE of nodes, with RETURN; everything else needs more.
ReturnCreated(acc, ret) ==
  IF acc.err # "" \/ ret = <<>> THEN acc
  ELSE project_mutation_return(acc, ret[1].items, <<[nodes |-> acc.created]>>)
execute_bare_mutation(acc, stmt) ==
  LET Create(a, pat) ==
        CASE pat.c = "edge" -> Stop(a, "edge without MATCH")
          [] pat.c = "node" /\ pat.map # <<>> -> CreateFromMap(a, pat, resolve_map_expr(pat.map[1], stmt.params))
          [] OTHER -> CreateNode(a, pat, PropsAlone(pat.props))
  IN  IF stmt.clause.op # "create" THEN Stop(acc, "bare")
      ELSE ReturnCreated(Through(acc, stmt.clause.patterns, Create), stmt.return)

\* apply_match_create: the nodes a row creates get no name, so an edge joins matched
\* nodes only; a map of properties is not looked at.
CreateEdge(acc, pat, ends, props) ==
  IF {pat.from, pat.to} \subseteq DOMAIN ends
  THEN Tally(add_edge(acc, pat.label, ends[pat.from], ends[pat.to], props), "properties_set", Cardinality(DOMAIN props))
  ELSE Stop(acc, "unbound")
CreatePattern(acc, pat, ends, props) ==
  IF pat.c = "node" THEN CreateNode(acc, pat, props) ELSE CreateEdge(acc, pat, ends, props)
apply_match_create(acc, patterns, rows) ==
  LET One(a, row, pat) == CreatePattern(a, pat, row.nodes, PropsAlone(pat.props))
  IN  Through(acc, rows, LAMBDA a, row : Through(a, patterns, LAMBDA b, pat : One(b, row, pat)))

\* apply_unwind_create_body: for every element and row the nodes it creates are known
\* to its edges, before those of the row.
apply_unwind_create_body(acc, stmt, elements, rows) ==
  LET Known(a, row) == [x \in DOMAIN a.created \cup DOMAIN row.nodes |->
                          IF x \in DOMAIN a.created THEN a.created[x] ELSE row.nodes[x]]
      Props(fields, v) == resolve_create_props(fields, ValuesOf(fields, LAMBDA x :
                            eval_expr_with_unwind_var(x, EmptyMatch, stmt.unwind[1].var, v)))
      One(a, v, row, pat) == IF pat.c = "node" /\ pat.map # <<>> THEN Stop(a, "map")
                             ELSE CreatePattern(a, pat, Known(a, row), Props(pat.props, v))
      Row(a, v, row) == Through([a EXCEPT !.created = NoFun], stmt.clause.patterns,
                                LAMBDA b, pat : One(b, v, row, pat))
  IN  Through(acc, elements, LAMBDA a, v : Through(a, rows, LAMBDA b, row : Row(b, v, row)))

----------------------------------------------------------------------------
(* DELETE.                                                                 *)

\* incident_edge_ids: outgoing and incoming, sorted, without repetition.
incident_edge_ids(gr, n) == SelectSeq([i \in 1..Len(gr.edges) |-> i], LAMBDA i : i \in Touching(gr, n))

\* Mutant: a node that an earlier row deleted is deleted again.
delete_node_row_Again(acc, n, detach) ==
  LET incident == incident_edge_ids(acc.g, n)
  IN  CASE ~NodeLives(acc.g, n) -> Stop(acc, "missing")
        [] NodeLives(acc.g, n) /\ ~detach /\ incident # <<>> -> Stop(acc, "connected")
        [] OTHER -> Tally(Tally([remove_node(acc, n) EXCEPT !.deleted_nodes = @ \cup {n}],
                                "edges_deleted", Len(incident)), "nodes_deleted", 1)

\* delete_node_row: once for a statement; only DETACH takes edges along.
delete_node_row(acc, n, detach) ==
  LET incident == incident_edge_ids(acc.g, n)
  IN  CASE n \in acc.deleted_nodes -> acc
        [] n \notin acc.deleted_nodes /\ ~NodeLives(acc.g, n) -> Stop(acc, "missing")
        [] n \notin acc.deleted_nodes /\ NodeLives(acc.g, n) /\ ~detach /\ incident # <<>> ->
             Stop(acc, "connected")
        [] OTHER -> Tally(Tally([remove_node(acc, n) EXCEPT !.deleted_nodes = @ \cup {n}],
                                "edges_deleted", Len(incident)), "nodes_deleted", 1)

\* delete_edge_row.
delete_edge_row(acc, i) ==
  IF i \in acc.deleted_edges THEN acc
  ELSE Tally([remove_edge(acc, i) EXCEPT !.deleted_edges = @ \cup {i}], "edges_deleted", 1)

\* The DELETE of apply_match_mutation_body and apply_pipeline_delete: a variable is a
\* node, else an edge, else refused.
DeleteRows(acc, clause, rows) ==
  LET One(a, row, x) ==
        CASE x \in DOMAIN row.nodes -> delete_node_row(a, row.nodes[x], clause.detach)
          [] x \notin DOMAIN row.nodes /\ x \in DOMAIN row.edges -> delete_edge_row(a, row.edges[x])
          [] OTHER -> Stop(a, "unbound")
  IN  Through(acc, rows, LAMBDA a, row : Through(a, clause.vars, LAMBDA b, x : One(b, row, x)))

\* apply_unwind_delete_body: nodes only, once for all elements.
apply_unwind_delete_body(acc, clause, rows) ==
  DeleteRows(acc, clause, MapSeq(rows, LAMBDA row : [row EXCEPT !.edges = NoFun]))

----------------------------------------------------------------------------
(* MERGE, and MATCH followed by a mutation.                                *)

\* merge_lookup: the properties that can be stored, and the ids the indexes list under
\* the label and under each of them, a key given twice with both values; which of
\* several is taken is the hash set's choice.
LookUp(label, fields, values) ==
  LET Lists(i, k) == \E ver \in Indexed(i) :
        /\ ver.label = label
        /\ fields[k].key \in DOMAIN ver.props /\ ver.props[fields[k].key] = values[k]
  IN  {i \in 1..Len(g.nodes) :
         /\ \E ver \in Indexed(i) : ver.label = label
         /\ \A k \in 1..Len(fields) : IsStorable(values[k]) => Lists(i, k)}
merge_lookup(merge) ==
  [props |-> PropsAlone(merge.props), found |-> LookUp(merge.label, merge.props, ValuesOf(merge.props, Alone))]

\* apply_merge_write: by what the lookup saw (0: nothing), then ON MATCH or ON CREATE
\* and the node returned.
MergeSet(acc, n, set, params) == IF acc.err # "" THEN acc ELSE apply_on_set_clause(acc, n, set, params)
OnCreate(acc, stmt) == MergeSet(acc, Len(acc.g.nodes), stmt.clause.on_create, stmt.params)
ReturnMerged(acc, n, ret) ==
  IF acc.err = "" /\ ret # <<>> /\ ~NodeLives(acc.g, n) THEN Stop(acc, "missing") ELSE acc
apply_merge_write(acc, stmt, lookup) ==
  IF lookup.id # 0
  THEN ReturnMerged(MergeSet(acc, lookup.id, stmt.clause.on_match, stmt.params), lookup.id, stmt.clause.return)
  ELSE ReturnMerged(OnCreate(add_node(acc, stmt.clause.label, lookup.props), stmt),
                    Len(acc.g.nodes) + 1, stmt.clause.return)

\* apply_match_mutation_body: MERGE and RETURN after CREATE are refused before
\* anything is written, a RETURN after SET is projected after everything is.
ReturnRows(acc, ret, rows) ==
  IF acc.err # "" \/ ret = <<>> THEN acc ELSE project_mutation_return(acc, ret[1].items, rows)
SetRows(acc, stmt, rows) ==
  LET Set(a, row, s) == IF s.var \notin DOMAIN row.nodes THEN Stop(a, "unbound")
                        ELSE apply_one_set_assignment(a, row.nodes[s.var], s, stmt.params)
  IN  Through(acc, rows, LAMBDA a, row : Through(a, stmt.clause.assignments, LAMBDA b, s : Set(b, row, s)))
apply_match_mutation_body(acc, stmt, rows) ==
  LET clause == stmt.clause
  IN  CASE clause.op = "create" -> IF stmt.return # <<>> THEN Stop(acc, "return")
                                   ELSE apply_match_create(acc, clause.patterns, rows)
        [] clause.op = "set" -> ReturnRows(SetRows(acc, stmt, rows), stmt.return, rows)
        [] clause.op = "delete" -> DeleteRows(acc, clause, rows)
        [] clause.op = "merge" -> Stop(acc, "merge after MATCH")

\* compile_match_rows and compile_match_bindings: the ids behind the named variables.
RowOf(mc, pm) ==
  LET named == collect_bound_vars(mc)
      Ids(f) == [x \in DOMAIN f \cap named |-> f[x].id]
  IN  [nodes |-> Ids(pm.nodes), edges |-> Ids(pm.edges)]
RowsOf(mc, ms) == IF Failed \in ToSet(ms) THEN <<Failed>> ELSE MapSeq(ms, LAMBDA pm : RowOf(mc, pm))
compile_match_rows(mc) == RowsOf(mc, compile_match(mc.patterns))

\* apply_pipeline_set: properties of nodes only, evaluated on the binding.
PipelineSetOne(acc, b, s, v) ==
  CASE s.how # "." -> Stop(acc, "map in a pipeline")
    [] s.how = "." /\ ~IsStorable(v) -> acc
    [] s.how = "." /\ IsStorable(v) /\ s.var \in DOMAIN b.nodes -> SetProperty(acc, b.nodes[s.var].id, s.key, v)
    [] OTHER -> Stop(acc, "no node")
apply_pipeline_set(acc, assignments, rows) ==
  Through(acc, rows, LAMBDA a, b : Through(a, assignments, LAMBDA d, s :
    PipelineSetOne(d, b, s, eval_expr_on_binding(s.x, b))))

\* execute_pipeline_mutation: the scope, the stages, then the terminal.
PipelineTerminal(acc, terminal, rows) ==
  LET Ids(b) == [nodes |-> [x \in DOMAIN b.nodes |-> b.nodes[x].id],
                 edges |-> [x \in DOMAIN b.edges |-> b.edges[x].id]]
  IN  CASE rows = <<Failed>> -> Stop(acc, "match")
        [] rows # <<Failed>> /\ terminal.op = "set" -> apply_pipeline_set(acc, terminal.assignments, rows)
        [] OTHER -> DeleteRows(acc, terminal, MapSeq(rows, Ids))
execute_pipeline_mutation(acc, p) ==
  IF ~validate_pipeline_scope(p) THEN Stop(acc, "scope")
  ELSE PipelineTerminal(acc, p.return, BindingsAfter(p, Len(p.stages)))

----------------------------------------------------------------------------
(* The accessor: what each client does under which lock.                   *)

InitMutate ==
  /\ g \in Pastures
  /\ \E f \in [Clients -> Statements] :
       client = [c \in Clients |-> [step |-> "new", stmt |-> f[c], seen |-> <<>>, at |-> <<>>,
                                    err |-> "", stats |-> NoStats]]

Running(c, step) == client[c].step = step
Stmt(c) == client[c].stmt
IsBare(stmt) == stmt.kind = "mutation" /\ stmt.unwind = <<>> /\ stmt.match = <<>>

\* The answer, with whatever the write changed before it stopped.
Finish(c, acc) ==
  /\ g' = acc.g
  /\ client' = [client EXCEPT ![c].step = "done", ![c].err = acc.err, ![c].stats = acc.stats]

\* The end of the read phase: the read lock is released with what was seen.
Saw(c, seen) ==
  /\ client' = [client EXCEPT ![c].step = "read", ![c].seen = seen, ![c].at = g]
  /\ UNCHANGED g

\* execute_mutation without MATCH: one write lock.
BareMutation(c) ==
  /\ Running(c, "new") /\ IsBare(Stmt(c)) /\ Stmt(c).clause.op # "merge"
  /\ Finish(c, execute_bare_mutation(Writing(g), Stmt(c)))

\* execute_pipeline of a SET or DELETE terminal: one write lock.
PipelineMutation(c) ==
  /\ Running(c, "new") /\ Stmt(c).kind = "pipeline"
  /\ Finish(c, execute_pipeline_mutation(Writing(g), Stmt(c)))

\* execute_match_mutation, reading: no rows, nothing to do.
MatchedRows(c, rows) ==
  CASE rows = <<Failed>> -> Finish(c, Stop(Writing(g), "match"))
    [] rows = <<>> -> Finish(c, Writing(g))
    [] OTHER -> Saw(c, rows)
ReadMatch(c) ==
  /\ Running(c, "new") /\ Stmt(c).kind = "mutation" /\ Stmt(c).match # <<>> /\ Stmt(c).unwind = <<>>
  /\ MatchedRows(c, compile_match_rows(Stmt(c).match[1]))

\* execute_match_mutation, writing.
WriteAfterMatch(c) ==
  /\ Running(c, "read") /\ Stmt(c).match # <<>> /\ Stmt(c).unwind = <<>>
  /\ Finish(c, apply_match_mutation_body(Writing(g), Stmt(c), client[c].seen))

\* execute_bare_merge, reading.
ReadMerge(c) ==
  /\ Running(c, "new") /\ IsBare(Stmt(c)) /\ Stmt(c).clause.op = "merge"
  /\ LET lookup == merge_lookup(Stmt(c).clause)
     IN  \E i \in IF lookup.found = {} THEN {0} ELSE lookup.found :
           Saw(c, [id |-> i, props |-> lookup.props])

\* execute_bare_merge, writing.
WriteAfterLookup(c) ==
  /\ Running(c, "read") /\ IsBare(Stmt(c))
  /\ Finish(c, apply_merge_write(Writing(g), Stmt(c), client[c].seen))

\* execute_unwind_mutation, reading (eval_unwind_and_match): the list, what is no list
\* as its only element, and the rows of MATCH or one empty row.
UnwoundRowsSeen(c, elements, rows) ==
  CASE rows = <<Failed>> -> Finish(c, Stop(Writing(g), "match"))
    [] rows # <<Failed>> /\ (elements = <<>> \/ rows = <<>>) -> Finish(c, Writing(g))
    [] OTHER -> Saw(c, [elements |-> elements, rows |-> rows])
ReadUnwind(c) ==
  LET stmt == Stmt(c)
  IN  /\ Running(c, "new") /\ stmt.kind = "mutation" /\ stmt.unwind # <<>>
      /\ IF stmt.clause.op \notin {"create", "delete"} THEN Finish(c, Stop(Writing(g), "unwind"))
         ELSE UnwoundRowsSeen(c, Elements(Alone(stmt.unwind[1].list)),
                IF stmt.match = <<>> THEN <<EmptyMatch>> ELSE compile_match_rows(stmt.match[1]))

\* execute_unwind_mutation, writing.
WriteAfterUnwind(c) ==
  /\ Running(c, "read") /\ Stmt(c).unwind # <<>>
  /\ Finish(c, IF Stmt(c).clause.op = "create"
               THEN apply_unwind_create_body(Writing(g), Stmt(c), client[c].seen.elements, client[c].seen.rows)
               ELSE apply_unwind_delete_body(Writing(g), Stmt(c).clause, client[c].seen.rows))

NextMutate ==
  \E c \in Clients : BareMutation(c) \/ PipelineMutation(c) \/ ReadMatch(c) \/ WriteAfterMatch(c)
                     \/ ReadMerge(c) \/ WriteAfterLookup(c) \/ ReadUnwind(c) \/ WriteAfterUnwind(c)
SpecMutate == InitMutate /\ [][NextMutate]_mutateVars

----------------------------------------------------------------------------
(* What the statements leave.                                              *)

LiveNodes(gr) == {i \in 1..Len(gr.nodes) : NodeLives(gr, i)}
LiveEdges(gr) == {i \in 1..Len(gr.edges) : EdgeLives(gr, i)}

\* Every edge joins two nodes that exist, although the rows a CREATE or DELETE works
\* on were read under a lock that another client's DELETE came after (add_edge_str,
\* delete_node_row).
EdgesKeepTheirEnds ==
  \A i \in LiveEdges(g) : {g.edges[i].src, g.edges[i].dst} \subseteq LiveNodes(g)

\* No two nodes of a label share the value of a constrained key, whichever of CREATE,
\* MERGE after a lookup that found nothing, SET of a property and SET of a whole map
\* wrote it, and when the write fails half way (check_unique).
UniqueAcrossStatements ==
  \A pair \in UniqueKeys : \A i, j \in LiveNodes(g) :
    LET Has(k) == g.nodes[k].label = pair[1] /\ pair[2] \in DOMAIN g.nodes[k].props
    IN  Has(i) /\ Has(j) /\ i # j => g.nodes[i].props[pair[2]] # g.nodes[j].props[pair[2]]

Ends(c) == client[c].step # "done" /\ client'[c].step = "done"
Succeeds(c) == Ends(c) /\ client'[c].err = ""

\* The counts a successful statement reports are the nodes and edges that appeared
\* and disappeared, however often its rows name them (GqlMutationResult).
CountsAreReported ==
  [][\A c \in Clients : Succeeds(c) =>
       LET s == client'[c].stats
           New(L(_)) == Cardinality(L(g') \ L(g))
           Lost(L(_)) == Cardinality(L(g) \ L(g'))
       IN  /\ s.nodes_created = New(LiveNodes) /\ s.edges_created = New(LiveEdges)
           /\ s.nodes_deleted = Lost(LiveNodes) /\ s.edges_deleted = Lost(LiveEdges)]_mutateVars

\* Nothing was written between the read and the write of a statement.
Undisturbed(c) == client[c].step = "read" /\ client[c].at = g

\* A DELETE of nodes that nobody comes between removes the nodes its rows bind, and
\* with DETACH their edges, and nothing else; it fails exactly when, without DETACH,
\* one of them has an edge, although the same node may be in many rows
\* (apply_match_mutation_body, delete_node_row).
DeleteIsExact ==
  [][\A c \in Clients :
       (/\ Ends(c) /\ Undisturbed(c) /\ Stmt(c).unwind = <<>> /\ Stmt(c).clause.op = "delete"
        /\ \A k \in 1..Len(client[c].seen) : ToSet(Stmt(c).clause.vars) \subseteq DOMAIN client[c].seen[k].nodes)
       => LET bound == {client[c].seen[k].nodes[x] : k \in 1..Len(client[c].seen), x \in ToSet(Stmt(c).clause.vars)}
              edged == UNION {Touching(g, n) : n \in bound}
          IN  IF ~Stmt(c).clause.detach /\ edged # {} THEN client'[c].err = "connected"
              ELSE /\ client'[c].err = ""
                   /\ LiveNodes(g') = LiveNodes(g) \ bound
                   /\ LiveEdges(g') = LiveEdges(g) \ edged]_mutateVars

\* The nodes a MERGE asks for.
Asked(gr, merge) ==
  {i \in LiveNodes(gr) :
     /\ gr.nodes[i].label = merge.label
     /\ \A k \in 1..Len(merge.props) :
          LET f == merge.props[k]
          IN  IsStorable(Alone(f.x)) => f.key \in DOMAIN gr.nodes[i].props /\ gr.nodes[i].props[f.key] = Alone(f.x)}

\* A MERGE that nobody comes between creates a node exactly when none is there that
\* has everything it asks for, and changes one of those otherwise (merge_lookup,
\* apply_merge_write).
MergeFindsOrCreates ==
  [][\A c \in Clients :
       (Succeeds(c) /\ Undisturbed(c) /\ Stmt(c).clause.op = "merge") =>
         LET asked == Asked(g, Stmt(c).clause)
             changed == {i \in LiveNodes(g') : i \notin LiveNodes(g) \/ g'.nodes[i] # g.nodes[i]}
         IN  IF asked = {} THEN Cardinality(changed) = 1 /\ changed \cap LiveNodes(g) = {}
             ELSE changed \subseteq asked /\ Cardinality(changed) <= 1]_mutateVars

\* UNWIND of a list before a CREATE of nodes leaves the graph that the CREATE alone
\* leaves when it is run for one element after the other, with the element written in
\* place of the variable (apply_unwind_create_body, execute_bare_mutation).
UnwindCreatesEach ==
  [][\A c \in Clients :
       (/\ Succeeds(c) /\ Running(c, "read") /\ Stmt(c).unwind # <<>> /\ Stmt(c).match = <<>>
        /\ Stmt(c).clause.op = "create"
        /\ \A k \in 1..Len(Stmt(c).clause.patterns) : Stmt(c).clause.patterns[k].c = "node")
       => LET stmt == Stmt(c)
              In(pat, v) == [pat EXCEPT !.props = MapSeq(@, LAMBDA f :
                               [f EXCEPT !.x = Substituted(@, stmt.unwind[1].var, v)])]
              For(v) == [stmt EXCEPT !.clause.patterns = MapSeq(@, LAMBDA pat : In(pat, v))]
          IN  g' = Through(Writing(g), client[c].seen.elements,
                           LAMBDA a, v : execute_bare_mutation(a, For(v))).g]_mutateVars

\* Statements of two clients that read and write under different locks leave
\* no edge without its ends and no constraint violated.
SharedGraphIsSound ==
  EdgesKeepTheirEnds /\ UniqueAcrossStatements

\* What a statement reports is what it did, and DELETE, MERGE and UNWIND ...
\* CREATE do what they say.
StatementsDoWhatTheySay ==
  /\ CountsAreReported /\ DeleteIsExact
  /\ MergeFindsOrCreates /\ UnwindCreatesEach

=============================================================================
