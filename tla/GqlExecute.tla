----------------------------- MODULE GqlExecute -----------------------------
(***************************************************************************)
(* Running read queries.  Three executors share the matcher: the one for a *)
(* single MATCH ... RETURN (with the shortcut for aggregates and with      *)
(* GROUP BY), the one for UNWIND before it, and the pipeline of MATCH,     *)
(* UNWIND and WITH stages.  A query is a record; a result is a sequence of *)
(* rows, functions from columns to values, or <<Refused>>. The deadline is *)
(* not modelled.  `hash` gives the iteration order of the hash maps in the *)
(* row of each position, which the Debug text of an entity shows.          *)
(***************************************************************************)
EXTENDS GqlMatch

CONSTANTS Graphs,     \* the graphs explored
          Queries,    \* the queries explored
          Hashes      \* the iteration orders explored

VARIABLES query,      \* the query being run
          hash,       \* iteration orders
          stage,      \* how many stages of a pipeline have run
          table,      \* the bindings they left
          result,     \* the answer, when phase is "answered"
          phase       \* "new", "running", "answered"

queryVars == <<g, query, hash, stage, table, result, phase>>

\* The answer to a query that is refused.
Refused == [c \in {<<"error">>} |-> Null]

Absent == -1
Columns(items) == MapSeq(items, Column)

\* project_row: a later item with the same column replaces an earlier one.
project_row(items, values) ==
  [c \in ToSet(Columns(items)) |-> values[Max({k \in 1..Len(items) : Column(items[k]) = c})]]
\* The values of the items of a row, or of the keys of an order.
ValuesOf(items, Value(_)) == MapSeq(items, LAMBDA i : Value(i.x))

Filter(rows, Keep(_)) == SelectSeq(rows, Keep)
IsTrue(v) == Truth(v) = BoolV(TRUE)
Take(rows, n) == IF n = Absent THEN rows ELSE SubSeq(rows, 1, Min({n, Len(rows)}))
Skip(rows, n) == IF n = Absent THEN rows ELSE SubSeq(rows, n + 1, Len(rows))

\* validate_scope: every variable of WHERE, RETURN, ORDER BY and GROUP BY is bound.
ExprsOf(items) == {items[k].x : k \in 1..Len(items)}
validate_scope(q) ==
  UNION {collect_expr_vars(x) : x \in {q.where} \cup ExprsOf(q.items) \cup ExprsOf(q.order)
                                      \cup ToSet(q.group)}
    \subseteq collect_bound_vars(q)

\* validate_aggregation: "rows", "aggregate" or "refused".
validate_aggregation(q) ==
  LET aggs == {k \in 1..Len(q.items) : expr_has_aggregate(q.items[k].x)}
  IN  CASE q.group # <<>> -> IF \A k \in (1..Len(q.items)) \ aggs : q.items[k].x \in ToSet(q.group)
                             THEN "aggregate" ELSE "refused"
        [] q.group = <<>> /\ aggs # {} /\ aggs # 1..Len(q.items) -> "refused"
        [] OTHER -> IF aggs # {} THEN "aggregate" ELSE "rows"

\* eval_aggregate, eval_aggregate_refs and eval_aggregate_with_unwind: an aggregate
\* inside a larger expression is refused here.
EvalOverRows(x, values, count) == eval_aggregate_core(x.func, values, count, x.arg.e = "star")
IsPlainAggregate(x) == x.e = "agg"

----------------------------------------------------------------------------
(* Sorting.                                                                *)

\* What gql_value_cmp cannot compare counts as equal, as in compare_sort_keys, but NULL,
\* which it cannot compare with anything, too.
Compared(nullsLast, a, b) == IF ~nullsLast /\ (a = Null \/ b = Null) THEN 0 ELSE compare_sort_keys(a, b)

\* The order of two rows of keys, each key with its direction: compare_sort_keys, which
\* puts NULL last, or gql_value_cmp, which has no place for it.
KeyOrder(nullsLast, a, b, order) ==
  LET cmp == [k \in 1..Len(order) |->
                LET c == Compared(nullsLast, a[k], b[k]) IN IF order[k].asc THEN c ELSE -c]
      differ == {k \in 1..Len(order) : cmp[k] # 0}
  IN  IF differ = {} THEN 0 ELSE cmp[Min(differ)]

\* sort_by: the positions of the rows in their new order.  The library sorts this
\* few rows by insertion, so the order is defined for a comparison that is no weak
\* order too: a row moves left past the rows it is less than.
SortedPositions(nullsLast, keys, order) ==
  LET Insert(s, i) ==
        LET stays == {k \in 1..Len(s) : KeyOrder(nullsLast, keys[i], keys[s[k]], order) >= 0}
        IN  InsertAt(s, 1 + Max(stays \cup {0}), i)
  IN  FoldLeft(Insert, <<>>, [i \in 1..Len(keys) |-> i])

Exchange(f, i, j) == [f EXCEPT ![i] = f[j], ![j] = f[i]]

\* apply_permutation: data rearranged in place, cycle by cycle, so that position i
\* holds what was at perm[i].
RECURSIVE FollowCycle(_, _, _, _)
FollowCycle(st, perm, i, j) ==
  LET next == perm[j]
      marked == [st EXCEPT !.done = @ \cup {j}]
  IN  IF next = i THEN marked
      ELSE FollowCycle([marked EXCEPT !.data = Exchange(@, j, next)], perm, i, next)
apply_permutation(data, perm) ==
  LET Visit(st, i) == IF i \in st.done \/ perm[i] = i THEN [st EXCEPT !.done = @ \cup {i}]
                      ELSE FollowCycle(st, perm, i, i)
  IN  FoldLeft(Visit, [data |-> data, done |-> {}], [i \in 1..Len(data) |-> i]).data

\* apply_order_by: keys first, then one rearrangement.
SortRows(rows, keys, order) ==
  IF rows = <<>> \/ order = <<>> THEN rows
  ELSE apply_permutation(rows, SortedPositions(TRUE, keys, order))
KeysOf(rows, order, Key(_, _)) == MapSeq(rows, LAMBDA r : ValuesOf(order, LAMBDA x : Key(x, r)))

\* The sort of execute_grouped and execute_with_unwind works on the returned rows: an
\* ORDER BY expression is looked up among the columns.
ColumnKey(items, x, row) ==
  LET same == {k \in 1..Len(items) : items[k].x = x}
      col == IF same = {} THEN expr_surface_name(x) ELSE Column(items[Min(same)])
  IN  IF col \in DOMAIN row THEN row[col] ELSE Null

----------------------------------------------------------------------------
(* Distinct rows.                                                          *)

\* The rows kept by DISTINCT: the first of each key.
KeepFirst(rows, KeyOf(_)) ==
  LET Visit(acc, i) == IF KeyOf(i) \in acc.seen THEN acc
                       ELSE [seen |-> acc.seen \cup {KeyOf(i)}, out |-> Append(acc.out, rows[i])]
  IN  FoldLeft(Visit, [seen |-> {}, out |-> <<>>], [i \in 1..Len(rows) |-> i]).out

\* DISTINCT outside the pipeline: the Debug text of the columns in order.
DistinctRows(rows) ==
  KeepFirst(rows, LAMBDA i : [c \in DOMAIN rows[i] |-> DebugText(rows[i][c], hash[i])])

\* distinct_bindings and binding_distinct_key: values by name, then the ids of the
\* nodes and of the edges by name.
binding_distinct_key(b) ==
  LET Pairs(f, Val(_)) == LET names == SetToSeq(DOMAIN f)
        IN  FlattenSeq([k \in 1..Len(names) |-> <<StrV(names[k]), Val(f[names[k]])>>])
  IN  gql_value_slice_to_key(Pairs(b.vals, LAMBDA v : v)
                             \o Pairs(b.nodes, LAMBDA n : IntV(n.id))
                             \o Pairs(b.edges, LAMBDA d : IntV(d.id)))

distinct_bindings(rows) == KeepFirst(rows, LAMBDA i : binding_distinct_key(rows[i]))

\* The end of a query outside the pipeline: make distinct and cut.
CutRows(q, rows) == Take(IF q.distinct THEN DistinctRows(rows) ELSE rows, q.limit)

\* sort_by of the rows themselves, by what gql_value_cmp says of their columns.
SortByColumns(q, rows) ==
  LET keys == KeysOf(rows, q.order, LAMBDA x, r : ColumnKey(q.items, x, r))
  IN  MapSeq(SortedPositions(FALSE, keys, q.order), LAMBDA i : rows[i])

----------------------------------------------------------------------------
(* Aggregates pushed into the scan.                                        *)

\* is_pushdown_eligible.
is_pushdown_eligible(q) ==
  /\ q.where = Lit(BoolV(TRUE)) /\ q.order = <<>> /\ q.limit = Absent /\ ~q.distinct
  /\ Len(q.patterns) = 1
  /\ LET hops == q.patterns[1].hops
     IN  hops = <<>> \/ (Len(hops) = 1 /\ ~IsVariable(hops[1]) /\ hops[1].edge.var = <<>>)

\* aggregate_target: only an aggregate of *, of a variable or of a property.
HasTarget(x) == x.e = "agg" /\ x.arg.e \in {"star", "var", "prop"}
NeedsLoad(x) == x.arg.e = "prop"

\* The row in which every column has the same value.
SameRow(items, v) == [c \in ToSet(Columns(items)) |-> v]

\* The count of one hop: the label of the edge and of the end node are compared.
CountHop(pp) ==
  LET hop == pp.hops[1]
      Of(n) == SelectSeq(EdgesOf(n, hop.edge.dir),
                 LAMBDA i : /\ hop.edge.label \in {<<>>, g.edges[i].label}
                            /\ hop.node.label \in {<<>>, g.nodes[edge_neighbor(i, n)].label})
  IN  FoldLeft(LAMBDA acc, n : acc + Len(Of(n)), 0, narrow_candidates(pp.start))

\* pushdown_with_node_load: the accumulators are fed from the candidates, one that
\* cannot be loaded being an error; an aggregate of * or of a variable is fed the
\* node's id.
FeedNodes(q, ids) ==
  LET Fed(x) == MapSeq(ids, LAMBDA i : IF x.arg.e = "prop" THEN PropOf(g.nodes[i], x.arg.key)
                                       ELSE IntV(g.nodes[i].id))
  IN  IF \E i \in ToSet(ids) : ~Visible(i) THEN Refused
      ELSE project_row(q.items, ValuesOf(q.items, LAMBDA x : AggAccumResult(x.func, Fed(x))))

\* try_aggregate_pushdown: <<>> when the general way is taken.  The properties of the
\* start node are left to the indexes; only the count without a hop asks node_visible.
try_aggregate_pushdown(q) ==
  LET pp == q.patterns[1]
      loads == \E k \in 1..Len(q.items) : NeedsLoad(q.items[k].x)
      ids == narrow_candidates(pp.start)
  IN  IF ~is_pushdown_eligible(q) \/ \E k \in 1..Len(q.items) : ~HasTarget(q.items[k].x) THEN <<>>
      ELSE CASE pp.hops # <<>> /\ loads -> <<>>
             [] pp.hops # <<>> /\ ~loads -> <<SameRow(q.items, IntV(CountHop(pp)))>>
             [] pp.hops = <<>> /\ ~loads -> <<SameRow(q.items, IntV(Len(SelectSeq(ids, Visible))))>>
             [] OTHER -> <<FeedNodes(q, ids)>>

----------------------------------------------------------------------------
(* MATCH ... RETURN.                                                       *)

ValueIn(x, pm) == eval_expr(x, pm, NoFun)

\* execute_grouped: groups by the text of their keys, in order of first sight; an
\* item that is no aggregate is one of the keys, and one that holds an aggregate must
\* be it (eval_aggregate_refs), which the first group finds out.
KeyValues(q, matches) == MapSeq(matches, LAMBDA pm : MapSeq(q.group, LAMBDA x : ValueIn(x, pm)))
KeyTexts(keys) == [i \in 1..Len(keys) |-> [k \in 1..Len(keys[i]) |-> DebugText(keys[i][k], hash[i])]]
GroupedRows(q, matches, keys, texts) ==
  LET all == [i \in 1..Len(matches) |-> i]
      heads == SelectSeq(all, LAMBDA i : \A j \in 1 .. (i - 1) : texts[j] # texts[i])
      Members(i) == SelectSeq(all, LAMBDA j : texts[j] = texts[i])
      Cell(i, x) ==
        IF expr_has_aggregate(x)
        THEN EvalOverRows(x, IF x.arg.e = "star" THEN <<>>
                             ELSE MapSeq(Members(i), LAMBDA j : ValueIn(x.arg, matches[j])),
                          Len(Members(i)))
        ELSE keys[i][Min({k \in 1..Len(q.group) : q.group[k] = x})]
  IN  MapSeq(heads, LAMBDA i : project_row(q.items, ValuesOf(q.items, LAMBDA x : Cell(i, x))))
execute_grouped(q, matches) ==
  IF matches # <<>> /\ \E x \in ExprsOf(q.items) : expr_has_aggregate(x) /\ ~IsPlainAggregate(x)
  THEN <<Refused>>
  ELSE CutRows(q, SortByColumns(q, GroupedRows(q, matches, KeyValues(q, matches), KeyTexts(KeyValues(q, matches)))))

\* apply_aggregation: one row over all matches.
apply_aggregation(q, matches) ==
  IF \E k \in 1..Len(q.items) : ~IsPlainAggregate(q.items[k].x) THEN <<Refused>>
  ELSE <<project_row(q.items, ValuesOf(q.items, LAMBDA x :
           EvalOverRows(x, IF x.arg.e = "star" THEN <<>>
                           ELSE MapSeq(matches, LAMBDA pm : ValueIn(x.arg, pm)), Len(matches))))>>

\* execute_with_deadline: validate, push down or match, filter, cap, then group,
\* aggregate, or project, sort, make distinct and cut.
KeptMatches(q, matches) ==
  Filter(matches, LAMBDA pm : IsTrue(eval_expr(q.where, pm, materialise_path_bindings(q, pm))))
SortMatches(q, matches) == SortRows(matches, KeysOf(matches, q.order, ValueIn), q.order)
Project(q, pm, paths) == project_row(q.items, ValuesOf(q.items, LAMBDA x : eval_expr(x, pm, paths)))
ProjectedRows(q, matches) == MapSeq(matches, LAMBDA pm : Project(q, pm, materialise_path_bindings(q, pm)))
RowsFrom(q, filtered) ==
  CASE q.group # <<>> -> execute_grouped(q, filtered)
    [] q.group = <<>> /\ validate_aggregation(q) = "aggregate" -> apply_aggregation(q, filtered)
    [] OTHER -> CutRows(q, ProjectedRows(q, SortMatches(q, filtered)))
WithinCap(q, filtered, max_rows) ==
  IF max_rows > 0 /\ Len(filtered) > max_rows THEN <<Refused>> ELSE RowsFrom(q, filtered)
ExecuteMatches(q, matches, max_rows) ==
  IF Failed \in ToSet(matches) THEN <<Refused>> ELSE WithinCap(q, KeptMatches(q, matches), max_rows)
ExecuteGeneral(q, max_rows) == ExecuteMatches(q, compile_match(q.patterns), max_rows)

ExecuteUnless(pushed, q, max_rows) == IF pushed # <<>> THEN pushed ELSE ExecuteGeneral(q, max_rows)
execute(q, max_rows) ==
  LET kind == validate_aggregation(q)
  IN  IF ~validate_scope(q) \/ kind = "refused" THEN <<Refused>>
      ELSE ExecuteUnless(IF kind = "aggregate" /\ q.group = <<>> THEN try_aggregate_pushdown(q) ELSE <<>>,
                         q, max_rows)

\* execute_with_unwind: the list is evaluated alone; the cross product puts the
\* elements outside the matches.  GROUP BY aggregates everything into one row.
Elements(value) == CASE Is(value, "list") -> value.list [] value = Null -> <<>> [] OTHER -> <<value>>
UnwoundValue(x, p, uvar) == eval_expr_with_unwind_var(x, p.pm, uvar, p.v)
UnwoundPairs(q, elems, matches, uvar) ==
  Filter(FlattenSeq(MapSeq(elems, LAMBDA v : MapSeq(matches, LAMBDA pm : [pm |-> pm, v |-> v]))),
         LAMBDA p : IsTrue(UnwoundValue(q.where, p, uvar)))
AggregateUnwound(q, pairs, uvar) ==
  IF \E k \in 1..Len(q.items) : ~IsPlainAggregate(q.items[k].x) THEN <<Refused>>
  ELSE <<project_row(q.items, ValuesOf(q.items, LAMBDA x :
           EvalOverRows(x, IF x.arg.e = "star" THEN <<>>
             ELSE MapSeq(pairs, LAMBDA p : UnwoundValue(x.arg, p, uvar)), Len(pairs))))>>
UnwoundRows(q, pairs, uvar) ==
  MapSeq(pairs, LAMBDA p : project_row(q.items, ValuesOf(q.items, LAMBDA x : UnwoundValue(x, p, uvar))))
ExecuteUnwound(q, elems, matches, uvar) ==
  CASE elems = <<>> -> <<>>
    [] elems # <<>> /\ (Failed \in ToSet(matches) \/ validate_aggregation(q) = "refused") -> <<Refused>>
    [] elems # <<>> /\ matches = <<>> /\ validate_aggregation(q) # "refused" -> <<>>
    [] OTHER ->
         IF validate_aggregation(q) = "aggregate"
         THEN AggregateUnwound(q, UnwoundPairs(q, elems, matches, uvar), uvar)
         ELSE CutRows(q, SortByColumns(q, UnwoundRows(q, UnwoundPairs(q, elems, matches, uvar), uvar)))
execute_with_unwind(q, list, uvar) ==
  ExecuteUnwound(q, Elements(eval_expr(list, EmptyMatch, NoFun)), compile_match(q.patterns), uvar)

\* contains_param_ref: a parameter that was not replaced.
RECURSIVE contains_param_ref(_)
contains_param_ref(x) ==
  CASE x.e = "param" -> TRUE
    [] x.e = "bin" -> contains_param_ref(x.l) \/ contains_param_ref(x.r)
    [] x.e \in {"un", "isnull"} -> contains_param_ref(x.x)
    [] x.e = "agg" -> contains_param_ref(x.arg)
    [] x.e = "call" -> \E k \in 1..Len(x.args) : contains_param_ref(x.args[k])
    [] x.e = "items" -> \E k \in 1..Len(x.seq) : contains_param_ref(x.seq[k])
    [] x.e = "at" -> contains_param_ref(x.list) \/ contains_param_ref(x.index)
    [] x.e = "pred" -> contains_param_ref(x.list) \/ contains_param_ref(x.body)
    [] OTHER -> FALSE

\* expect_nonneg_int, of SKIP or LIMIT.
expect_nonneg_int(v) == Is(v, "int") /\ v.int >= 0

\* execute_const_return: RETURN alone is one row, unless SKIP or LIMIT take it away;
\* SKIP is looked at first.
execute_const_return(q) ==
  LET Val(x) == eval_expr(x, EmptyMatch, NoFun)
      Bad(xs) == xs # <<>> /\ ~expect_nonneg_int(Val(xs[1]))
      Is0(xs) == xs # <<>> /\ Val(xs[1]) = IntV(0)
      unbound == \E x \in ExprsOf(q.items) \cup ToSet(q.skip \o q.limit) : contains_param_ref(x)
  IN  IF unbound \/ Bad(q.skip) THEN <<Refused>>
      ELSE IF q.skip # <<>> /\ ~Is0(q.skip) THEN <<>>
      ELSE IF Bad(q.limit) THEN <<Refused>>
      ELSE IF Is0(q.limit) THEN <<>> ELSE <<project_row(q.items, ValuesOf(q.items, Val))>>

----------------------------------------------------------------------------
(* The pipeline.                                                           *)

\* execute_unwind_stage: what is no list yields nothing.
execute_unwind_stage(list, x, rows) ==
  LET Of(b) == LET v == eval_expr_on_binding(list, b)
               IN  IF ~Is(v, "list") THEN <<>>
                   ELSE MapSeq(v.list, LAMBDA item : [b EXCEPT !.vals = Bind(b.vals, x, item)])
  IN  FlattenSeq(MapSeq(rows, Of))

\* execute_match_stage: on the seed binding, or one like it; no path is bound.
MatchStage(st, matches, rows) ==
  IF Len(rows) # 1 \/ DOMAIN rows[1].vals # {} \/ Failed \in ToSet(matches) THEN <<Failed>>
  ELSE MapSeq(Filter(matches, LAMBDA pm : IsTrue(ValueIn(st.where, pm))),
              LAMBDA pm : [nodes |-> pm.nodes, edges |-> pm.edges, vals |-> NoFun])
execute_match_stage(st, rows) == MatchStage(st, compile_match(st.patterns), rows)

\* One item put into the next binding: a node or an edge stays one.
PutValue(b, c, v) ==
  CASE Is(v, "node") -> [b EXCEPT !.nodes = Bind(b.nodes, c, v.node)]
    [] Is(v, "rel") -> [b EXCEPT !.edges = Bind(b.edges, c, v.rel)]
    [] OTHER -> [b EXCEPT !.vals = Bind(b.vals, c, v)]

\* The next binding, from the values of the items.  A variable stays the node, edge or
\* value it names in `b`, the pattern before the values; any other item that yields a
\* node or an edge is one again when `rebinds` (rebind_entity_value).  Without grouping a
\* variable is taken out of the pattern, so that its second item is such an item.
PutItem(acc, it, b, v, rebinds, taken) ==
  LET Names(f) == it.x.e = "var" /\ it.x.name \in DOMAIN f
      c == Column(it)
  IN  CASE Names(b.nodes) /\ ~taken -> [acc EXCEPT !.nodes = Bind(acc.nodes, c, b.nodes[it.x.name])]
        [] Names(b.edges) /\ ~taken -> [acc EXCEPT !.edges = Bind(acc.edges, c, b.edges[it.x.name])]
        [] OTHER -> IF rebinds /\ ~Names(b.vals) THEN PutValue(acc, c, v)
                    ELSE [acc EXCEPT !.vals = Bind(acc.vals, c, IF Names(b.vals) THEN b.vals[it.x.name] ELSE v)]
PutItems(items, b, values, rebinds) ==
  FoldLeft(LAMBDA acc, k : PutItem(acc, items[k], b, values[k], rebinds,
                                   rebinds /\ \E j \in 1 .. (k - 1) : items[j].x = items[k].x),
           EmptyBinding, [k \in 1..Len(items) |-> k])

\* project_with_items_slice.
project_with_items_slice(items, rows) ==
  MapSeq(rows, LAMBDA b : PutItems(items, b, ValuesOf(items, LAMBDA x : eval_expr_on_binding(x, b)), TRUE))

\* execute_with_stage_grouped_items: the items without an aggregate are the key and
\* take their value from the first member.
StageKeys(keys, rows) ==
  MapSeq(rows, LAMBDA b : gql_value_slice_to_key(ValuesOf(keys, LAMBDA x : eval_expr_on_binding(x, b))))
MemberValue(x, members) ==
  IF expr_has_aggregate(x) THEN eval_aggregate_over_bindings(x, members) ELSE eval_expr_on_binding(x, members[1])
GroupedBindings(items, groups) ==
  MapSeq(groups, LAMBDA ms : PutItems(items, ms[1], ValuesOf(items, LAMBDA x : MemberValue(x, ms)), FALSE))
GroupsBy(rows, key) ==
  LET all == [i \in 1..Len(rows) |-> i]
      heads == SelectSeq(all, LAMBDA i : \A j \in 1 .. (i - 1) : key[j] # key[i])
      Members(i) == SelectSeq(all, LAMBDA j : key[j] = key[i])
  IN  MapSeq(heads, LAMBDA i : MapSeq(Members(i), LAMBDA j : rows[j]))
execute_with_stage_grouped_items(items, rows) ==
  GroupedBindings(items,
    GroupsBy(rows, StageKeys(SelectSeq(items, LAMBDA it : ~expr_has_aggregate(it.x)), rows)))

\* execute_with_stage_parts: project or aggregate, make distinct, filter, sort, skip
\* and cut, in this order.
ProjectOrAggregate(items, rows) ==
  LET aggs == {k \in 1..Len(items) : expr_has_aggregate(items[k].x)}
  IN  IF aggs = {} THEN project_with_items_slice(items, rows)
      ELSE IF aggs = 1..Len(items)
      THEN <<PutItems(items, EmptyBinding, ValuesOf(items, LAMBDA x : eval_aggregate_over_bindings(x, rows)), FALSE)>>
      ELSE execute_with_stage_grouped_items(items, rows)
KeptBindings(w, rows) ==
  Filter(IF w.distinct THEN distinct_bindings(rows) ELSE rows,
         LAMBDA b : IsTrue(eval_expr_on_binding(w.where, b)))
order_bindings_by(order, rows) == SortRows(rows, KeysOf(rows, order, eval_expr_on_binding), order)
execute_with_stage_parts(w, rows) ==
  Take(Skip(order_bindings_by(w.order, KeptBindings(w, ProjectOrAggregate(w.items, rows))), w.skip), w.limit)

RunStage(st, rows) ==
  IF rows = <<Failed>> THEN rows
  ELSE CASE st.kind = "match" -> execute_match_stage(st, rows)
         [] st.kind = "unwind" -> execute_unwind_stage(st.list, st.var, rows)
         [] st.kind = "with" -> execute_with_stage_parts(st, rows)

\* execute_pipeline_return: the terminal is a WITH whose columns are read back.
execute_pipeline_return(w, rows) ==
  LET Read(c, b) == IF c \in DOMAIN b.vals THEN b.vals[c] ELSE MatchVar(c, b, NoFun)
  IN  MapSeq(execute_with_stage_parts(w, rows), LAMBDA b :
        [c \in ToSet(Columns(w.items)) |-> Read(c, b)])

\* Mutant: WITH adds its columns to the scope instead of replacing it.
ScopeAfterKeeps(st, bound) ==
  CASE st.kind = "match" -> collect_bound_vars(st)
    [] st.kind = "unwind" -> bound \cup {st.var}
    [] st.kind = "with" -> bound \cup ToSet(Columns(st.items))

\* validate_pipeline_scope: MATCH starts a scope of its own, UNWIND adds to it, WITH
\* replaces it; ORDER BY of the terminal may use what was bound before it too.
ScopeAfter(st, bound) ==
  CASE st.kind = "match" -> collect_bound_vars(st)
    [] st.kind = "unwind" -> bound \cup {st.var}
    [] st.kind = "with" -> ToSet(Columns(st.items))

StageInScope(st, bound) ==
  LET Uses(xs) == UNION {collect_expr_vars(x) : x \in xs}
  IN  CASE st.kind = "match" -> Uses({st.where}) \subseteq collect_bound_vars(st)
        [] st.kind = "unwind" -> Uses({st.list}) \subseteq bound
        [] st.kind = "with" -> /\ Uses(ExprsOf(st.items)) \subseteq bound
                               /\ Uses({st.where} \cup ExprsOf(st.order)) \subseteq ScopeAfter(st, bound)
BoundBefore(stages, k) == FoldLeft(LAMBDA acc, st : ScopeAfter(st, acc), {}, SubSeq(stages, 1, k - 1))
TerminalInScope(t, bound) ==
  LET Uses(xs) == UNION {collect_expr_vars(x) : x \in xs}
  IN  CASE "op" \notin DOMAIN t ->
             /\ Uses(ExprsOf(t.items)) \subseteq bound
             /\ Uses(ExprsOf(t.order)) \subseteq bound \cup ToSet(Columns(t.items))
        [] "op" \in DOMAIN t /\ t.op = "set" ->
             Uses(ExprsOf(t.assignments)) \cup {a.var : a \in ToSet(t.assignments)} \subseteq bound
        [] OTHER -> ToSet(t.vars) \subseteq bound
validate_pipeline_scope(p) ==
  /\ \A k \in 1..Len(p.stages) : StageInScope(p.stages[k], BoundBefore(p.stages, k))
  /\ TerminalInScope(p.return, BoundBefore(p.stages, Len(p.stages) + 1))

\* The bindings after the first k stages.
BindingsAfter(p, k) == FoldLeft(LAMBDA rows, st : RunStage(st, rows), <<EmptyBinding>>, SubSeq(p.stages, 1, k))

\* execute_pipeline_with_deadline.
PipelineAnswer(p, rows) ==
  IF ~validate_pipeline_scope(p) \/ rows = <<Failed>> THEN <<Refused>>
  ELSE execute_pipeline_return(p.return, rows)
execute_pipeline(p) == PipelineAnswer(p, BindingsAfter(p, Len(p.stages)))

----------------------------------------------------------------------------
(* Running a query: a MATCH at once, a pipeline stage by stage.            *)

InitQuery ==
  /\ g \in Graphs /\ query \in Queries /\ hash \in Hashes
  /\ stage = 0 /\ table = <<EmptyBinding>> /\ result = <<>> /\ phase = "new"

Answer(r) == result' = r /\ phase' = "answered"

RunMatch ==
  /\ phase = "new" /\ query.kind = "match"
  /\ Answer(execute(query, query.cap))
  /\ UNCHANGED <<g, query, hash, stage, table>>

RunUnwind ==
  /\ phase = "new" /\ query.kind = "unwind"
  /\ Answer(execute_with_unwind(query, query.list, query.uvar))
  /\ UNCHANGED <<g, query, hash, stage, table>>

RunConst ==
  /\ phase = "new" /\ query.kind = "const"
  /\ Answer(execute_const_return(query))
  /\ UNCHANGED <<g, query, hash, stage, table>>

\* The scope is validated before the first stage.
StartPipeline ==
  /\ phase = "new" /\ query.kind = "pipeline"
  /\ IF validate_pipeline_scope(query) THEN phase' = "running" /\ UNCHANGED result
     ELSE Answer(<<Refused>>)
  /\ UNCHANGED <<g, query, hash, stage, table>>

PipelineStage ==
  /\ phase = "running" /\ stage < Len(query.stages)
  /\ table' = RunStage(query.stages[stage + 1], table) /\ stage' = stage + 1
  /\ IF table' = <<Failed>> THEN Answer(<<Refused>>) ELSE UNCHANGED <<result, phase>>
  /\ UNCHANGED <<g, query, hash>>

PipelineReturn ==
  /\ phase = "running" /\ stage = Len(query.stages)
  /\ Answer(execute_pipeline_return(query.return, table))
  /\ UNCHANGED <<g, query, hash, stage, table>>

NextQuery == RunMatch \/ RunUnwind \/ RunConst \/ StartPipeline \/ PipelineStage \/ PipelineReturn
SpecQuery == InitQuery /\ [][NextQuery]_queryVars

Answered(kind) == phase = "answered" /\ query.kind = kind /\ result # <<Refused>>

----------------------------------------------------------------------------
(* What the answers should be.                                             *)

\* The matches an expression is true of.
KeptBy(x, ms) == {i \in 1..Len(ms) : IsTrue(eval_expr(x, ms[i], NoFun))}
Complementary(op, kept, dropped, keptBy, droppedBy) ==
  /\ kept \cap dropped = {}
  /\ IF op = "or"
     THEN kept = keptBy[1] \cup keptBy[2] /\ dropped = droppedBy[1] \cap droppedBy[2]
     ELSE kept = keptBy[1] \cap keptBy[2] /\ dropped = droppedBy[1] \cup droppedBy[2]
WhereSplits(w, ms) ==
  LET Kept(xs) == MapSeq(xs, LAMBDA x : KeptBy(x, ms))
      all == Kept(<<w, Un("not", w), w.l, w.r, Un("not", w.l), Un("not", w.r)>>)
  IN  Complementary(w.op, all[1], all[2], <<all[3], all[4]>>, <<all[5], all[6]>>)

\* AND, OR and NOT of WHERE are the set operations on the rows: what a disjunction
\* keeps is the union, what its negation keeps the intersection of what the
\* negations keep, and a row is never kept by both, although a comparison with NULL
\* is neither true nor false (eval_binary_op, eval_unary_op).
WhereIsSetAlgebra(matches) ==
  (query.kind = "match" /\ query.where.e = "bin" /\ query.where.op \in {"and", "or"}) =>
    WhereSplits(query.where, matches)

\* What a pattern asks of a node or an edge that is there.
Fits(entity, pat) ==
  /\ entity.id # 0
  /\ pat.label \in {<<>>, entity.label}
  /\ \A k \in 1..Len(pat.props) :
       LET p == pat.props[k] IN p.key \in DOMAIN entity.props /\ entity.props[p.key] = p.v

Directed(pp) == \A k \in 1..Len(pp.hops) : pp.hops[k].edge.dir # "both" /\ pp.hops[k].edge.var # <<>>
PlainPattern(pp) == Directed(pp) /\ ~has_variable_length_hop(pp) /\ IsInjective(PatternVars(pp))

\* A path of fixed, directed hops matches exactly once for every way of choosing its
\* nodes and edges in the graph (PatternBuilder, expand_fixed_hop): the candidates
\* the indexes leave lose none, no row is repeated, and a version that was replaced or
\* deleted matches nothing although the indexes list it until the vacuum.
MatchesAreAssignments ==
  (query.kind = "match" /\ PlainPattern(query.patterns[1])) =>
    LET pp == query.patterns[1]
        n == Len(pp.hops)
        NodePat(k) == IF k = 0 THEN pp.start ELSE pp.hops[k].node
        EndsOf(i, k) == IF pp.hops[k].edge.dir = "out" THEN <<g.edges[i].src, g.edges[i].dst>>
                        ELSE <<g.edges[i].dst, g.edges[i].src>>
        Ways == {w \in [0..n -> 1..Len(g.nodes)] \X [1..n -> 1..Len(g.edges)] :
                   /\ \A k \in 0..n : Fits(g.nodes[w[1][k]], NodePat(k))
                   /\ \A k \in 1..n : /\ Fits(g.edges[w[2][k]], pp.hops[k].edge)
                                      /\ EndsOf(w[2][k], k) = <<w[1][k - 1], w[1][k]>>}
        ms == compile_path_pattern(pp)
        WayOf(pm) == <<[k \in 0..n |-> pm.nodes[NodeVar(NodePat(k), k)].id],
                       [k \in 1..n |-> pm.edges[pp.hops[k].edge.var].id]>>
    IN  IsInjective(ms) /\ {WayOf(ms[i]) : i \in 1..Len(ms)} = Ways

\* The rows of two results are the same, whatever their order.
SameBag(r, s) ==
  /\ Len(r) = Len(s)
  /\ \A row \in ToSet(r) : Len(SelectSeq(r, LAMBDA x : x = row)) = Len(SelectSeq(s, LAMBDA x : x = row))

\* The first key that tells two rows apart puts them in the asked direction; NULL
\* is last ascending and first descending.
InOrder(a, b, order) ==
  LET differ == {k \in 1..Len(order) : a[k] # b[k]}
      first == Min(differ)
      Ascends(lo, hi) == hi = Null \/ (lo # Null /\ gql_value_cmp(lo, hi) = -1)
  IN  differ = {} \/ (IF order[first].asc THEN Ascends(a[first], b[first]) ELSE Ascends(b[first], a[first]))

\* The values of a column can be compared with each other: kinds are not mixed.
Uniform(vals) ==
  \A i, j \in 1..Len(vals) :
    vals[i] # Null /\ vals[j] # Null => gql_value_cmp(vals[i], vals[j]) # Incomparable

\* The rows in order, if the keys of each column can be compared, and rearranged in any
\* case: `all` without the clauses, `whole` sorted and not cut.  Where NULL has no place
\* in the order (`known`) the keys must not be NULL.
Comparable(keys, order, known) ==
  \A k \in 1..Len(order) :
    LET column == MapSeq(keys, LAMBDA row : row[k])
    IN  Uniform(column) /\ (known => Null \notin ToSet(column))
SortsTo(q, skip, keys, runs, known) ==
  /\ Comparable(keys, q.order, known) =>
       \A i \in 1 .. (Len(keys) - 1) : InOrder(keys[i], keys[i + 1], q.order)
  /\ SameBag(runs[2], runs[1])
  /\ result = Take(Skip(runs[2], skip), q.limit)
ColumnKeys(q, rows) == KeysOf(rows, q.order, LAMBDA x, row : ColumnKey(q.items, x, row))
RunsSorted(q, skip, runs, known) == SortsTo(q, skip, ColumnKeys(q, runs[2]), runs, known)
Uncut == [query EXCEPT !.limit = Absent]
UncutReturn == [query.return EXCEPT !.skip = Absent, !.limit = Absent]

\* The answers of the query as it stands but unsorted, sorted, and with repetitions:
\* the first two not cut.
Reruns ==
  IF query.kind # "pipeline"
  THEN MapSeq(<<[Uncut EXCEPT !.order = <<>>], Uncut, [query EXCEPT !.distinct = FALSE]>>,
              LAMBDA q : IF q.kind = "match" THEN execute(q, 0) ELSE execute_with_unwind(q, q.list, q.uvar))
  ELSE MapSeq(<<[UncutReturn EXCEPT !.order = <<>>], UncutReturn, [query.return EXCEPT !.distinct = FALSE]>>,
              LAMBDA w : execute_pipeline_return(w, table))

\* The answers whose order is that of their columns: `known` says that NULL is left out.
OrderedUnless(reruns, known) ==
  LET q == IF query.kind = "pipeline" THEN query.return ELSE query
      skip == IF query.kind = "pipeline" THEN query.return.skip ELSE Absent
      ByColumns == IF query.kind = "pipeline" THEN \A x \in ExprsOf(q.order) : x.e = "var"
                   ELSE ExprsOf(q.order) \subseteq ExprsOf(q.items)
  IN  (query.kind # "const" /\ Answered(query.kind) /\ q.order # <<>> /\ ByColumns) =>
        RunsSorted(q, skip, reruns, known)

\* GROUP BY and UNWIND sort the returned rows, without a place for NULL.
SortsReturnedRows == query.kind = "unwind" \/ (query.kind = "match" /\ query.group # <<>>)

\* ORDER BY on returned columns of one kind, in a pipeline by their names: the rows
\* come in order, NULL last unless GROUP BY or UNWIND sort them, SKIP and LIMIT cut both
\* ends and none is lost or repeated by the rearrangement in place (apply_order_by,
\* apply_permutation, order_bindings_by, and the sorts of execute_grouped and
\* execute_with_unwind).
OrderIsSorted(reruns) == OrderedUnless(reruns, SortsReturnedRows)

\* NULL is last in every ORDER BY, as compare_sort_keys has it; it is not under GROUP BY
\* and UNWIND, where it even separates rows that are out of order.
NullsAreLast == OrderedUnless(Reruns, FALSE)

\* DISTINCT returns every row that the query without it returns, once.
IsExact(with, without) == IsInjective(with) /\ ToSet(with) = ToSet(without)
DistinctAlways(reruns) ==
  (\/ Answered("match") /\ query.distinct /\ query.limit = Absent
   \/ Answered("pipeline") /\ query.return.distinct /\ query.return.limit = Absent)
  => IsExact(result, reruns[3])

\* DISTINCT returns every row once when the columns hold no node, relationship or
\* map of several properties; in a pipeline, whatever they hold, for its key is
\* built from ids and escaped text (distinct_bindings, gql_value_slice_to_key).
DistinctIsExact(reruns) ==
  (query.kind = "match" => \A i \in 1..Len(result) : \A c \in DOMAIN result[i] : ~HoldsMap(result[i][c]))
    => DistinctAlways(reruns)

\* The same query as a pipeline: MATCH, then a RETURN whose groups are the items
\* that are no aggregates.
AsPipeline(q) ==
  [kind |-> "pipeline",
   stages |-> <<[kind |-> "match", path |-> q.path, patterns |-> q.patterns, where |-> q.where]>>,
   return |-> [items |-> q.items, distinct |-> q.distinct, where |-> Lit(BoolV(TRUE)),
               order |-> q.order, skip |-> Absent, limit |-> q.limit]]
ReturnsKeys(q) == \A x \in ToSet(q.group) : x \in ExprsOf(q.items)

\* The aggregates compare values of one kind and add known ones only.
ArgumentAlike(func, args) ==
  (func \in {"min", "max"} => Uniform(args)) /\ (func = "sum" => Null \notin ToSet(args))
AggregatesAlike(q, ms) ==
  /\ ms # <<>>
  /\ \A x \in {y \in ExprsOf(q.items) : y.e = "agg"} :
       ArgumentAlike(x.func, MapSeq(ms, LAMBDA pm : ValueIn(x.arg, pm)))

\* A MATCH ... RETURN that is not pushed down answers like the same query run as a
\* pipeline, which groups, aggregates and makes distinct by other code: on queries
\* without a path variable or ORDER BY that group by what they return, and that
\* aggregate some rows, values of one kind and known summands (execute_grouped,
\* apply_aggregation, execute_with_stage_parts).
PipelineAgrees(general) ==
  (/\ Answered("match") /\ query.path = <<>> /\ ReturnsKeys(query) /\ query.order = <<>>
   /\ \A i \in 1..Len(result) : \A c \in DOMAIN result[i] : ~HoldsMap(result[i][c])
   /\ AggregatesAlike(query, compile_match(query.patterns)))
  => general[1] = execute_pipeline(AsPipeline(query))

Counts(q) == \A x \in ExprsOf(q.items) : x.e = "agg" /\ x.func = "count"
LabelsOnly(pp) ==
  /\ pp.start.label # <<>>
  /\ \A k \in 1..Len(pp.hops) : pp.hops[k].node.props = <<>> /\ pp.hops[k].edge.props = <<>>

\* Pushing an aggregate into the scan never changes the answer.
PushdownAgrees(general) ==
  (/\ phase = "answered" /\ query.kind = "match" /\ validate_scope(query)
   /\ validate_aggregation(query) = "aggregate" /\ query.group = <<>>) =>
    result = general[1]

Relabelled == \E o \in g.old : Visible(o.id) /\ g.nodes[o.id].label # o.label
Reading(q) == \A x \in ExprsOf(q.items) : x.e = "agg" /\ x.arg.e = "prop"

\* It does not where the scan can see the whole pattern (a label on the start node,
\* no properties beyond it) and every item counts or reads a property, once the vacuum
\* has removed the entries of old versions (try_aggregate_pushdown,
\* pushdown_with_node_load).  Before, it does not for a count without properties, and
\* for a property of nodes none of which was deleted, if no node changed its label.
PushdownAgreesOnLabels(general) ==
  (/\ query.kind = "match" /\ LabelsOnly(query.patterns[1])
   /\ Counts(query) \/ (Reading(query) /\ \A o \in g.old : Visible(o.id))
   /\ g.old # {} => query.patterns[1].start.props = <<>> /\ ~Relabelled)
  => PushdownAgrees(general)

\* It does not on labels before the vacuum either: refuted, the scan counts an old
\* version that has the property or the label, and fails on a node that was deleted.
PushdownAgreesBeforeVacuum ==
  (query.kind = "match" /\ LabelsOnly(query.patterns[1]) /\ (Counts(query) \/ Reading(query))) =>
    PushdownAgrees(<<ExecuteGeneral(query, query.cap)>>)

BoundIn(b) == DOMAIN b.nodes \cup DOMAIN b.edges \cup DOMAIN b.vals

\* A pipeline that is accepted never reads a variable that a row does not bind:
\* whatever the stages before have dropped or renamed, every variable that the next
\* stage reads from its input is bound in every row (validate_pipeline_scope against
\* execute_with_stage_parts and execute_unwind_stage).
ScopeSound ==
  (phase = "running") =>
    LET Reads == IF stage = Len(query.stages) THEN ExprsOf(query.return.items)
                 ELSE LET st == query.stages[stage + 1]
                      IN  CASE st.kind = "match" -> {}
                            [] st.kind = "unwind" -> {st.list}
                            [] st.kind = "with" -> ExprsOf(st.items)
    IN  \A i \in 1..Len(table) : \A x \in Reads : collect_expr_vars(x) \subseteq BoundIn(table[i])

\* x with a value in place of the unwound variable.
RECURSIVE Substituted(_, _, _)
Substituted(x, u, v) ==
  CASE x.e = "var" /\ x.name = u -> Lit(v)
    [] x.e = "prop" /\ x.of = u -> Lit(Null)
    [] x.e = "bin" -> [x EXCEPT !.l = Substituted(x.l, u, v), !.r = Substituted(x.r, u, v)]
    [] x.e \in {"un", "isnull"} -> [x EXCEPT !.x = Substituted(x.x, u, v)]
    [] OTHER -> x

UnwoundList == eval_expr(query.list, EmptyMatch, NoFun)
WithElement(v) ==
  [query EXCEPT
     !.where = Substituted(query.where, query.uvar, v),
     !.items = MapSeq(query.items, LAMBDA it :
                 [x |-> Substituted(it.x, query.uvar, v), as |-> Column(it)])]

\* The general path through the executor, which collects its matches first: of the
\* query itself, or of the query for each element that UNWIND gives.
General ==
  MapSeq(IF query.kind = "unwind" THEN MapSeq(Elements(UnwoundList), WithElement) ELSE <<query>>,
         LAMBDA q : ExecuteGeneral(q, q.cap))

\* UNWIND before a MATCH answers like the queries obtained by writing each element
\* in place of the variable, one after the other (execute_with_unwind,
\* eval_expr_with_unwind_var).
UnwindIsSubstitution(general) ==
  (/\ Answered("unwind") /\ validate_aggregation(query) = "rows"
   /\ query.order = <<>> /\ ~query.distinct /\ query.limit = Absent
   /\ Is(UnwoundList, "list")) => result = FlattenSeq(general)

PathFits(pp, pm, path) ==
  LET ep == pp.hops[1].edge
  IN  /\ path # <<>>
      /\ path[1].nodes[1].id = pm.nodes[NodeVar(pp.start, 0)].id
      /\ Last(path[1].nodes).id = pm.nodes[NodeVar(pp.hops[1].node, 1)].id
      /\ \A k \in 1..Len(path[1].rels) : edge_matches_pattern(path[1].rels[k], ep)
      /\ IsVariable(pp.hops[1]) =>
           Len(path[1].rels) >= ep.min /\ (ep.max = -1 \/ Len(path[1].rels) <= ep.max)
PathsFit(pp, ms) == \A i \in 1..Len(ms) : PathFits(pp, ms[i], materialise_path_for_match(pp, ms[i]))

\* The path bound by MATCH p = (a)-[...]->(b) leads from a to b over edges the hop
\* allows and has a length within its bounds, although it is found by a second
\* search that does not know the bounds (materialise_varlen_path).
PathFitsHop(matches) ==
  (query.kind = "match" /\ query.path # <<>> /\ Len(query.patterns[1].hops) = 1) =>
    PathsFit(query.patterns[1], matches)

\* The rows of a query are those its clauses define: WHERE by set algebra,
\* MATCH by assignments, paths that fit their hop, ORDER BY in order, DISTINCT
\* without repetition.
RowsAreExact ==
  /\ MatchesAreAssignments
  /\ query.kind = "match" =>
       \A matches \in {compile_match(query.patterns)} : WhereIsSetAlgebra(matches) /\ PathFitsHop(matches)
  /\ (query.kind # "const" /\ Answered(query.kind)) =>
       \A reruns \in {Reruns} : OrderIsSorted(reruns) /\ DistinctIsExact(reruns)

\* The executors mean the same: the pipeline and the single query, the scan
\* that aggregates, UNWIND and substitution; and a pipeline that was accepted
\* finds every variable it reads.
ExecutorsAgree ==
  /\ ScopeSound
  /\ (query.kind \in {"match", "unwind"} /\ phase = "answered") =>
       \A general \in {General} :
         PipelineAgrees(general) /\ PushdownAgreesOnLabels(general) /\ UnwindIsSubstitution(general)

=============================================================================
