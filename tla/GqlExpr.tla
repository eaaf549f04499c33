------------------------------ MODULE GqlExpr ------------------------------
(***************************************************************************)
(* The values of the query language, the operations on them, and the       *)
(* expressions over them.                                                  *)
(*                                                                         *)
(* A value is a record whose only field names its kind.  Integers have the *)
(* width IntBits and wrap; a float is an exact fraction <<n, d>> in lowest  *)
(* terms (rounding, infinities, NaN and -0.0 are left out); a string is a  *)
(* sequence of characters, small numbers of which odd ones are the upper   *)
(* case of the even number below; nodes, relationships and maps carry      *)
(* their properties as functions.                                          *)
(***************************************************************************)
EXTENDS Integers, SequencesExt, FiniteSetsExt, TLC

CONSTANTS IntBits,          \* width of an integer
          RangeMax          \* RANGE_MAX_ELEMENTS

ASSUME ValueBounds == IntBits \in Nat \ {0} /\ RangeMax \in Nat

Null == [null |-> TRUE]
BoolV(b) == [bool |-> b]
IntV(i) == [int |-> i]
StrV(s) == [str |-> s]
ListV(s) == [list |-> s]
MapV(f) == [map |-> f]
NodeV(n) == [node |-> n]      \* [id, label, props]
RelV(e) == [rel |-> e]        \* [id, label, props, src, dst]
PathV(p) == [path |-> p]      \* [nodes, rels]
Panic == [panic |-> TRUE]     \* the evaluation does not return

NoMin == -2                   \* a variable-length hop without a lower bound

Kind(v) == CHOOSE k \in DOMAIN v : TRUE
Is(v, k) == k \in DOMAIN v

IntMin == -(2 ^ (IntBits - 1))
IntMax == 2 ^ (IntBits - 1) - 1
Wrap(n) == ((n - IntMin) % 2 ^ IntBits) + IntMin
Saturate(n) == IF n > IntMax THEN IntMax ELSE IF n < IntMin THEN IntMin ELSE n

Abs(n) == IF n < 0 THEN -n ELSE n
Divides(d, n) == n % d = 0
\* The float n / d, in lowest terms.
Float(n, d) ==
  LET s == IF d < 0 THEN -1 ELSE 1
      g == Max({k \in 1..Abs(d) : Divides(k, Abs(n)) /\ Divides(k, Abs(d))})
  IN  [float |-> <<(s * n) \div g, Abs(d) \div g>>]

IsNumber(v) == Is(v, "int") \/ Is(v, "float")
\* `as f64`: the fraction a number stands for.
AsF64(v) == IF Is(v, "int") THEN <<v.int, 1>> ELSE v.float

----------------------------------------------------------------------------
(* Comparison and logic.                                                   *)

\* gql_value_eq: NULL equals nothing; an integer and a float compare as floats.
gql_value_eq(a, b) ==
  IF a = Null \/ b = Null THEN FALSE
  ELSE IF IsNumber(a) /\ IsNumber(b) THEN AsF64(a) = AsF64(b)
  ELSE a = b

Incomparable == 2
Sign(n) == IF n < 0 THEN -1 ELSE IF n > 0 THEN 1 ELSE 0

\* The order of two strings: by the first character that differs, then by length.
StrCmp(s, t) ==
  LET diff == {k \in 1..Min({Len(s), Len(t)}) : s[k] # t[k]}
  IN  IF diff = {} THEN Sign(Len(s) - Len(t)) ELSE Sign(s[Min(diff)] - t[Min(diff)])

\* gql_value_cmp: -1, 0, 1, or Incomparable for values of different kinds.
gql_value_cmp(a, b) ==
  CASE IsNumber(a) /\ IsNumber(b) ->
         LET p == AsF64(a)  q == AsF64(b) IN Sign(p[1] * q[2] - q[1] * p[2])
    [] Is(a, "str") /\ Is(b, "str") -> StrCmp(a.str, b.str)
    [] Is(a, "bool") /\ Is(b, "bool") ->
         IF a.bool = b.bool THEN 0 ELSE IF b.bool THEN -1 ELSE 1
    [] OTHER -> Incomparable

\* eval_as_tribool: only a Boolean is true or false.
Truth(v) == IF Is(v, "bool") THEN v ELSE Null

\* The AND and OR arms of eval_binary_op.
And3(lv, rv) ==
  LET l == Truth(lv)  r == Truth(rv)
  IN  CASE l = BoolV(FALSE) \/ r = BoolV(FALSE) -> BoolV(FALSE)
        [] l = BoolV(TRUE) /\ r = BoolV(TRUE) -> BoolV(TRUE)
        [] OTHER -> Null

Or3(lv, rv) ==
  LET l == Truth(lv)  r == Truth(rv)
  IN  CASE l = BoolV(TRUE) \/ r = BoolV(TRUE) -> BoolV(TRUE)
        [] l = BoolV(FALSE) /\ r = BoolV(FALSE) -> BoolV(FALSE)
        [] OTHER -> Null

eval_comparison(lv, op, rv) ==
  LET ord == gql_value_cmp(lv, rv)
  IN  IF ord = Incomparable THEN Null
      ELSE BoolV(CASE op = "<" -> ord < 0 [] op = ">" -> ord > 0
                  [] op = "<=" -> ord <= 0 [] op = ">=" -> ord >= 0)

----------------------------------------------------------------------------
(* Arithmetic.                                                             *)

\* i64 division, which truncates toward zero.
Quotient(a, b) == Sign(a) * Sign(b) * (Abs(a) \div Abs(b))

\* eval_float_arithmetic on exact fractions.
FloatArith(p, op, q) ==
  CASE op = "+" -> Float(p[1] * q[2] + q[1] * p[2], p[2] * q[2])
    [] op = "-" -> Float(p[1] * q[2] - q[1] * p[2], p[2] * q[2])
    [] op = "*" -> Float(p[1] * q[1], p[2] * q[2])
    [] op = "/" -> IF q[1] = 0 THEN Null ELSE Float(p[1] * q[2], p[2] * q[1])

\* eval_arithmetic: integers wrap, but the one quotient that does not fit panics.
eval_arithmetic(lv, op, rv) ==
  CASE Is(lv, "int") /\ Is(rv, "int") ->
         (CASE op = "+" -> IntV(Wrap(lv.int + rv.int))
            [] op = "-" -> IntV(Wrap(lv.int - rv.int))
            [] op = "*" -> IntV(Wrap(lv.int * rv.int))
            [] op = "/" -> IF rv.int = 0 THEN Null
                           ELSE IF lv.int = IntMin /\ rv.int = -1 THEN Panic
                           ELSE IntV(Quotient(lv.int, rv.int)))
    [] IsNumber(lv) /\ IsNumber(rv) /\ (Is(lv, "float") \/ Is(rv, "float")) ->
         FloatArith(AsF64(lv), op, AsF64(rv))
    [] OTHER -> Null

\* eval_unary_op: the negation that does not fit is NULL.
eval_unary_op(op, v) ==
  CASE op = "not" -> IF Is(v, "bool") THEN BoolV(~v.bool) ELSE Null
    [] op = "neg" -> IF Is(v, "int") THEN (IF v.int = IntMin THEN Null ELSE IntV(-v.int))
                     ELSE IF Is(v, "float") THEN Float(-v.float[1], v.float[2]) ELSE Null

OnStrings(lv, rv, holds) == IF Is(lv, "str") /\ Is(rv, "str") THEN BoolV(holds) ELSE Null
HasInfix(s, t) == \E k \in 0 .. (Len(s) - Len(t)) : SubSeq(s, k + 1, k + Len(t)) = t

\* eval_binary_op.
eval_binary_op(lv, op, rv) ==
  CASE op = "and" -> And3(lv, rv)
    [] op = "or" -> Or3(lv, rv)
    [] op = "=" -> BoolV(gql_value_eq(lv, rv))
    [] op = "<>" -> BoolV(~gql_value_eq(lv, rv))
    [] op \in {"<", ">", "<=", ">="} -> eval_comparison(lv, op, rv)
    [] op \in {"+", "-", "*", "/"} -> eval_arithmetic(lv, op, rv)
    [] op = "starts" -> OnStrings(lv, rv, IsPrefix(rv.str, lv.str))
    [] op = "ends" -> OnStrings(lv, rv, IsSuffix(rv.str, lv.str))
    [] op = "contains" -> OnStrings(lv, rv, HasInfix(lv.str, rv.str))
    [] op = "in" -> IF Is(rv, "list")
                    THEN BoolV(\E k \in 1..Len(rv.list) : gql_value_eq(lv, rv.list[k])) ELSE Null

----------------------------------------------------------------------------
(* Lists and functions.                                                    *)

\* apply_list_quantifier: an item whose predicate is not TRUE has failed.
apply_list_quantifier(kind, verdicts) ==
  LET matched == Cardinality({k \in 1..Len(verdicts) : verdicts[k] = BoolV(TRUE)})
      failed == Len(verdicts) - matched
  IN  BoolV(CASE kind = "all" -> failed = 0 [] kind = "any" -> matched > 0
             [] kind = "none" -> matched = 0 [] kind = "single" -> matched = 1)

\* eval_subscript: an index outside the list is NULL.
eval_subscript(list, index) ==
  IF Is(list, "list") /\ Is(index, "int") /\ index.int \in 0 .. Len(list.list) - 1
  THEN list.list[index.int + 1] ELSE Null

\* compute_range: both ends included; too long a list is NULL.
compute_range(start, end) ==
  CASE ~(Is(start, "int") /\ Is(end, "int")) -> Null
    [] Is(start, "int") /\ Is(end, "int") /\ start.int > end.int -> ListV(<<>>)
    [] OTHER -> LET len == Saturate(Saturate(end.int - start.int) + 1)
                IN  IF len > RangeMax THEN Null
                    ELSE ListV([k \in 1 .. (end.int - start.int + 1) |-> IntV(start.int + k - 1)])

compute_coalesce(args) ==
  LET known == SelectSeq(args, LAMBDA v : v # Null) IN IF known = <<>> THEN Null ELSE known[1]

OnChars(v, F(_)) == IF Is(v, "str") THEN StrV([k \in 1..Len(v.str) |-> F(v.str[k])]) ELSE Null
compute_to_lower(v) == OnChars(v, LAMBDA c : c - (c % 2))
compute_to_upper(v) == OnChars(v, LAMBDA c : c + 1 - (c % 2))
compute_size(v) ==
  IF Is(v, "list") THEN IntV(Len(v.list)) ELSE IF Is(v, "str") THEN IntV(Len(v.str)) ELSE Null

\* gql_value_to_property: what can be stored; anything else is no property.
IsStorable(v) == Is(v, "int") \/ Is(v, "float") \/ Is(v, "str") \/ Is(v, "bool")
\* literal_to_property: the literals a pattern can require; the others are ignored.
IsRequirable(v) == IsStorable(v)

----------------------------------------------------------------------------
(* Aggregates: once over a whole column, once as accumulators.             *)

NonNull(vals) == SelectSeq(vals, LAMBDA v : v # Null)
Ints(vals) == SelectSeq(vals, LAMBDA v : Is(v, "int"))
Numbers(vals) == SelectSeq(vals, LAMBDA v : IsNumber(v))
SumFloat(vals) ==
  FoldLeft(LAMBDA acc, v : FloatArith(acc.float, "+", AsF64(v)), Float(0, 1), Numbers(vals))
SumWrapped(vals) == FoldLeft(LAMBDA acc, v : Wrap(acc + v.int), 0, Ints(vals))
HasFloat(vals) == \E k \in 1..Len(vals) : Is(vals[k], "float")

aggregate_sum(vals) ==
  CASE NonNull(vals) = <<>> -> Null
    [] NonNull(vals) # <<>> /\ HasFloat(vals) -> SumFloat(vals)
    [] OTHER -> IntV(SumWrapped(vals))

aggregate_avg(vals) ==
  LET n == Len(Numbers(vals))
  IN  IF n = 0 THEN Null ELSE FloatArith(SumFloat(vals).float, "/", <<n, 1>>)

\* The first of the extreme values: an incomparable value never replaces it.
aggregate_min_max(vals, is_max) ==
  LET known == NonNull(vals)
      Better(acc, v) == IF gql_value_cmp(v, acc) = (IF is_max THEN 1 ELSE -1) THEN v ELSE acc
  IN  IF known = <<>> THEN Null ELSE FoldLeft(Better, known[1], Tail(known))

\* eval_aggregate_core; star says the call was COUNT(*).
eval_aggregate_core(func, vals, row_count, star) ==
  CASE func = "count" -> IntV(IF star THEN row_count ELSE Len(NonNull(vals)))
    [] func = "sum" -> aggregate_sum(vals)
    [] func = "avg" -> aggregate_avg(vals)
    [] func = "min" -> aggregate_min_max(vals, FALSE)
    [] func = "max" -> aggregate_min_max(vals, TRUE)
    [] func = "collect" -> ListV(NonNull(vals))

\* AggAccum::feed and finalize: the accumulators of the pushed-down aggregates.
\* The integer sum saturates; floats are summed apart from integers.
AggAccumResult(func, vals) ==
  LET fed == NonNull(vals)
      int_sum == FoldLeft(LAMBDA acc, v : Saturate(acc + v.int), 0, Ints(fed))
      float_sum == SumFloat(SelectSeq(fed, LAMBDA v : Is(v, "float")))
      Keep(sign) == LET R(acc, v) == IF acc = Null \/ gql_value_cmp(v, acc) = sign THEN v ELSE acc
                    IN  FoldLeft(R, Null, fed)
  IN  CASE func = "count" -> IntV(Len(fed))
        [] func = "sum" -> IF fed = <<>> THEN Null
                           ELSE IF HasFloat(fed) THEN FloatArith(float_sum.float, "+", <<int_sum, 1>>)
                           ELSE IntV(int_sum)
        [] func = "avg" -> aggregate_avg(fed)
        [] func = "min" -> Keep(-1)
        [] func = "max" -> Keep(1)
        [] func = "collect" -> ListV(fed)

\* compare_sort_keys: NULL last, incomparable values equal.
compare_sort_keys(a, b) ==
  CASE a = Null /\ b = Null -> 0
    [] a = Null /\ b # Null -> 1
    [] a # Null /\ b = Null -> -1
    [] OTHER -> LET c == gql_value_cmp(a, b) IN IF c = Incomparable THEN 0 ELSE c

\* The aggregates of the pipeline: integers wrap, an empty sum is 0, MIN takes the
\* first and MAX the last of equal values (min_by, max_by).
PipelineAggregate(func, vals) ==
  LET known == NonNull(vals)
      Pick(sign) == LET R(acc, v) == IF compare_sort_keys(v, acc) = sign
                                        \/ (sign = 1 /\ compare_sort_keys(v, acc) = 0)
                                     THEN v ELSE acc
                    IN  IF known = <<>> THEN Null ELSE FoldLeft(R, known[1], Tail(known))
      floats == SelectSeq(vals, LAMBDA v : Is(v, "float"))
  IN  CASE func = "count" -> IntV(Len(known))
        [] func = "sum" -> IF HasFloat(vals)
                           THEN FloatArith(SumFloat(floats).float, "+", <<SumWrapped(vals), 1>>)
                           ELSE IntV(SumWrapped(vals))
        [] func = "avg" -> aggregate_avg(vals)
        [] func = "min" -> Pick(-1)
        [] func = "max" -> Pick(1)
        [] func = "collect" -> ListV(known)

----------------------------------------------------------------------------
(* Keys of groups and of distinct rows.                                    *)

\* A character as a symbol of a key; the separators \x1d, \x1e, \x1f and the tags of
\* the kinds are characters that a string may contain too.
Symbol(c) == ToString(c)
GS == "29"
RS == "30"
US == "31"
Tag(v) ==
  CASE v = Null -> "78" [] Is(v, "bool") -> "66" [] Is(v, "int") -> "73" [] Is(v, "float") -> "70"
    [] Is(v, "str") -> "83" [] Is(v, "list") -> "91" [] Is(v, "map") -> "77"
    [] Is(v, "node") -> "86" [] Is(v, "rel") -> "82" [] Is(v, "path") -> "80"

\* The characters of a string, separators escaped.
Escape(s) ==
  FlattenSeq([k \in 1..Len(s) |-> IF Symbol(s[k]) \in {GS, RS, US} THEN <<GS, Symbol(s[k])>>
                                  ELSE <<Symbol(s[k])>>])

\* gql_value_slice_to_key: the digits of a number are one symbol here, and entities
\* are written by their ids.  Map keys are written in order, unescaped.
RECURSIVE gql_value_slice_to_key(_)
gql_value_slice_to_key(vals) ==
  LET Ids(seq) == FlattenSeq([k \in 1..Len(seq) |-> <<ToString(seq[k].id), ",">>])
      Entry(f, k) == <<k, "=">> \o gql_value_slice_to_key(<<f[k]>>)
      Body(v) ==
        CASE v = Null -> <<>>
          [] Is(v, "bool") -> <<ToString(v.bool)>>
          [] Is(v, "int") -> <<ToString(v.int)>>
          [] Is(v, "float") -> <<ToString(v.float)>>
          [] Is(v, "str") -> Escape(v.str)
          [] Is(v, "list") -> gql_value_slice_to_key(v.list) \o <<"]">>
          [] Is(v, "map") -> LET keys == SetToSeq(DOMAIN v.map)
                             IN  FlattenSeq([k \in 1..Len(keys) |-> Entry(v.map, keys[k])]) \o <<"}">>
          [] Is(v, "node") -> <<ToString(v.node.id)>>
          [] Is(v, "rel") -> <<ToString(v.rel.id)>>
          [] Is(v, "path") -> Ids(v.path.nodes) \o <<";">> \o Ids(v.path.rels)
  IN  FlattenSeq([i \in 1..Len(vals) |-> <<Tag(vals[i])>> \o Body(vals[i]) \o <<US, RS>>])

\* The Debug text of a value, the key of GROUP BY and of DISTINCT outside the
\* pipeline: exact for scalars and lists.  A hash map prints its entries in an
\* order of its own, so a value holding one of two or more entries has a text
\* for every order; `order` is the one this instance has.
RECURSIVE HoldsMap(_)
HoldsMap(v) ==
  CASE Is(v, "list") -> \E k \in 1..Len(v.list) : HoldsMap(v.list[k])
    [] Is(v, "map") -> Cardinality(DOMAIN v.map) > 1
    [] Is(v, "node") -> Cardinality(DOMAIN v.node.props) > 1
    [] Is(v, "rel") -> Cardinality(DOMAIN v.rel.props) > 1
    [] Is(v, "path") -> v.path.nodes # <<>>
    [] OTHER -> FALSE
DebugText(v, order) == IF HoldsMap(v) THEN <<v, order>> ELSE <<v>>

-----------------------------------------------------------------------------
(* Expressions: the three evaluators of the engine (over a match, over a   *)
(* match with one unwound variable, over a binding of the pipeline), and   *)
(* what the compiler computes from an expression before it runs.  A name   *)
(* is a sequence of strings, for the text of an expression names the       *)
(* column it is returned in.  A match `pm` maps variables to nodes and to  *)
(* edges; a binding also maps them to values.  shortestPath is the search  *)
(* of GraphSearch and is left out here.                                    *)

Lit(v) == [e |-> "lit", v |-> v]
Var(x) == [e |-> "var", name |-> x]
Prop(x, k) == [e |-> "prop", of |-> x, key |-> k]
Bin(l, op, r) == [e |-> "bin", l |-> l, op |-> op, r |-> r]
Un(op, x) == [e |-> "un", op |-> op, x |-> x]
IsNull(x, neg) == [e |-> "isnull", neg |-> neg, x |-> x]
Agg(func, arg) == [e |-> "agg", func |-> func, arg |-> arg]
Call(fn, args) == [e |-> "call", fn |-> fn, args |-> args]
At(list, index) == [e |-> "at", list |-> list, index |-> index]
Items(seq) == [e |-> "items", seq |-> seq]
ListPred(kind, x, list, body) ==
  [e |-> "pred", kind |-> kind, bound |-> x, list |-> list, body |-> body]
Param(x) == [e |-> "param", name |-> x]
Star == [e |-> "star"]        \* the argument of COUNT(*)

NoFun == [x \in {} |-> 0]
EmptyMatch == [nodes |-> NoFun, edges |-> NoFun]
EmptyBinding == [nodes |-> NoFun, edges |-> NoFun, vals |-> NoFun]
Bind(f, x, v) == [y \in DOMAIN f \cup {x} |-> IF y = x THEN v ELSE f[y]]

\* A property read as a value: bytes cannot be returned and read as NULL.
PropOf(entity, k) ==
  IF k \in DOMAIN entity.props /\ ~Is(entity.props[k], "bytes") THEN entity.props[k] ELSE Null

MapSeq(seq, F(_)) == [k \in 1..Len(seq) |-> F(seq[k])]

\* compute_path_function.
PathFunction(fn, p) ==
  CASE fn = "nodes" -> ListV(MapSeq(p.nodes, NodeV))
    [] fn = "relationships" -> ListV(MapSeq(p.rels, RelV))
    [] fn = "length" -> IntV(Len(p.rels))

\* The functions of a value, shared by the evaluators.
ValueFunctions == {"range", "size", "tolower", "toupper", "coalesce"}
ApplyFunction(fn, args) ==
  CASE fn = "range" -> IF Len(args) # 2 THEN Null ELSE compute_range(args[1], args[2])
    [] fn = "coalesce" -> compute_coalesce(args)
    [] OTHER -> IF args = <<>> THEN Null
                ELSE CASE fn = "size" -> compute_size(args[1])
                       [] fn = "tolower" -> compute_to_lower(args[1])
                       [] fn = "toupper" -> compute_to_upper(args[1])

\* The functions of a variable, in eval_function_call: id of nodes only, type of
\* edges only, labels of nodes only, properties of both, and those of a path.
EntityFunction(fn, arg, pm, paths) ==
  CASE arg.e # "var" -> Null
    [] arg.e = "var" /\ fn \in {"nodes", "relationships", "length"} ->
         IF arg.name \in DOMAIN paths THEN PathFunction(fn, paths[arg.name]) ELSE Null
    [] arg.e = "var" /\ fn = "id" /\ arg.name \in DOMAIN pm.nodes -> IntV(pm.nodes[arg.name].id)
    [] arg.e = "var" /\ fn = "type" /\ arg.name \in DOMAIN pm.edges -> StrV(pm.edges[arg.name].label)
    [] arg.e = "var" /\ fn = "labels" /\ arg.name \in DOMAIN pm.nodes ->
         ListV(<<StrV(pm.nodes[arg.name].label)>>)
    [] arg.e = "var" /\ fn = "properties" /\ arg.name \in DOMAIN pm.nodes \cup DOMAIN pm.edges ->
         MapV(IF arg.name \in DOMAIN pm.nodes THEN pm.nodes[arg.name].props
             ELSE pm.edges[arg.name].props)
    [] OTHER -> Null

\* What a variable or a property of one is in a match: a path, a node, an edge, or
\* NULL when nothing is bound.
MatchVar(x, pm, paths) ==
  CASE x \in DOMAIN paths -> PathV(paths[x])
    [] x \notin DOMAIN paths /\ x \in DOMAIN pm.nodes -> NodeV(pm.nodes[x])
    [] x \notin DOMAIN paths \cup DOMAIN pm.nodes /\ x \in DOMAIN pm.edges -> RelV(pm.edges[x])
    [] OTHER -> Null
MatchProp(x, k, pm) ==
  IF x \in DOMAIN pm.nodes THEN PropOf(pm.nodes[x], k)
  ELSE IF x \in DOMAIN pm.edges THEN PropOf(pm.edges[x], k) ELSE Null

\* eval_expr_on_binding, with eval_list_predicate_on_binding and
\* eval_builtin_function_call: values shadow the match; no path is ever bound.
RECURSIVE eval_expr_on_binding(_, _)
eval_expr_on_binding(x, b) ==
  LET Ev(y) == eval_expr_on_binding(y, b)
      BoundProp(v, k) ==
        CASE Is(v, "node") -> PropOf(v.node, k)
          [] Is(v, "rel") -> PropOf(v.rel, k)
          [] Is(v, "map") -> IF k \in DOMAIN v.map THEN v.map[k] ELSE Null
          [] OTHER -> Null
      Verdict(body, bound, item) ==
        Truth(eval_expr_on_binding(body, [b EXCEPT !.vals = Bind(b.vals, bound, item)]))
  IN  CASE x.e = "lit" -> x.v
        [] x.e = "var" -> IF x.name \in DOMAIN b.vals THEN b.vals[x.name] ELSE MatchVar(x.name, b, NoFun)
        [] x.e = "prop" -> IF x.of \in DOMAIN b.vals THEN BoundProp(b.vals[x.of], x.key)
                           ELSE MatchProp(x.of, x.key, b)
        [] x.e = "bin" -> eval_binary_op(Ev(x.l), x.op, Ev(x.r))
        [] x.e = "un" -> eval_unary_op(x.op, Ev(x.x))
        [] x.e = "isnull" -> BoolV((Ev(x.x) = Null) # x.neg)
        [] x.e \in {"agg", "param"} -> Null
        [] x.e = "items" -> ListV(MapSeq(x.seq, Ev))
        [] x.e = "at" -> eval_subscript(Ev(x.list), Ev(x.index))
        [] x.e = "call" -> IF x.fn \in ValueFunctions THEN ApplyFunction(x.fn, MapSeq(x.args, Ev))
                           ELSE IF x.args = <<>> THEN Null
                           ELSE EntityFunction(x.fn, x.args[1], b, NoFun)
        [] x.e = "pred" -> LET list == Ev(x.list)
                           IN  IF ~Is(list, "list") THEN Null
                               ELSE apply_list_quantifier(x.kind,
                                      MapSeq(list.list, LAMBDA i : Verdict(x.body, x.bound, i)))

\* eval_expr, with eval_function_call and eval_list_predicate: the body of a list
\* predicate is evaluated on a binding, so it sees no path.
RECURSIVE eval_expr(_, _, _)
eval_expr(x, pm, paths) ==
  LET Ev(y) == eval_expr(y, pm, paths)
      Verdict(body, bound, item) ==
        Truth(eval_expr_on_binding(body,
                [nodes |-> pm.nodes, edges |-> pm.edges, vals |-> Bind(NoFun, bound, item)]))
  IN  CASE x.e = "lit" -> x.v
        [] x.e = "var" -> MatchVar(x.name, pm, paths)
        [] x.e = "prop" -> MatchProp(x.of, x.key, pm)
        [] x.e = "bin" -> eval_binary_op(Ev(x.l), x.op, Ev(x.r))
        [] x.e = "un" -> eval_unary_op(x.op, Ev(x.x))
        [] x.e = "isnull" -> BoolV((Ev(x.x) = Null) # x.neg)
        [] x.e \in {"agg", "param"} -> Null
        [] x.e = "items" -> ListV(MapSeq(x.seq, Ev))
        [] x.e = "at" -> eval_subscript(Ev(x.list), Ev(x.index))
        [] x.e = "call" -> IF x.fn \in ValueFunctions THEN ApplyFunction(x.fn, MapSeq(x.args, Ev))
                           ELSE IF x.args = <<>> THEN Null
                           ELSE EntityFunction(x.fn, x.args[1], pm, paths)
        [] x.e = "pred" -> LET list == Ev(x.list)
                           IN  IF ~Is(list, "list") THEN Null
                               ELSE apply_list_quantifier(x.kind,
                                      MapSeq(list.list, LAMBDA i : Verdict(x.body, x.bound, i)))

\* eval_expr_with_unwind_var: only the operators look for the unwound variable;
\* inside a list, a call or a predicate it is not seen.
RECURSIVE eval_expr_with_unwind_var(_, _, _, _)
eval_expr_with_unwind_var(x, pm, uvar, elem) ==
  LET Ev(y) == eval_expr_with_unwind_var(y, pm, uvar, elem)
  IN  CASE x.e = "var" /\ x.name = uvar -> elem
        [] x.e = "prop" /\ x.of = uvar -> Null
        [] x.e = "bin" -> eval_binary_op(Ev(x.l), x.op, Ev(x.r))
        [] x.e = "un" -> eval_unary_op(x.op, Ev(x.x))
        [] x.e = "isnull" -> BoolV((Ev(x.x) = Null) # x.neg)
        [] OTHER -> eval_expr(x, pm, NoFun)

----------------------------------------------------------------------------
(* What the compiler reads off an expression.                              *)

\* The sub-expressions an expression is made of.
Parts(x) ==
  CASE x.e = "bin" -> {x.l, x.r}
    [] x.e \in {"un", "isnull"} -> {x.x}
    [] x.e = "agg" -> {x.arg}
    [] x.e = "call" -> {x.args[k] : k \in 1..Len(x.args)}
    [] x.e = "items" -> {x.seq[k] : k \in 1..Len(x.seq)}
    [] x.e = "at" -> {x.list, x.index}
    [] x.e = "pred" -> {x.list, x.body}
    [] OTHER -> {}

\* collect_expr_vars: the variable of a list predicate is bound inside it only.
RECURSIVE collect_expr_vars(_)
collect_expr_vars(x) ==
  CASE x.e = "var" -> {x.name}
    [] x.e = "prop" -> {x.of}
    [] x.e = "pred" -> collect_expr_vars(x.list) \cup (collect_expr_vars(x.body) \ {x.bound})
    [] OTHER -> UNION {collect_expr_vars(p) : p \in Parts(x)}

\* expr_has_aggregate: lists, subscripts and predicates are not looked into.
RECURSIVE expr_has_aggregate(_)
expr_has_aggregate(x) ==
  \/ x.e = "agg"
  \/ x.e \in {"bin", "un", "isnull", "call"} /\ \E p \in Parts(x) : expr_has_aggregate(p)

\* expr_surface_name: the column of an item without an alias.
RECURSIVE expr_surface_name(_)
expr_surface_name(x) ==
  LET Names(seq) == FlattenSeq(MapSeq(seq, LAMBDA y : expr_surface_name(y) \o <<", ">>))
  IN  CASE x.e = "lit" -> <<ToString(x.v)>>
        [] x.e = "var" -> x.name
        [] x.e = "prop" -> x.of \o <<".", x.key>>
        [] x.e = "param" -> <<"$">> \o x.name
        [] x.e = "star" -> <<"*">>
        [] x.e = "agg" -> <<x.func, "(">> \o expr_surface_name(x.arg) \o <<")">>
        [] x.e = "bin" -> <<"(">> \o expr_surface_name(x.l) \o <<" ", x.op, " ">>
                          \o expr_surface_name(x.r) \o <<")">>
        [] x.e = "un" -> <<x.op, " ">> \o expr_surface_name(x.x)
        [] x.e = "isnull" -> expr_surface_name(x.x)
                             \o <<IF x.neg THEN " IS NOT NULL" ELSE " IS NULL">>
        [] x.e = "call" -> <<x.fn, "(">> \o Names(x.args) \o <<")">>
        [] x.e = "items" -> <<"[">> \o Names(x.seq) \o <<"]">>
        [] x.e = "at" -> expr_surface_name(x.list) \o <<"[">> \o expr_surface_name(x.index) \o <<"]">>
        [] x.e = "pred" -> <<x.kind, "(">> \o x.bound \o <<" IN ">> \o expr_surface_name(x.list)
                           \o <<" WHERE ">> \o expr_surface_name(x.body) \o <<")">>

\* The column of a RETURN or WITH item: its alias, or its text.
Column(item) == IF item.as # <<>> THEN item.as ELSE expr_surface_name(item.x)

\* gql_value_to_literal_expr: an aggregated value put back into an expression; what
\* has no literal becomes NULL.
RECURSIVE gql_value_to_literal_expr(_)
gql_value_to_literal_expr(v) ==
  IF IsStorable(v) THEN Lit(v)
  ELSE IF Is(v, "list") THEN Items(MapSeq(v.list, gql_value_to_literal_expr)) ELSE Lit(Null)

\* eval_aggregate_over_bindings, eval_nested_aggregate_expr and
\* substitute_aggregates: an aggregate inside an expression is computed first and
\* the rest is evaluated on the first binding of the group.
EvalAggregate(x, bindings) ==
  IF x.arg.e = "star" THEN IntV(Len(bindings))
  ELSE PipelineAggregate(x.func, MapSeq(bindings, LAMBDA b : eval_expr_on_binding(x.arg, b)))

RECURSIVE substitute_aggregates(_, _)
substitute_aggregates(x, bindings) ==
  LET Sub(y) == substitute_aggregates(y, bindings)
  IN  CASE x.e = "agg" -> gql_value_to_literal_expr(EvalAggregate(x, bindings))
        [] x.e = "bin" -> [x EXCEPT !.l = Sub(x.l), !.r = Sub(x.r)]
        [] x.e \in {"un", "isnull"} -> [x EXCEPT !.x = Sub(x.x)]
        [] x.e = "call" -> [x EXCEPT !.args = MapSeq(x.args, Sub)]
        [] x.e = "items" -> [x EXCEPT !.seq = MapSeq(x.seq, Sub)]
        [] x.e = "at" -> [x EXCEPT !.list = Sub(x.list), !.index = Sub(x.index)]
        [] OTHER -> x

eval_aggregate_over_bindings(x, bindings) ==
  IF x.e = "agg" THEN EvalAggregate(x, bindings)
  ELSE eval_expr_on_binding(substitute_aggregates(x, bindings), IF bindings = <<>> THEN EmptyBinding ELSE bindings[1])
=============================================================================
